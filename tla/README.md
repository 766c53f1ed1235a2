# Verification of bubble-boot-go-kratos

TLA+ models of the parts of this service in which several actors share state, the TLC runs that
check them on small instances, and TLAPS proofs of the results that matter most for every instance.
The reference is the code under `src/`; each module says in its header which files it translates, and
the `map` in PROJECT.json gives the lines of every definition.

- [The system](#the-system): parts, their state, operations and interactions, what is hard about them
- [Modules](#modules): what each module models and how it corresponds to the code
- [Runs](#runs): what TLC checks, with which bounds and which fairness
- [Proofs](#proofs): what is proved, from which assumptions, along which argument
- [Where the code and its documents disagree](#where-the-code-and-its-documents-disagree)
- [Not modelled](#not-modelled) and [Plan](#plan)

## The system

A Kratos service: HTTP, gRPC and WebSocket servers, handlers in `internal/service`, use cases in
`internal/biz`, repositories in `internal/data` over PostgreSQL (gorm) and Redis, and libraries in
`internal/pkg`. Each request runs in a goroutine of its own. Several processes may share PostgreSQL and Redis. What
requests share is Redis, the table `users`, the id generator and the WebSocket hub.

| Part | State | Operations | Interacts with | Hard about it |
|---|---|---|---|---|
| Token service and store (`pkg/auth/auth.go`, `pkg/auth/store/redis_store.go`) | Redis: one key per token with a TTL, one set of tokens per user without | GenerateToken, RevokeToken, RevokeAllTokens, RevokeAllTokensByUserID, GetUserTokens | called by the middleware and the passport use case | every operation is several Redis commands, none in a transaction; errors dropped on some; TTLs; a process may die between two commands |
| Access control (`pkg/auth/middleware.go`, `server/http.go`) | none; configured public paths | Match, JWTRecheck, the upgrade to a WebSocket beside it | the token store, the generated HTTP handlers | a token is valid by its signature and revoked in Redis; it is checked, and used later |
| One-time codes (`biz/otp.go`, `data/otp_cache.go`) | three Redis keys per kind, scene and receiver: interval, code, fail counter | SendPhoneOtp, SendEmailOtp, VerifyPhoneOtp, VerifyEmailOtp | SMS and mail providers; passport and public services | rounds that overlap, slow or failing sends, get and delete in two commands |
| Id generator (`pkg/idgen/snowflake`) | last stamp, sequence number, a mutex; in memory | NextID | the hook that fills the primary key of new rows | the wall clock is set back; several readings of it in a call; restarts; bursts |
| WebSocket hub and chat (`pkg/ws`, `service/websocket.go`, `service/chat.go`, `biz/chat.go`) | map from user to connection; per connection two goroutines, a channel of 256 messages, a socket | Register, Unregister, SendToUser, readPump, writePump, HandleChat | token service for the upgrade; presence in Redis has no caller | reconnects, closing of channels that others send to, full channels, peers that vanish |
| Accounts (`biz/passport.go`, `service/passport.go`, `data/user.go`) | table `users`, unique user names and phones | Register, LoginByPassword, LoginByOtp, Logout, UserInfo, UpdatePassword, BindMobile, UpdateMobile, ResetPassword | one-time codes, captcha, token service, id generator | check, then act, over two databases; partial failures |
| Captcha (`biz/captcha.go`, `data/captcha_store.go`, `service/public.go`) | Redis: one key per captcha, ten minutes | Generate, Verify, and SendSmsOtp behind it | one-time codes, accounts | get and delete in two commands |
| Mail and SMS (`pkg/email`, `pkg/sms`) | none | Send, for mail with up to three attempts | called by one-time codes | ambiguous failures, retries, cancellation |
| Data layer (`data/data.go`) | connections | NewDB, NewRedis with its retries, cleanup; InTx, getDB, Q | all repositories | who may still use what is being closed; statements that leave the transaction of the context |
| Upload and storage (`biz/upload.go`, `pkg/oss`) | files, buckets | UploadFile, Upload | not registered with a server | the head of a file is read before it is stored; a partial file after a failed copy |
| Cron (`pkg/cron`, `job`) | schedule | AddJob, Start, Stop | main | runs that overlap, a stop that does not wait, or that comes before the start |
| Process (`cmd`, `server`, `conf`) | which servers run, the configuration | main, wireApp and its constructors; kratos starts and stops the servers | everything | a server that cannot start, a signal in the middle of requests, what is closed when, sections of the configuration that are missing |
| Generated code (`api`, `data/query`) | none | decoding, Validate, HTTP handlers | access control, services | rules that nobody applies |
| Rendering, translation, debug | none | - | - | - |

What makes each of them correct:

- **Tokens**: a token that was revoked is never usable again; a revocation that is acknowledged has
  happened; nobody's revocation hits another user's token; every usable token is found by a purge of its user.
- **One-time codes**: a code that was accepted is gone; only what was sent is accepted; what was announced was
  stored; no two sends within the resend interval, and no older code over a newer one.
- **Ids**: unique over processes and restarts; increasing within a process.
- **Hub**: a channel is closed once; connections that ended leave the hub; goroutines end; a user who is
  connected is reachable.
- **Accounts**: user names and phones unique; after a password change only the new password and no older
  token works; a code is not used up by a request that then fails for another reason.
- **Captcha**: used once, whether the answer was right or wrong.
- **Mail, SMS, uploads**: an answer that tells what happened; at most three attempts, none after the client left.
- **Access control**: a token that ended opens nothing, in any handler; services see messages that keep the rules.
- **Process**: start-up, calls and stop end; no request finds a connection that is not open yet or closed already,
  or a part of the configuration missing that could have been found at the start; no job starts after the stop.

## Modules

| Module | Models | Used by |
|---|---|---|
| `TokenStore` | the token service over the Redis store | `MCTokenStore`, `TokenStoreProofs` |
| `SessionStore` | abstract: what a client is promised about sessions | `TokenStore` (refinement), `Accounts` and `Gateway` (composition) |
| `Snowflake` | NextID over clocks that are set back, and restarts | `MCSnowflake`, `SnowflakeProofs` |
| `Otp` | sending and verifying one-time codes of one receiver | `MCOtp`, `OtpProofs` |
| `CodeStore` | abstract: what a receiver is promised about his codes, and what follows from it (`Promise`) | `Otp` (refinement) |
| `Accounts` | registration, logins, password and phone changes over the table `users` and the sessions of `SessionStore` | `MCAccounts`, `AccountsProofs` |
| `WsHub` | the hub, the two goroutines of a connection, the chat handler's sends | run as it is; `WsHubProofs` |
| `Messages` | the requests of the HTTP API and the rules of their Validate methods | `Gateway` |
| `Gateway` | handlers, access control, captcha and services before the use cases | `MCGateway`, `GatewayProofs` |
| `Conf` | the messages of the configuration, as sections that are there or missing | `Providers` |
| `Providers` | calls of the SMS, mail and storage providers, and what they look up in the configuration | `Process` (composition) |
| `Process` | start-up, servers, jobs and stop, with the calls of `Providers` in between | `MCProcess`, `ProcessProofs` |

The `MC` modules hold the symmetry sets and the values a cfg cannot write. Definitions whose comment begins
with "Mutant" are what a plausible mistake in the code would make of the definition below them; no specification uses them.

**TokenStore.** One action is one Redis command and the Go code up to the next one, named for the Go function and the
command: `SaveTokenSet` and `SaveTokenSAdd` are SaveToken, `DeleteTokenGet`, `DeleteTokenSRem`, `DeleteTokenDel`
are DeleteToken. `pc[r]` is the command a request is about to send, `usr`, `jti`, `seen` its Go variables.
`token[j]` is the key `jwt:token:{j}`, `index[u]` the set `jwt:user:{u}:tokens`. `Expire` lets the token's
ExpiresAt pass, `Evict` the TTL of its key; the set has none. With `"redis" \in Faults` each command may return an error,
having been executed or not; with `"crash"` a request may stop between two commands. The error of a command leads where it leads in the code:
to the caller, or to nothing. The middleware's check of the caller's token is the guard of `RevokeToken` and
`RevokeAllTokens`; `RevokeAllParse` is the second look RevokeAllTokens takes at it. `due` is a history variable: the usable tokens a client had
asked to revoke when it asked.
`SessionStore` is what remains when Redis and the requests are taken away: a session is opened once, by one user, and ends once. The mapping
is `SessionState` and `SessionOwner`: a token is live while its key is there.

**Snowflake.** NextID is cut at each reading of the clock and each wait: `Call`, `Lock`, `Read` (first reading,
comparison with `nowTS`, error or sleep), `Wake` (second reading), `Spin` (the busy wait after `MaxSequence` ids in
a millisecond). Each node has a clock that runs (`Tick`), may be set back (`SetBack`), and processes that restart (`Restart`), where `nowTS`
and `seq` are lost. `Setbacks` says when a clock may be set back besides between calls. `Id` is the arithmetic
of the shifts. `last` is a history variable: the last stamp that any process of the node used.

**Otp.** One receiver, one scene; keys of others are disjoint. Codes are numbered in the order in which they are generated: two rounds are assumed to
draw different codes, and a wrong guess is not the stored code. `interval`, `code`, `fail` are the three keys; `SendOtp`, `AcquireInterval`
(SETNX), `SendCode`, `StoreCode`, `ClearFailures` are process, `VerifyOtp`, `CompareCode`, `CountFailure`, `UseCode`, `ForgetFailures` are verify. A send that
returns an error may have reached the receiver; a send may take longer than `resend_interval` (`IntervalExpires` at any time); every request overlaps every other. A command takes effect once at most: that
go-redis sends one again after a network error, and a SET is applied a second time, is left out. `over` (the codes that were stored and no longer are), `outlived` (those whose
interval ran out before they were stored), `delivered`, `confirmed` and `accepted` are history variables.
`CodeStore` is what remains when Redis and the requests are taken away: a code is received, becomes the usable one once and ends; a visit of the receiver takes hold of the usable code (`Hold`), and
gets through with it later (`Use`), which ends whatever is usable by then. That several visits hold one code, and all get through, is part of it, because verify compares and deletes in two commands and
its DEL looks at nothing; so is that a use ends a newer code. What the store promises nevertheless is `Promise`: nobody takes hold of a code that has ended, and a code that was used has ended. The mapping: usable is what is
stored, a visit is a request, and it holds its code from the comparison to the DEL. `StoreCode` is an Issue, `ClearFailures` an Announce, `CompareCode` a Hold, `UseCode` a Use or a Fail, a death before the DEL
a Fail, an expiry a Lapse, and everything else a stutter.

**Accounts.** `name`, `phone`, `hash` are the columns of `users` (scripts/db/init.sql), a user's row is there when his name is. One action is one SQL statement
or one call of the token service; the first action of a request is its handler in service/passport.go up to the first statement, with the
one-time code accepted (`Proves`). Tokens are not modelled again: `owner` and `state` are the variables of `SessionStore`, and every action that touches
them is an `Open` or an `End` of it, which is all that `TokenStore` was shown to promise. `Purge` ends the sessions in the set of its user in one step. What a purge may miss is named: `missed` are the
sessions whose entry in the set a purge may not see or may have lost, because a change of the user overlapped their login (`Overlapped`: it is revoking, or has stored another password since the login read it), because GenerateToken was
answered with an error, because a logout has taken them out of the set and not deleted them yet, or never will (`LogoutSRem`), or because an earlier purge of a failing Redis left them; that purge may have been answered nil (redis_store.go:88, 94). `unrevoked` are the users whose change stored its password and was answered with an
error or cut off before its purge; a later purge takes them out again. Both are history variables, as are `basis` (the password as the login of a session read it) and `proven` (the phones with an
accepted code). The check in LoginByPassword is that the row has a password: which one was entered is chosen
with the answer. What no document promises to be ordered is not: lookups, inserts and updates of several requests interleave, errors of lookups are taken for "not found" where the
code does so, and only the unique columns stop a second row. Left out: UserInfo and
CheckPhoneRegistered, which change nothing; `is_available`, TRUE in every row the program writes; requests that are refused before their first statement.

**WsHub.** `reader[c]` is where readPump of connection `c` is, from `Register` over `Receive` and the sends of the
handlers (`Load`, `Push`) to the deferred `Unregister` and `Close`; `writer[c]` is writePump. A channel is the number of messages in it: contents are left out. `Push`
waits while the channel is full and panics when it is closed; no recover is on that path, so `Panic` ends the process
and with it all connections. An owner is chosen for each connection in the initial state. `Told` is what ProcessMessage decides: a message to oneself, or an empty one, is answered
to the sender only.

**Messages and Gateway.** A string is its length, because the rules and the services' comparisons of passwords look at no more. `Text = {0, 6}` has a
length that breaks every rule and one that keeps them all. A request is decoded by its handler (`RegisterHandler`, ...), meets the middleware (`Arrive`, `JWTRecheck`), then
the captcha where the service asks for one (`Handle`, `CaptchaGet`, `CaptchaDel`, which is the DEL and the comparison), then the service (`Register`, ...), which answers at random
what its use case may answer: what use cases do is in `Otp` and `Accounts`. No service looks its token up again, but for RevokeAllTokens, whose `Purge` has the second look: `Logout` answers from the claims in the context, and nil also
for a token that has ended since the middleware let it through (auth.go:163-180, redis_store.go:72-74). Sessions are again those of `SessionStore`. `in[r]` keeps of a message what later steps
ask of it. `Arrive` refuses, or takes a token that is signed by the service and not expired; whether it is still in Redis is `JWTRecheck`. `/ws` (`WSHandler`, `VerifyToken`) is bound beside
the middleware and looks at its token itself. `PublicPaths` and `PhoneScenes` have the values of configs/config.yaml. History variables: `stale`, `compared`, `spoiled`.

**Conf, Providers and Process.** `Conf` has one record per message of conf.pb.go, with the names of the Go types (`ServerSection`, `DataSection`, `AppSection` are Server, Data and App): a pointer, or an entry of a
map, is a set with the section or without. The fields that the process branches on are kept. A message is mapped to its generated type with the methods.
`Providers` is one machine per call: `SendPhoneOtp` and `SendEmailOtp` find the scene, the factories (`NewSmsSender`, `NewEmailSender`, `NewOSS`) say who sends; `SmsSend` and `SendSmsWithOptions`; `EmailSend`, with `Renders` for subject and file of
the template, and the loop of sendWithRetry (`Attempt`, `Delivered`, `DialFails`, `Retry`,
`Cancelled`); `Upload` is the service, `UploadFile` finds the scene, `UploadFileIn` compares the size; `VerifyFileType`, `UploadLocal`, `UploadRemote`. An answer is "panic" where the code follows a nil pointer and the recovery middleware answers. A failed attempt may have been taken by the provider (`accepted` counts). `select` between the timer and the cancelled
context is a choice. `Process` goes from LoadConfig to the exit; `NewGRPCServer`, `NewDB`, `NewRedis` and `WireApp` are the constructors in the order of wire_gen.go,
the last one with those that only look into the configuration (`NewIDGenerator` to `NewHTTPServer`). kratos is modelled from how it is called: App.Run starts each server in a goroutine, stops each in another when the
context is done, and returns when all have returned. Its HTTP server's Stop closes the listener and waits for requests, without limit
or with one (`limit`, chosen at the start: newApp sets none). A panic in a constructor and Fatalf end the process without cleanup. Requests begin only while HTTP is up.

## Runs

| Run | Checks | Instance | Shows |
|---|---|---|---|
| `token_faults` | `TypeOK`, `RevocationIsolated`, `ImplementsSessions` | 2 users, 2 tokens, 2 requests; errors, crashes, everything overlaps | nobody is logged out by somebody else, no token comes back |
| `token_quiet` | `RevocationSettles`, `LiveTokensIndexed` | 2 users, 2 tokens, 3 requests; no errors, no login during a purge | acknowledged revocations have happened, every usable token can be found |
| `token_purge_race` | `PurgeRevokesAll`, violated | 1 user, 2 tokens, 2 requests | without the last assumption a token is lost to every purge |
| `snowflake_steady` | `TypeOK`, `UniqueIds`, `IdsIncrease`, `CallsAnswered` | 2 nodes, 2+1 callers, 2 ids a millisecond, back-off 1 ms, 3 readings, 3 ids a node | unique and increasing ids, calls that end |
| `snowflake_setback` | `UniqueIds`, violated | 1 node, 2 callers | the second reading is not compared |
| `otp` | `TypeOK`, `StoredWasDelivered`, `AcceptedCodeEnds`, `NewestCodeStored`, `SendsSpaced`, `ImplementsCodes` | 3 requests, 2 codes; all faults, every overlap, slow sends | what can be accepted was sent; what was accepted or has ended does not come back; rounds keep their order unless one outlives its interval |
| `accounts_flows` | `TypeOK`, `OldPasswordSessionsEnd`, `PhonesProven` | 2 users, 1 name, 1 phone, 2 passwords, 2 sessions, 2 requests; all faults, every overlap | a password change ends the sessions of the old one but for those a revocation may miss, phones are proven |
| `hub_pumps` | `TypeOK`, `ClosedOnce`, `NoDeadEntries`, `PumpsEnd` | 2 users, 2 connections, channels of 2 | no double close, no dead entries, goroutines end or wait for room |
| `hub_reconnect` | `OnlineUsersReachable`, violated | 1 user, 2 connections | the newer connection's end takes the older one off the hub |
| `gateway` | `TypeOK`, `EndedTokensRefused`, `ComparedOnce`, `ScenesConfigured` | 2 requests, 2 sessions, 1 user, 1 captcha, 1 phone; failing Redis, every message, shipped configuration | tokens that ended open nothing, captchas are tried once |
| `gateway_rules` | `RulesEnforced`, violated | 1 request | nobody validates |
| `process` | `TypeOK`, `AnswersTrue`, `CancelStopsRetries`, `RedisServesRequests`, `MissingFoundAtStart`, `SchedulerStops`, `StepsRunOut`, `CallsEnd`, `StartUpEnds`, `StopEnds` | 1 call of any kind, 20 configurations, 1 job | answers are true; what is missing is found at the start; start-up, calls and stop end; what is closed when |

**Bounds.** Every token, code and connection is used once, so their number bounds the length of a history; there is no
other bound on the number of requests, which start again after each answer.
*Two tokens and two users* suffice for a token to be hit by another user's request or be reused; with *three requests* a login, a
purge and a logout of one user overlap. *Two codes* are needed for a replacement, with *three requests* beside two rounds or two verifications of one code. *Two connections*: one of each user, or both of one
(a reconnect); the same safety properties were also checked with three connections. `Cap = 2` makes a channel neither full nor empty, full, and empty. `MaxSequence = 1`
overflows at the third id of a millisecond; `MaxBackoff = 1` and clocks from 1 to 3 around `Epoch = 2` give setbacks that are slept
over, refused, and readings before the epoch; the safety properties were also checked with `MaxBackoff = 2` and clocks to 4, which is too large for the liveness property. `MaxFailCount = 2` reaches the
limit with few guesses (it is 5 in the code). *Two passwords, two sessions, two requests* give a session under either password, and a change beside any other request; with one phone two users contend for it. The same properties
hold for two phones (10 million states, not kept as a run). *Two requests, one captcha* in `gateway` let both requests meet in the captcha, and a logout or a purge come between any two steps of the other. *One call* in `process`: calls do not share anything but the
process that ends; its configurations are the shipped one, as it is and in production, two whose templates and scenes fit, with the other providers, and one for each section that can be
missing or number that can be wrong; they reach the mock and the real senders, the local and a remote storage. With *two sizes* and *two types* a file is within its limits or beyond each. Symmetry is used
in runs of safety properties only. `hub_pumps`, `hub_reconnect` and `process` do not check for deadlock: the supply of connections is bounded and
used up, and a process ends. All other runs check it.

**Fairness.** Three modules state it.

- *WsHub*, for `PumpsEnd`: weak fairness of the reader and of the writer of each
  connection. The Go scheduler runs every goroutine that is ready; a read from a vanished peer ends by the read deadline
  (`pongWait`), a write by the write deadline, and the ping ticker makes writePump notice. Nothing is assumed of peers, users or channels: that a send into a full channel
  finds room is not assumed, which is why `PumpsEnd` excepts a reader that is `Blocked`. Such a reader is a real leak, when writePump has ended
  and its channel is full.
- *Snowflake*, for `CallsAnswered`: weak fairness of a caller that has the mutex and of the clocks, and strong fairness of `Lock`, because `sync.Mutex` hands itself over to
  a waiter that has waited for a millisecond. The property has the premise that clocks are set back finitely often; without it the busy wait need not end. `SpinsAtBound`
  excepts a caller at the last reading of the bounded clock.
- *Process*: weak fairness of start-up, of each server's Start and Stop, of the cleanup, and of each try of a call: that one dial, ping or copy ends is up to the libraries and their
  time limits (gomail sets no read deadline, so that a mail server that falls silent is beyond `CallsEnd`). Neither signals, nor clients that leave, nor the jobs are assumed to act.

The other modules are about safety.

**Mutants.** PROJECT.json names for every property of a passing run a changed definition under which TLC finds the property violated.

## Proofs

All theorems are about the specifications the runs use, for all values of the constants that satisfy `ConstantsAssumption`.

`TokenStoreProofs`, with `Quiet == Faults = {} /\ LoginExclusive`:

- `TypeCorrect`, `Isolation` (`RevocationIsolated`) and `Implementation` (`ImplementsSessions`) hold for any faults and any overlap. The inductive invariant says of the
  keys that a stored token is signed for the user it is stored under, and of each request what its variables stand for at its next
  command: a token being saved has no key yet and is nobody else's, what is to be deleted has the request's user as subject. Isolation needs this because a DEL may
  be sent long after the check that allowed it; the refinement needs in addition that a key never appears for a token that was used up.
- `RevocationComplete` (`RevocationSettles`) and `TokensFindable` (`LiveTokensIndexed`) are proved for `Quiet`. The strengthening says where a token is that is stored: in the set of its
  user, or in the hands of its login, or of a logout between SREM and DEL; and where the tokens in `due` are at each step of a purge: among those it
  has read, or doomed. `token_purge_race` has the instance of `token_quiet` but for `LoginExclusive`: the overlap alone breaks it.
- `EndedForGood`, for any faults and overlap: what ended is never usable again and no token changes its user. It is proved of `SessionStore` and carried over by `Implementation`; it is what `Accounts` and
  `Gateway` build upon when they use `SessionStore` in place of the store.

`SnowflakeProofs`, with `SetBackBetweenCalls == Setbacks = {}`, and `WorkersDiffer` for uniqueness:

- `TypeCorrect`; `Increasing` (`IdsIncrease`): the invariant orders the last id issued, the pair of `nowTS` and `seq`, and the reading that each caller inside
  the mutex holds; a clock that is set back between calls is caught by the comparison with `nowTS`, a restart by the bound `last`. `Uniqueness` (`UniqueIds`) follows for one node from the order,
  for two from lemmas on `Id`: the worker and sequence fields do not overlap, so ids that are equal have equal workers.
- `NodesNeverCollide`, for any `Setbacks`: two nodes with different workers never share an id, because every id is the `Id` of some stamp for its node's worker (`Stamped`), whatever the
  clocks do. What `snowflake_setback` shows is therefore the only kind of collision there is: one node, twice.

`OtpProofs`:

- `TypeCorrect`; `OnlyDeliveredStored` (`StoredWasDelivered`): what a round is about to store has been delivered.
- `SendsApart` (`SendsSpaced`): `RoundInv` says that a round between its SETNX and its end which has not outlived its interval finds the interval key there and has the latest code. No assumption on how long
  a send takes is made; the code of a round that takes too long is in `outlived`, and the property says of two rounds at once that one of them is.
- `AcceptedGone` (`AcceptedCodeEnds`) and `NewestStored` (`NewestCodeStored`): `StoredInv` says what each request's code is by where it stands (not stored before the SET, stored or over after it), that what is over is not
  stored, and that what was accepted is over; with `RoundInv` it follows that a round within its interval stores the latest code of all.
- `Implementation` (`ImplementsCodes`), from the four invariants together; `CodesStep` has one case per action. `CodeStore` has its own theorem, `Promised`, and `PromiseKept` carries it over.

All of them hold for any faults, any overlaps and any number of requests. What they do not say, because it is not so: that a code is accepted once (requests that have all compared it before the first DEL are), and that no
late DEL takes a newer code away.

`AccountsProofs`:

- `TypeCorrect`, with what each step of a request may count on: a user found before a password is stored, a session behind an update.
- `OnlyProvenPhones` (`PhonesProven`), for any faults and overlaps. `ProvenInv` adds that a request that may write its phone into the table had a code for it accepted.
- `PasswordChangeRevokes` (`OldPasswordSessionsEnd`), for any faults and overlaps, logins beside changes too. The property is inductive once `RowsInv` is known: sessions and requests belong to users whose row is there, so that an
  INSERT never gives a password to somebody who has sessions. A session is opened with its user's present password or the login was overlapped (`GeneratePassword`); what a change stores makes its user one who is being
  revoked (`StoreKeepsPassword`), and stays so until a purge, an error or a death (`RevokePassword`, `OtherPassword`); what a purge leaves it may miss. A second change of the same user may overlap the first.

`WsHubProofs`, for any users, connections and capacity:

- `TypeCorrect`; `CloseOnce` (`ClosedOnce`) and `EntriesLive` (`NoDeadEntries`) from one invariant, `HubInv`: an entry of the hub is a connection of that user, open, whose readPump
  has not come to its Close (`EntriesAlive`); what a pump is about to close has left the hub and no other pump holds it (`ClosersApart`); and a connection that has not come
  yet is closed by nobody (`OffUntouched`), so that Register never stores a closed one. `ClosedOnce` alone is not inductive: it says nothing of two pumps that hold the same client.
- `Reachable` (`OnlineUsersReachable`), under `[]OneAtATime`: no connection of a user is registered while an older one of his is in front of its Unregister. The property is the one `hub_reconnect` refutes, so the theorem says that
  such an overlap is the whole reason. The invariant is `ServedIsKnown`: from Register to Unregister the hub has this connection for its user. A reconnect after the Unregister is allowed, full channels and panics too.

`GatewayProofs`, for any scenes, faults and number of requests:

- `TypeCorrect`; `NoAnswerForEnded` (`EndedTokensRefused`): a request of which a token was asked, by the middleware or by /ws, and whose token had ended when it came, is at one of the two look-ups, or answered and not "ok", because what has ended stays
  ended whatever the other requests do to the sessions (`SessionsGrow`, from `Open` and `End` of `SessionStore`). Operations in `PublicPaths` are asked for no token, and the theorem says nothing of them; a token that ends after the
  look-up may still be answered ok.
- `OneAnswerEach` (`ComparedOnce`): a captcha that was compared is gone and nobody holds it; one that is not spoiled has one reader at most between GET and DEL.
- `ScenesAgree` (`ScenesConfigured`), when `PhoneScenes` has the four scenes of the API (`ScenesFound`).

`ProcessProofs`, for any calls, configurations, numbers of attempts and of jobs:

- `TypeCorrect`; `NoFalseNil` (`AnswersTrue`) and `CancelEndsRetries` (`CancelStopsRetries`). `Place` says what a call is for by where it is, and that what is stored was put back whole
  after its head was read; `Attempts` counts: a wait begins only with a live context and attempts left, so the one that the timer lets through is the only late one.
- `RedisOutlivesRequests` (`RedisServesRequests`) and `SchedulerEnds` (`SchedulerStops`, an action property). `Order` ties the phases of main to the connection and the servers, `HttpWaits` says
  that a request in flight keeps HTTP from being down, or Stop gave it up, `CronStopped` that a stopped scheduler runs only if it was started after its Stop.
- `MissingFoundEarly` (`MissingFoundAtStart`), for any configuration: `Found` says that main runs the servers only with what every constructor has accepted (`Wired`), and by `Order` a request begins only then,
  so that of the pointers a request follows only app.otp and app.upload can be nil. (app.auth.passport can be too; passport.go:139 looks first.)
- `NothingLoops` (`StepsRunOut`), for any numbers of calls and attempts: `CallLeft` and `LifeLeft` are numbers that each step of a call, and each step of main and the servers, makes smaller, and that nothing else makes larger. It is
  the part of `CallsEnd`, `StartUpEnds` and `StopEnds` that can be proved here; what fairness adds is that a step that can be taken is taken, and TLC that one always can.

The proofs use the library's theorems about finite sets and sequences and nothing unproved. Model-checked only: the liveness properties (`CallsAnswered`, `PumpsEnd`, `CallsEnd`, `StartUpEnds`,
`StopEnds`), which TLAPS does not do, and the violations, which are single behaviours. Each violated property but `RulesEnforced` has a theorem that says when it holds: `RevocationComplete` for `PurgeRevokesAll`, `Uniqueness`, `Reachable`.

## Where the code and its documents disagree

Each is a run that TLC ends with a counterexample; PROJECT.json quotes the lines.

1. `token_purge_race`: DeleteUserTokens reads the set and later deletes all of it. A login that writes in between leaves a
   token outside every set; the next purge answers nil and the token works until it expires. The comments of passport.go:203 and 262 say all tokens are revoked.
2. `snowflake_setback`: after its sleep NextID does not compare the clock with the last stamp again; a second setback in the sleep makes it reuse stamps.
3. `hub_reconnect`: the hub goes by the user. The end of a user's newer connection takes the user off the hub though the older connection is open, and read from.
4. `gateway_rules`: the rules of the proto files are generated into Validate methods that no middleware and no service calls.

Met while modelling, without a run: DeleteUserToken takes a failed SMEMBERS for an empty set and answers nil (redis_store.go:64), DeleteUserTokens too (88) and it drops the error of the DEL (94); GetUserTokens takes a usable token out of its set when a GET fails (111).
Two verifications of one code may both be accepted, and a late DEL removes a newer code (otp.go:178): no document says single use. A local upload is answered ok when the Close of its file fails (oss/local.go:81 drops the error; the model leaves it out). LoginByOtp registers a phone as the user name as well, so that after a change of
phone the old one can never be registered again (passport.go:142). `public_paths` lists `LoginBySms` (config.yaml:57), which is no operation: a login by code needs a token as it is shipped. The mail templates in config.yaml are named otherwise than the
files they name (email_bind, bind_email.html): with the shipped configuration no mail is ever rendered in production (`Renders`). A configuration without app.otp starts, and every request for a code panics. `jwt.expire` and `jwt.store` are in the configuration, NewTokenService and NewTokenStore take neither. The scenes of uploads are looked up as `UPLOAD_...`, the keys of config.yaml are `common_image` and the like.

## Not modelled

- Rendering, translation, debug notes: no state. The three remote storages are one action; Delete and presence in `data/chat.go` have no caller, GenerateURL changes nothing.
- Two thirds of the Go code are generated: protobuf plumbing (descriptors, reflection), replies, clients, gRPC stubs that nothing registers, the error types of the validators, the query builder. What of it has behaviour of its own, the requests, the configuration,
  their Validate methods, the HTTP handlers and the operation names, is modelled; the rest has nothing to be checked. Of the code written by hand nearly every file with state or control has its module.
- Of the configuration: addresses, credentials, durations, pool sizes, and the sections that hold nothing else, which are only there or not.
- Transactions: InTx has no caller, the repositories run one statement at a time.
- JWT signatures, bcrypt and the drawing of random codes: external; a JWT is its id and its subject.
- Inside what is modelled: contents of messages and of codes, wording, TTL values, `int64` overflow of ids after 2^41 ms, message ids of `biz/chat.go` (the second in which they were sent).
- A WebSocket is not closed when the token it was opened with ends; nothing says that it should be.

## Plan

Done: the components whose state is shared by concurrent requests and whose failures are silent, the token store first; the
flows of `Accounts` that compose them; the way of a request to them (`Gateway`); the calls outside and the life of the process (`Providers`, `Process`).

Left: the two steps of InTx once it has a caller; the upload service once it is registered; liveness of `Otp` and `Accounts` would need time limits of Redis and PostgreSQL calls that the code does not set.
The set of runs is kept small: when a module comes, the violation runs are reviewed first. The limit of wrong guesses in verify (it changes the answer, never the code) is in `Otp` and no
property is about it, since no document says that guessing stops.
