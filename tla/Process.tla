-------------------------------- MODULE Process --------------------------------
(***************************************************************************)
(* The life of the process: main and wireApp (cmd/bubble-boot-go-kratos),   *)
(* the connections (internal/data/data.go), the servers that kratos starts  *)
(* and stops together (internal/server), and the scheduled jobs             *)
(* (internal/pkg/cron).  While it serves, requests make the calls of        *)
(* Providers.                                                               *)
(***************************************************************************)
EXTENDS Providers

CONSTANTS
    MaxJobs        \* bound: jobs that run at a time

ASSUME ProcessAssumption == MaxJobs \in Nat

VARIABLES
    phase,     \* how far main is
    limit,     \* whether kratos gives up waiting for requests; newApp sets no limit
    pings,     \* i of NewRedis
    ponged,    \* history: Redis has answered a ping
    redis,     \* the Redis client: "none", "open", "closed"
    server,    \* "off" before Start, "up" or "failed", "closing" while HTTP waits for its
               \* requests, "down"; "late" is cron when it was started after its Stop
    stopped,   \* the servers whose Stop has returned
    stopping,  \* the context of the servers is done: a signal, or one failed to start
    forced,    \* the HTTP server was closed under its requests
    jobs,      \* the number of jobs that run
    exit       \* how the process ended: "clean", "panic", "fatal" is os.Exit

main == <<phase, exit>>
boot == <<pings, ponged, redis>>
servers == <<server, stopped, stopping, forced>>
fixed == <<config, calls, limit>>
life == <<main, boot, servers, limit, jobs>>
vars == <<config, calls, life>>

Server == {"grpc", "http", "cron"}

TypeOK ==
    /\ CallsType
    /\ phase \in {"config", "grpc", "db", "redis", "wire", "run", "returned", "exited"}
    /\ limit \in BOOLEAN
    /\ pings \in 0 .. 3
    /\ ponged \in BOOLEAN
    /\ redis \in {"none", "open", "closed"}
    /\ server \in [Server -> {"off", "up", "failed", "closing", "down", "late"}]
    /\ stopped \subseteq Server
    /\ stopping \in BOOLEAN /\ forced \in BOOLEAN
    /\ jobs \in 0 .. MaxJobs
    /\ exit \in {"none", "clean", "panic", "fatal"}

Init ==
    /\ CallsInit
    /\ phase = "config"
    /\ limit \in BOOLEAN
    /\ pings = 0
    /\ ponged = FALSE
    /\ redis = "none"
    /\ server = [s \in Server |-> "off"]
    /\ stopped = {}
    /\ stopping = FALSE /\ forced = FALSE
    /\ jobs = 0
    /\ exit = "none"

Exit(how) == phase' = "exited" /\ exit' = how
Enter(next) == phase' = next /\ UNCHANGED exit

-----------------------------------------------------------------------------
(* Start-up *)

\* Load and Scan may fail; env.Init looks into the section app.
LoadConfig ==
    /\ phase = "config"
    /\ (Has(config.app) /\ Enter("grpc")) \/ Exit("panic")
    /\ UNCHANGED <<fixed, boot, servers, jobs>>

\* wireApp begins: a section that a constructor looks into and that is not there is a
\* nil pointer, and a panic that nobody recovers from.
NewGRPCServer ==
    /\ phase = "grpc"
    /\ IF Has(config.server) /\ Has(ServerConf.grpc) THEN Enter("db") ELSE Exit("panic")
    /\ UNCHANGED <<fixed, boot, servers, jobs>>

\* gorm.Open; Fatalf ends the process without the deferred calls.
NewDB ==
    /\ phase = "db"
    /\ IF Has(config.data) /\ Has(Data.database)
       THEN Enter("redis") \/ Exit("fatal")
       ELSE Exit("panic")
    /\ UNCHANGED <<fixed, boot, servers, jobs>>

\* Mutant: the error of the last ping is logged only.
NewRedisLenient ==
    /\ phase = "redis"
    /\ \/ ponged' = TRUE /\ redis' = "open" /\ pings' = 0 /\ Enter("wire")
       \/ pings < 3 /\ pings' = pings + 1 /\ UNCHANGED <<phase, exit, ponged, redis>>
       \/ pings = 3 /\ redis' = "open" /\ Enter("wire") /\ UNCHANGED <<pings, ponged>>
    /\ UNCHANGED <<fixed, servers, jobs>>

\* Mutant: the loop has no end, its last ping is one of three.
NewRedisForever ==
    /\ phase = "redis"
    /\ \/ ponged' = TRUE /\ redis' = "open" /\ pings' = 0 /\ Enter("wire")
       \/ pings' = (pings + 1) % 3 /\ UNCHANGED <<phase, exit, ponged, redis>>
    /\ UNCHANGED <<fixed, servers, jobs>>

\* Three pings with a second after each failure, then a last one.
NewRedis ==
    /\ phase = "redis"
    /\ \/ ~Has(Data.redis) /\ Exit("panic") /\ UNCHANGED <<pings, ponged, redis>>
       \/ /\ Has(Data.redis)
          /\ ponged' = TRUE /\ redis' = "open" /\ pings' = 0 /\ Enter("wire")
       \/ /\ Has(Data.redis) /\ pings < 3
          /\ pings' = pings + 1 /\ UNCHANGED <<phase, exit, ponged, redis>>
       \/ /\ Has(Data.redis) /\ pings = 3
          /\ Exit("fatal") /\ UNCHANGED <<pings, ponged, redis>>
    /\ UNCHANGED <<fixed, servers, jobs>>

\* The other constructors of wireApp that look into the configuration, in their order:
\* each says when it returns.
NewIDGenerator == App.worker_id \in 0 .. 1023
NewSender == IsDev \/ Has(Data.sms)
\* Mutant: the dialer is made for the first mail.
NewMailerLazy == TRUE
NewMailer == IsDev \/ (Has(Data.email) /\ Has(The(Data.email).smtp))
NewTokenService == Has(App.auth) /\ Has(The(App.auth).jwt)
NewHTTPServer == Has(ServerConf.http)

Wired == NewIDGenerator /\ NewSender /\ NewMailer /\ NewTokenService /\ NewHTTPServer

\* The client of the SMS provider may refuse its credentials, which is a panic too.
WireApp ==
    /\ phase = "wire"
    /\ \/ Wired /\ Enter("run")
       \/ (~Wired \/ NewSmsSender = "aliyun") /\ Exit("panic")
    /\ UNCHANGED <<fixed, boot, servers, jobs>>

-----------------------------------------------------------------------------
(* app.Run: every server has a goroutine that starts it and one that waits for the   *)
(* context and stops it.                                                             *)

\* A listener may fail.  One that was stopped before stays down, except cron's Start,
\* which starts the scheduler whatever happened before.
StartServer(s) ==
    /\ phase = "run" /\ server[s] = "off"
    /\ \/ /\ s \in stopped /\ s # "cron"
          /\ server' = [server EXCEPT ![s] = "down"]
          /\ UNCHANGED stopping
       \/ /\ s \in stopped /\ s = "cron"
          /\ server' = [server EXCEPT ![s] = "late"]
          /\ UNCHANGED stopping
       \/ /\ s \notin stopped
          /\ server' = [server EXCEPT ![s] = "up"]
          /\ UNCHANGED stopping
       \/ /\ s \notin stopped /\ s # "cron"
          /\ server' = [server EXCEPT ![s] = "failed"]
          /\ stopping' = TRUE
    /\ UNCHANGED <<fixed, main, boot, stopped, forced, jobs>>

\* SIGTERM, SIGQUIT or SIGINT, handled once all servers are being started.
Signal ==
    /\ phase = "run" /\ ~stopping
    /\ stopping' = TRUE
    /\ UNCHANGED <<fixed, main, boot, server, stopped, forced, jobs>>

Serving == server["http"] = "up"
Requests == {c \in Call : InFlight(c)}

\* HTTP's Stop closes the listener, and then waits.
CloseListener ==
    /\ phase = "run" /\ stopping /\ Serving
    /\ server' = [server EXCEPT !["http"] = "closing"]
    /\ UNCHANGED <<fixed, main, boot, stopped, stopping, forced, jobs>>

\* Mutant: Stop of the cron server does nothing.
StopServerNoCron(s) ==
    /\ phase = "run" /\ stopping /\ s \notin stopped
    /\ s = "http" => ~Serving
    /\ server[s] = "closing" /\ ~limit => Requests = {}
    /\ stopped' = stopped \cup {s}
    /\ server' = IF server[s] \in {"up", "closing"} /\ s # "cron"
                 THEN [server EXCEPT ![s] = "down"] ELSE server
    /\ forced' = (forced \/ (server[s] = "closing" /\ Requests # {}))
    /\ UNCHANGED <<fixed, main, boot, stopping, jobs>>

\* Stop returns.  HTTP waits for its requests, unless there is a limit; connections that
\* became WebSockets are not waited for.  gRPC has no service, cron waits for no job.
StopServer(s) ==
    /\ phase = "run" /\ stopping /\ s \notin stopped
    /\ s = "http" => ~Serving
    /\ server[s] = "closing" /\ ~limit => Requests = {}
    /\ stopped' = stopped \cup {s}
    /\ server' = IF server[s] \in {"up", "closing"}
                 THEN [server EXCEPT ![s] = "down"] ELSE server
    /\ forced' = (forced \/ (server[s] = "closing" /\ Requests # {}))
    /\ UNCHANGED <<fixed, main, boot, stopping, jobs>>

AllReturned ==
    /\ stopped = Server
    /\ server["cron"] # "off"
    /\ \A s \in {"grpc", "http"} : server[s] \in {"down", "failed"}

\* Mutant: Run returns as soon as its context is done.
RunReturnsEarly ==
    /\ phase = "run" /\ stopping
    /\ Enter("returned")
    /\ UNCHANGED <<fixed, boot, servers, jobs>>

\* Mutant: Start of the cron server blocks while the scheduler runs.
RunReturnsCronBlocks ==
    /\ phase = "run" /\ AllReturned /\ server["cron"] = "down"
    /\ Enter("returned")
    /\ UNCHANGED <<fixed, boot, servers, jobs>>

\* Run returns when all goroutines have.
RunReturns ==
    /\ phase = "run" /\ AllReturned
    /\ Enter("returned")
    /\ UNCHANGED <<fixed, boot, servers, jobs>>

Failed == \E s \in Server : server[s] = "failed"

\* The error of a server is a panic; the deferred cleanup closes Redis in any case.
Cleanup ==
    /\ phase = "returned" /\ redis = "open"
    /\ redis' = "closed"
    /\ UNCHANGED <<fixed, main, pings, ponged, servers, jobs>>

MainEnds ==
    /\ phase = "returned" /\ redis = "closed"
    /\ Exit(IF Failed THEN "panic" ELSE "clean")
    /\ UNCHANGED <<fixed, boot, servers, jobs>>

-----------------------------------------------------------------------------
(* While the process runs: jobs, and the calls of requests. *)

Alive == phase \notin {"config", "exited"}

\* The scheduler starts a job every time it is due, whether or not the last one has
\* ended; the jobs go on when it stops.
JobStarts ==
    /\ Alive /\ server["cron"] \in {"up", "late"} /\ jobs < MaxJobs
    /\ jobs' = jobs + 1
    /\ UNCHANGED <<fixed, main, boot, servers>>

\* A job returns, or panics and makeSafe recovers.
JobEnds ==
    /\ Alive /\ jobs > 0
    /\ jobs' = jobs - 1
    /\ UNCHANGED <<fixed, main, boot, servers>>

Request(c) == Alive /\ Serving /\ BeginCall(c) /\ UNCHANGED life

Work(c) == Alive /\ CallStep(c) /\ UNCHANGED life

ClientLeaves(c) == Alive /\ CtxDone(c) /\ UNCHANGED life

StartUp == LoadConfig \/ NewGRPCServer \/ NewDB \/ NewRedis \/ WireApp
Run == (\E s \in Server : StartServer(s) \/ StopServer(s)) \/ CloseListener \/ RunReturns
End == Cleanup \/ MainEnds

Next ==
    \/ StartUp \/ Run \/ End \/ Signal \/ JobStarts \/ JobEnds
    \/ \E c \in Call : Request(c) \/ Work(c) \/ ClientLeaves(c)

Fairness ==
    /\ WF_vars(StartUp) /\ WF_vars(End) /\ WF_vars(CloseListener) /\ WF_vars(RunReturns)
    /\ \A s \in Server : WF_vars(StartServer(s)) /\ WF_vars(StopServer(s))
    /\ \A c \in Call : WF_vars(Work(c))

Spec == Init /\ [][Next]_vars /\ Fairness

-----------------------------------------------------------------------------
(* Properties. *)

\* Requests never find Redis missing or closed: the servers start after it has
\* answered, and the cleanup waits until they are through, unless Stop gave up on them.
RedisServesRequests ==
    /\ phase = "run" => ponged /\ redis = "open"
    /\ Requests # {} /\ phase # "exited" => redis = "open" \/ forced

\* No job starts once Run has returned and the connections are being closed, unless
\* cron was stopped before it was started, which happens when another server fails.
SchedulerStops == [][JobStarts /\ phase = "returned" => server["cron"] = "late"]_vars

\* A section that is missing is found when the process starts, and never by a request,
\* but for those of one-time codes and uploads, which no constructor looks into.
MissingFoundAtStart == \A c \in Call : answer[c] = "panic" =>
    ~Has(IF kind[c] = "upload" THEN App.upload ELSE App.otp)

\* How many steps a call has left at most: an attempt, and a wait before the next.
CallLeft(c) ==
    CASE at[c] = "idle" -> 2 * MaxRetries + 1
      [] at[c] = "dial" -> 2 * (MaxRetries - tries[c])
      [] at[c] = "backoff" -> 2 * (MaxRetries - tries[c]) - 1
      [] at[c] = "sniff" -> 2
      [] at[c] \in {"sms", "store"} -> 1
      [] at[c] = "done" -> 0

\* How many main and the servers have left: each server is started and stopped, HTTP in
\* two steps once it is up.
ServerLeft(s) ==
    (IF server[s] = "off" THEN 1 ELSE 0) + (IF s \in stopped THEN 0 ELSE 1)
    + (IF s = "http" /\ server[s] \in {"off", "up"} THEN 1 ELSE 0)

LifeLeft ==
    CASE phase = "config" -> 18
      [] phase = "grpc" -> 17
      [] phase = "db" -> 16
      [] phase = "redis" -> 15 - pings
      [] phase = "wire" -> 11
      [] phase = "run" -> 3 + ServerLeft("grpc") + ServerLeft("http") + ServerLeft("cron")
      [] phase = "returned" -> IF redis = "open" THEN 2 ELSE 1
      [] phase = "exited" -> 0

\* No loop goes on for ever: whatever the services outside answer, whatever signals, jobs
\* and leaving clients come between, every step of a call leaves it fewer, and so does
\* every step of main and of the servers, from the start to the end of the process.
StepsRunOut ==
    [][/\ \A c \in Call : IF Work(c) THEN CallLeft(c)' \in 0 .. CallLeft(c) - 1
                                     ELSE CallLeft(c)' \in 0 .. CallLeft(c)
       /\ IF StartUp \/ Run \/ End THEN LifeLeft' \in 0 .. LifeLeft - 1
                                   ELSE LifeLeft' = LifeLeft]_vars

\* A call ends, after all its attempts, if every single try of a library does; or the
\* process ends under it when Stop gave up waiting.
CallsEnd == \A c \in Call : InFlight(c) ~> ~InFlight(c) \/ forced

\* Start-up ends, with servers that run or with an exit.
StartUpEnds == <>(phase \in {"run", "exited"})

\* A signal, or a server that cannot start, ends in the end of the process.
StopEnds == stopping ~> phase = "exited"

=============================================================================
