----------------------------- MODULE ProcessProofs -----------------------------
(***************************************************************************)
(* Theorems about Process and the calls of Providers, for any number of     *)
(* calls, attempts, jobs and configurations.                                *)
(***************************************************************************)
EXTENDS Process, TLAPS

-----------------------------------------------------------------------------
(* The calls of Providers *)

\* What is known of a call by where it is: what is it for, and how far it has got.
Place(c) ==
    /\ at[c] = "idle" => /\ accepted[c] = 0 /\ object[c] = "none" /\ reader[c] = "whole"
                         /\ tries[c] = 0 /\ late[c] = 0 /\ ctx[c] = "live"
    /\ at[c] = "sms" => kind[c] = "sms" /\ accepted[c] = 0 /\ late[c] = 0
    /\ at[c] \in {"dial", "backoff"} => kind[c] = "mail"
    /\ at[c] \in {"sniff", "store"} => kind[c] = "upload" /\ late[c] = 0
    /\ at[c] = "store" => reader[c] = "whole" /\ file[c].type # "other"
    /\ at[c] # "done" => answer[c] = "none"

\* What the attempts of a mail leave: one at most is accepted each, and a wait never
\* begins once the context is done, nor after the last attempt.
Attempts(c) ==
    /\ at[c] = "dial" => accepted[c] <= tries[c]
    /\ at[c] = "backoff" => accepted[c] <= tries[c] + 1 /\ tries[c] < MaxRetries - 1 /\ late[c] = 0
    /\ ctx[c] = "live" => late[c] = 0
    /\ late[c] <= 1

Truth(c) == answer[c] = "nil" =>
    /\ kind[c] = "sms" => accepted[c] = 1 \/ NewSmsSender = "mock"
    /\ kind[c] = "mail" => accepted[c] >= 1 \/ NewEmailSender = "mock"
    /\ kind[c] = "upload" => object[c] = "whole" /\ file[c].type # "other"

CallsInv ==
    /\ CallsType
    /\ \A c \in Call : Place(c) /\ Attempts(c) /\ Truth(c)

LEMMA CallsStart == CallsInit => CallsInv
  BY ProvidersAssumption
  DEF CallsInit, CallsInv, CallsType, Place, Attempts, Truth, File, NoFile

\* Who sends is a matter of the configuration, which stays.
LEMMA Senders ==
  ASSUME UNCHANGED config
  PROVE  NewSmsSender' = NewSmsSender /\ NewEmailSender' = NewEmailSender
  BY DEF NewSmsSender, NewEmailSender, IsDev, App, Data

LEMMA CallsKeep ==
  ASSUME CallsInv, UNCHANGED <<config, calls>> PROVE CallsInv'
<1>1. CallsType'
  BY DEF CallsInv, CallsType, calls
<1>2. ASSUME NEW c \in Call PROVE Place(c)' /\ Attempts(c)' /\ Truth(c)'
  BY Senders DEF CallsInv, Place, Attempts, Truth, calls
<1> QED
  BY <1>1, <1>2 DEF CallsInv

\* A call does not touch another, so only the call that moves has to be looked at.
Others(c) == \A d \in Call \ {c} :
    /\ at'[d] = at[d] /\ kind'[d] = kind[d] /\ ctx'[d] = ctx[d] /\ tries'[d] = tries[d]
    /\ late'[d] = late[d] /\ accepted'[d] = accepted[d] /\ file'[d] = file[d]
    /\ reader'[d] = reader[d] /\ object'[d] = object[d] /\ answer'[d] = answer[d]

LEMMA OneCall ==
  ASSUME CallsInv, CallsType', NEW c \in Call, Others(c), UNCHANGED config,
         Place(c)', Attempts(c)', Truth(c)'
  PROVE  CallsInv'
<1>1. ASSUME NEW d \in Call \ {c} PROVE Place(d)' /\ Attempts(d)' /\ Truth(d)'
  <2>1. Place(d) /\ Attempts(d) /\ Truth(d)
    BY DEF CallsInv
  <2>2. /\ at'[d] = at[d] /\ kind'[d] = kind[d] /\ ctx'[d] = ctx[d] /\ tries'[d] = tries[d]
        /\ late'[d] = late[d] /\ accepted'[d] = accepted[d] /\ file'[d] = file[d]
        /\ reader'[d] = reader[d] /\ object'[d] = object[d] /\ answer'[d] = answer[d]
    BY DEF Others
  <2>3. Place(d)' /\ Attempts(d)'
    BY <2>1, <2>2 DEF Place, Attempts
  <2>4. Truth(d)'
    BY <2>1, <2>2, Senders DEF Truth
  <2> QED
    BY <2>3, <2>4
<1>2. \A d \in Call : Place(d)' /\ Attempts(d)' /\ Truth(d)'
  BY <1>1
<1> QED
  BY <1>2 DEF CallsInv

\* What an upload begins with: an error, or a file that goes to the storage unread
\* only when its type was not to be looked at.
LEMMA UploadTakes ==
  ASSUME NEW c \in Call, Upload(c)
  PROVE  /\ at[c] = "idle" /\ kind' = [kind EXCEPT ![c] = "upload"]
         /\ UNCHANGED <<config, ctx, tries, late, accepted, reader, object>>
         /\ \/ \E err \in {"error", "panic"} : Return(c, err) /\ UNCHANGED file
            \/ \E type \in {"any", "allowed", "other"}, seek \in BOOLEAN, label \in {"store", "sniff"} :
                  /\ file' = [file EXCEPT ![c] = [type |-> type, seek |-> seek]]
                  /\ Goto(c, label)
                  /\ label = "store" => type # "other"
<1>1. /\ at[c] = "idle" /\ kind' = [kind EXCEPT ![c] = "upload"]
      /\ UNCHANGED <<config, ctx, tries, late, accepted, reader, object>>
  BY DEF Upload, Begin
<1>2. CASE \E err \in {"error", "panic"} : Return(c, err) /\ UNCHANGED file
  BY <1>1, <1>2
<1>3. ASSUME NEW limits, UploadFileIn(c, limits), ~(Return(c, "error") /\ UNCHANGED file)
      PROVE  \E type \in {"any", "allowed", "other"}, seek \in BOOLEAN, label \in {"store", "sniff"} :
                  /\ file' = [file EXCEPT ![c] = [type |-> type, seek |-> seek]]
                  /\ Goto(c, label)
                  /\ label = "store" => type # "other"
  <2>1. PICK type \in FileType, seek \in BOOLEAN :
            /\ file' = [file EXCEPT ![c] =
                          [type |-> Verdict(type, limits.allowed_types), seek |-> seek]]
            /\ Goto(c, IF limits.allowed_types = {} THEN "store" ELSE "sniff")
    <3>1. PICK size \in Sizes, type \in FileType, seek \in BOOLEAN :
              (Return(c, "error") /\ UNCHANGED file) \/
              (/\ file' = [file EXCEPT ![c] =
                            [type |-> Verdict(type, limits.allowed_types), seek |-> seek]]
               /\ Goto(c, IF limits.allowed_types = {} THEN "store" ELSE "sniff"))
      BY <1>3 DEF UploadFileIn
    <3> QED
      BY <1>3, <3>1
  <2> DEFINE verdict == Verdict(type, limits.allowed_types)
             label == IF limits.allowed_types = {} THEN "store" ELSE "sniff"
  <2>2. verdict \in {"any", "allowed", "other"} /\ label \in {"store", "sniff"}
    BY DEF Verdict
  <2>3. label = "store" => verdict # "other"
    BY DEF Verdict
  <2> QED
    BY <2>1, <2>2, <2>3, Zenon
<1>4. CASE \E limits : UploadFileIn(c, limits)
  BY <1>1, <1>2, <1>3, <1>4, Zenon
<1> QED
  BY <1>1, <1>2, <1>4, Zenon DEF Upload, UploadFile

LEMMA CallsStep ==
  ASSUME CallsInv, NEW c \in Call, BeginCall(c) \/ CallStep(c) \/ CtxDone(c)
  PROVE  CallsInv'
<1>1. CallsType /\ Place(c) /\ Attempts(c) /\ Truth(c)
  BY DEF CallsInv
<1> USE ProvidersAssumption DEF CallsType, Return, Goto
<1>2. CASE SendPhoneOtp(c)
  <2>1. CallsType'
    BY <1>1, <1>2 DEF SendPhoneOtp, SmsSend, Begin
  <2>2. Others(c) /\ UNCHANGED config
    BY <1>1, <1>2 DEF SendPhoneOtp, SmsSend, Begin, Others
  <2>3. Place(c)' /\ Attempts(c)'
    BY <1>1, <1>2 DEF SendPhoneOtp, SmsSend, Begin, Place, Attempts
  <2>4. Truth(c)'
    BY <1>1, <1>2, <2>2, Senders DEF SendPhoneOtp, SmsSend, Begin, Place, Attempts, Truth
  <2> QED
    BY <2>1, <2>2, <2>3, <2>4, OneCall
<1>3. CASE SendSmsWithOptions(c)
  <2>1. CallsType'
    BY <1>1, <1>3 DEF SendSmsWithOptions, Accept, Place
  <2>2. Others(c) /\ UNCHANGED config
    BY <1>1, <1>3 DEF SendSmsWithOptions, Accept, Others
  <2>3. Place(c)' /\ Attempts(c)'
    BY <1>1, <1>3 DEF SendSmsWithOptions, Accept, Place, Attempts
  <2>4. Truth(c)'
    BY <1>1, <1>3, <2>2, Senders DEF SendSmsWithOptions, Accept, Place, Attempts, Truth
  <2> QED
    BY <2>1, <2>2, <2>3, <2>4, OneCall
<1>4. CASE SendEmailOtp(c)
  <2>1. CallsType'
    BY <1>1, <1>4 DEF SendEmailOtp, EmailSend, Begin, Attempt, Place
  <2>2. Others(c) /\ UNCHANGED config
    BY <1>1, <1>4 DEF SendEmailOtp, EmailSend, Begin, Attempt, Others
  <2>3. Place(c)' /\ Attempts(c)'
    BY <1>1, <1>4 DEF SendEmailOtp, EmailSend, Begin, Attempt, Place, Attempts
  <2>4. Truth(c)'
    BY <1>1, <1>4, <2>2, Senders DEF SendEmailOtp, EmailSend, Begin, Attempt, Place, Attempts, Truth
  <2> QED
    BY <2>1, <2>2, <2>3, <2>4, OneCall
<1>5. CASE Delivered(c)
  <2>1. CallsType'
    BY <1>1, <1>5 DEF Delivered, Accept, Attempts
  <2>2. Others(c) /\ UNCHANGED config
    BY <1>1, <1>5 DEF Delivered, Accept, Others
  <2>3. Place(c)' /\ Attempts(c)'
    BY <1>1, <1>5 DEF Delivered, Accept, Place, Attempts
  <2>4. Truth(c)'
    BY <1>1, <1>5, <2>2, Senders DEF Delivered, Accept, Place, Attempts, Truth
  <2> QED
    BY <2>1, <2>2, <2>3, <2>4, OneCall
<1>6. CASE DialFails(c)
  <2>1. CallsType'
    BY <1>1, <1>6 DEF DialFails, Accept, Attempts
  <2>2. Others(c) /\ UNCHANGED config
    BY <1>1, <1>6 DEF DialFails, Accept, Others
  <2>3. Place(c)' /\ Attempts(c)'
    BY <1>1, <1>6 DEF DialFails, Accept, Place, Attempts
  <2>4. Truth(c)'
    BY <1>1, <1>6, <2>2, Senders DEF DialFails, Accept, Place, Attempts, Truth
  <2> QED
    BY <2>1, <2>2, <2>3, <2>4, OneCall
<1>7. CASE Retry(c)
  <2>1. CallsType'
    BY <1>1, <1>7 DEF Retry, Attempt, Attempts
  <2>2. Others(c) /\ UNCHANGED config
    BY <1>1, <1>7 DEF Retry, Attempt, Others
  <2>3. Place(c)' /\ Attempts(c)'
    BY <1>1, <1>7 DEF Retry, Attempt, Place, Attempts
  <2>4. Truth(c)'
    BY <1>1, <1>7, <2>2, Senders DEF Retry, Attempt, Place, Attempts, Truth
  <2> QED
    BY <2>1, <2>2, <2>3, <2>4, OneCall
<1>8. CASE Cancelled(c)
  <2>1. CallsType'
    BY <1>1, <1>8 DEF Cancelled
  <2>2. Others(c) /\ UNCHANGED config
    BY <1>1, <1>8 DEF Cancelled, Others
  <2>3. Place(c)' /\ Attempts(c)'
    BY <1>1, <1>8 DEF Cancelled, Place, Attempts
  <2>4. Truth(c)'
    BY <1>1, <1>8, <2>2, Senders DEF Cancelled, Place, Attempts, Truth
  <2> QED
    BY <2>1, <2>2, <2>3, <2>4, OneCall
<1>9. CASE Upload(c)
  <2>0. /\ at[c] = "idle" /\ kind' = [kind EXCEPT ![c] = "upload"]
        /\ UNCHANGED <<config, ctx, tries, late, accepted, reader, object>>
        /\ \/ \E err \in {"error", "panic"} : Return(c, err) /\ UNCHANGED file
           \/ \E type \in {"any", "allowed", "other"}, seek \in BOOLEAN, label \in {"store", "sniff"} :
                 /\ file' = [file EXCEPT ![c] = [type |-> type, seek |-> seek]]
                 /\ Goto(c, label)
                 /\ label = "store" => type # "other"
    BY <1>9, UploadTakes
  <2>1. CallsType'
    <3>1. file' \in [Call -> File]
      <4>1. \A f \in File : [file EXCEPT ![c] = f] \in [Call -> File]
        BY <1>1
      <4>2. \A type \in {"any", "allowed", "other"}, seek \in BOOLEAN :
                [type |-> type, seek |-> seek] \in File
        BY Zenon DEF File
      <4>3. CASE file' = file
        BY <1>1, <4>3
      <4>4. ASSUME NEW type \in {"any", "allowed", "other"}, NEW seek \in BOOLEAN,
                   file' = [file EXCEPT ![c] = [type |-> type, seek |-> seek]]
            PROVE  file' \in [Call -> File]
        <5> DEFINE f == [type |-> type, seek |-> seek]
        <5>1. f \in File
          BY <4>2
        <5> HIDE DEF f
        <5>2. [file EXCEPT ![c] = f] \in [Call -> File]
          BY <5>1, <4>1
        <5> QED
          BY <4>4, <5>2 DEF f
      <4> QED
        BY <2>0, <4>3, <4>4
    <3>2. /\ at' \in [Call -> {"idle", "sms", "dial", "backoff", "sniff", "store", "done"}]
          /\ answer' \in [Call -> {"none", "nil", "error", "panic"}]
      BY <1>1, <2>0
    <3>3. kind' \in [Call -> {"none", "sms", "mail", "upload"}]
      BY <1>1, <2>0
    <3> QED
      BY <1>1, <2>0, <3>1, <3>2, <3>3, Zenon
  <2>2. Others(c) /\ UNCHANGED config
    BY <1>1, <2>0 DEF File, Others
  <2>3. Place(c)' /\ Attempts(c)'
    BY <1>1, <2>0 DEF File, Place, Attempts
  <2>4. Truth(c)'
    BY <1>1, <2>0, <2>2, Senders DEF File, Place, Attempts, Truth
  <2> QED
    BY <2>1, <2>2, <2>3, <2>4, OneCall
<1>10. CASE VerifyFileType(c)
  <2>1. CallsType'
    BY <1>1, <1>10 DEF VerifyFileType
  <2>2. Others(c) /\ UNCHANGED config
    BY <1>1, <1>10 DEF VerifyFileType, File, Others
  <2>3. Place(c)' /\ Attempts(c)'
    BY <1>1, <1>10 DEF VerifyFileType, File, Place, Attempts
  <2>4. Truth(c)'
    BY <1>1, <1>10, <2>2, Senders DEF VerifyFileType, File, Place, Attempts, Truth
  <2> QED
    BY <2>1, <2>2, <2>3, <2>4, OneCall
<1>11. CASE UploadLocal(c)
  <2>1. CallsType'
    BY <1>1, <1>11 DEF UploadLocal, Stored
  <2>2. Others(c) /\ UNCHANGED config
    BY <1>1, <1>11 DEF UploadLocal, Stored, Others
  <2>3. Place(c)' /\ Attempts(c)'
    BY <1>1, <1>11 DEF UploadLocal, Stored, Place, Attempts
  <2>4. Truth(c)'
    BY <1>1, <1>11, <2>2, Senders DEF UploadLocal, Stored, Place, Attempts, Truth
  <2> QED
    BY <2>1, <2>2, <2>3, <2>4, OneCall
<1>12. CASE UploadRemote(c)
  <2>1. CallsType'
    BY <1>1, <1>12 DEF UploadRemote, Stored
  <2>2. Others(c) /\ UNCHANGED config
    BY <1>1, <1>12 DEF UploadRemote, Stored, Others
  <2>3. Place(c)' /\ Attempts(c)'
    BY <1>1, <1>12 DEF UploadRemote, Stored, Place, Attempts
  <2>4. Truth(c)'
    BY <1>1, <1>12, <2>2, Senders DEF UploadRemote, Stored, Place, Attempts, Truth
  <2> QED
    BY <2>1, <2>2, <2>3, <2>4, OneCall
<1>13. CASE CtxDone(c)
  <2>1. CallsType'
    BY <1>1, <1>13 DEF CtxDone
  <2>2. Others(c) /\ UNCHANGED config
    BY <1>1, <1>13 DEF CtxDone, Others
  <2>3. Place(c)' /\ Attempts(c)'
    BY <1>1, <1>13 DEF CtxDone, Place, Attempts
  <2>4. Truth(c)'
    BY <1>1, <1>13, <2>2, Senders DEF CtxDone, Place, Attempts, Truth
  <2> QED
    BY <2>1, <2>2, <2>3, <2>4, OneCall
<1> QED
  BY <1>2, <1>3, <1>4, <1>5, <1>6, <1>7, <1>8, <1>9, <1>10, <1>11, <1>12, <1>13
  DEF BeginCall, CallStep

-----------------------------------------------------------------------------
(* The process around them *)

LifeType ==
    /\ phase \in {"config", "grpc", "db", "redis", "wire", "run", "returned", "exited"}
    /\ limit \in BOOLEAN
    /\ pings \in 0 .. 3
    /\ ponged \in BOOLEAN
    /\ redis \in {"none", "open", "closed"}
    /\ server \in [Server -> {"off", "up", "failed", "closing", "down", "late"}]
    /\ stopped \subseteq Server
    /\ stopping \in BOOLEAN /\ forced \in BOOLEAN
    /\ jobs \in 0 .. MaxJobs
    /\ exit \in {"none", "clean", "panic", "fatal"}

\* Servers start when main is past its start-up, and Redis is open by then until the
\* cleanup, which Run leaves to main when all have stopped.
Order ==
    /\ phase \in {"wire", "run"} => ponged /\ redis = "open"
    /\ phase \in {"config", "grpc", "db", "redis", "wire"} => \A s \in Server : server[s] = "off"
    /\ phase = "returned" =>
            stopped = Server /\ server["http"] \in {"down", "failed"}
    /\ redis = "closed" => phase \in {"returned", "exited"}
    /\ phase = "returned" => redis \in {"open", "closed"}

\* A scheduler that was stopped runs only when it was started after that.
CronStopped == "cron" \in stopped => server["cron"] # "up"

\* HTTP is not down before its requests are through, unless they were given up.
HttpWaits == Requests # {} => server["http"] \in {"up", "closing"} \/ forced

LifeInv == LifeType /\ Order /\ CronStopped /\ HttpWaits

ProcInv == CallsInv /\ LifeInv

LEMMA ProcInit == Init => ProcInv
<1> SUFFICES ASSUME Init PROVE ProcInv
  OBVIOUS
<1>1. CallsInv
  BY CallsStart DEF Init
<1>2. Requests = {}
  BY DEF Init, CallsInit, Requests, InFlight
<1>3. LifeInv
  <2>1. LifeType
    <3>1. jobs \in 0 .. MaxJobs /\ pings \in 0 .. 3
      BY ProcessAssumption DEF Init
    <3>2. server \in [Server -> {"off", "up", "failed", "closing", "down", "late"}]
      BY DEF Init
    <3>3. limit \in BOOLEAN /\ ponged \in BOOLEAN /\ stopping \in BOOLEAN /\ forced \in BOOLEAN
      BY Zenon DEF Init
    <3>4. /\ phase \in {"config", "grpc", "db", "redis", "wire", "run", "returned", "exited"}
          /\ redis \in {"none", "open", "closed"}
          /\ stopped \subseteq Server
          /\ exit \in {"none", "clean", "panic", "fatal"}
      BY DEF Init
    <3> QED
      BY <3>1, <3>2, <3>3, <3>4, Zenon DEF LifeType
  <2>2. Order /\ CronStopped
    BY DEF Init, Order, CronStopped, Server
  <2>3. HttpWaits
    BY <1>2 DEF HttpWaits
  <2> QED
    BY <2>1, <2>2, <2>3 DEF LifeInv
<1> QED
  BY <1>1, <1>3 DEF ProcInv

LEMMA CallsSame ==
  ASSUME UNCHANGED <<config, calls>> PROVE Requests' = Requests
  BY DEF calls, Requests, InFlight

LEMMA ProcStep ==
  ASSUME ProcInv, [Next]_vars
  PROVE  ProcInv'
<1> USE ProcessAssumption
<1> USE DEF ProcInv, LifeInv, LifeType, Order, CronStopped, HttpWaits, Server,
            fixed, main, boot, servers, Enter, Exit
<1>1. CASE StartUp
  <2>1. CallsInv' /\ Requests' = Requests
    BY <1>1, CallsKeep, CallsSame DEF StartUp, LoadConfig, NewGRPCServer, NewDB, NewRedis, WireApp
  <2>2. CASE LoadConfig
    BY <2>1, <2>2 DEF LoadConfig
  <2>6. CASE NewGRPCServer
    BY <2>1, <2>6 DEF NewGRPCServer
  <2>3. CASE NewDB
    BY <2>1, <2>3 DEF NewDB
  <2>4. CASE NewRedis
    <3>1. LifeType'
      <4>1. pings' \in 0 .. 3 /\ UNCHANGED <<limit, servers, jobs>>
        BY <2>4 DEF NewRedis
      <4>2. ponged' \in BOOLEAN
        BY <2>4, Zenon DEF NewRedis
      <4>3. /\ phase' \in {"redis", "wire", "exited"}
            /\ redis' \in {"none", "open", "closed"}
            /\ exit' \in {"none", "clean", "panic", "fatal"}
        BY <2>4 DEF NewRedis
      <4> QED
        BY <4>1, <4>2, <4>3
    <3>2. Order' /\ CronStopped' /\ HttpWaits'
      BY <2>1, <2>4 DEF NewRedis
    <3> QED
      BY <2>1, <3>1, <3>2
  <2>5. CASE WireApp
    BY <2>1, <2>5 DEF WireApp
  <2> QED
    BY <1>1, <2>2, <2>3, <2>4, <2>5, <2>6 DEF StartUp
<1>2. ASSUME NEW s \in Server, StartServer(s) PROVE ProcInv'
  <2>1. CallsInv' /\ Requests' = Requests
    BY <1>2, CallsKeep, CallsSame DEF StartServer
  <2> QED
    <3>1. LifeType'
      <4>1. /\ server' \in [Server -> {"off", "up", "failed", "closing", "down", "late"}]
            /\ UNCHANGED <<limit, main, boot, stopped, forced, jobs>>
        BY <1>2 DEF StartServer
      <4>2. stopping' \in BOOLEAN
        BY <1>2, Zenon DEF StartServer
      <4> QED
        BY <4>1, <4>2
    <3>2. Order'
      BY <1>2 DEF StartServer
    <3>3. CronStopped'
      BY <1>2 DEF StartServer
    <3>4. HttpWaits'
      BY <1>2, <2>1 DEF StartServer
    <3> QED
      BY <2>1, <3>1, <3>2, <3>3, <3>4
<1>3. ASSUME NEW s \in Server, StopServer(s) PROVE ProcInv'
  <2>1. CallsInv' /\ Requests' = Requests
    BY <1>3, CallsKeep, CallsSame DEF StopServer
  <2> QED
    BY <1>3, <2>1 DEF StopServer, Serving
<1>4. CASE CloseListener
  <2>1. CallsInv' /\ Requests' = Requests
    BY <1>4, CallsKeep, CallsSame DEF CloseListener
  <2> QED
    BY <1>4, <2>1 DEF CloseListener, Serving
<1>5. CASE RunReturns
  <2>1. CallsInv' /\ Requests' = Requests
    BY <1>5, CallsKeep, CallsSame DEF RunReturns
  <2> QED
    BY <1>5, <2>1 DEF RunReturns, AllReturned
<1>6. CASE Cleanup \/ MainEnds \/ Signal
  <2>1. CallsInv' /\ Requests' = Requests
    BY <1>6, CallsKeep, CallsSame DEF Cleanup, MainEnds, Signal
  <2> QED
    BY <1>6, <2>1 DEF Cleanup, MainEnds, Signal
<1>7. CASE JobStarts \/ JobEnds
  <2>1. CallsInv' /\ Requests' = Requests
    BY <1>7, CallsKeep, CallsSame DEF JobStarts, JobEnds
  <2> QED
    <3>1. jobs' \in 0 .. MaxJobs
      BY <1>7 DEF JobStarts, JobEnds
    <3>2. UNCHANGED <<limit, phase, exit, pings, ponged, redis, server, stopped, stopping, forced>>
      BY <1>7 DEF JobStarts, JobEnds
    <3> QED
      BY <2>1, <3>1, <3>2
<1>8. ASSUME NEW c \in Call, Request(c) PROVE ProcInv'
  <2>1. CallsInv'
    BY <1>8, CallsStep DEF Request
  <2> QED
    BY <1>8, <2>1 DEF Request, life, Serving
<1>9. ASSUME NEW c \in Call, Work(c) \/ ClientLeaves(c) PROVE ProcInv'
  <2>1. CallsInv'
    BY <1>9, CallsStep DEF Work, ClientLeaves
  <2>2. InFlight(c) /\ Others(c)
    BY <1>9 DEF Work, ClientLeaves, CallStep, CtxDone, SendSmsWithOptions, Delivered, DialFails,
      Retry, Attempt, Cancelled, VerifyFileType, UploadLocal, UploadRemote, Stored, Accept,
      Return, Goto, InFlight, Others, CallsInv, CallsType
  <2>3. Requests' \subseteq Requests
    BY <2>2 DEF Requests, InFlight, Others
  <2> QED
    <3>1. UNCHANGED <<limit, phase, exit, pings, ponged, redis, server, stopped, stopping, forced, jobs>>
      BY <1>9 DEF Work, ClientLeaves, life
    <3>2. HttpWaits'
      BY <2>3, <3>1
    <3>3. LifeType' /\ Order' /\ CronStopped'
      BY <3>1
    <3> QED
      BY <2>1, <3>2, <3>3
<1>10. CASE UNCHANGED vars
  <2>1. CallsInv' /\ Requests' = Requests
    BY <1>10, CallsKeep, CallsSame DEF vars, life
  <2> QED
    BY <1>10, <2>1 DEF vars, life
<1> QED
  BY <1>1, <1>2, <1>3, <1>4, <1>5, <1>6, <1>7, <1>8, <1>9, <1>10 DEF Next, Run, End

LEMMA ProcInvariant == Spec => []ProcInv
<1>1. ProcInv /\ [Next]_vars => ProcInv'
  BY ProcStep
<1> QED
  BY ProcInit, <1>1, PTL DEF Spec

-----------------------------------------------------------------------------
(* Sections that are missing *)

\* What the configuration says is the same after a step that leaves it.
LEMMA SameConf ==
  ASSUME UNCHANGED config
  PROVE  Data' = Data /\ App' = App /\ (Wired <=> Wired')
<1>1. Data' = Data /\ App' = App /\ ServerConf' = ServerConf
  BY DEF Data, App, ServerConf
<1>2. IsDev' <=> IsDev
  BY <1>1 DEF IsDev
<1>3. Wired <=> Wired'
  BY <1>1, <1>2, Zenon
  DEF Wired, NewIDGenerator, NewSender, NewMailer, NewTokenService, NewHTTPServer
<1> QED
  BY <1>1, <1>3

Missing(c) == answer[c] = "panic" =>
    ~Has(IF kind[c] = "upload" THEN App.upload ELSE App.otp)

\* main runs the servers with what every constructor of wireApp has accepted.
Found ==
    /\ phase \in {"run", "returned"} => Wired
    /\ MissingFoundAtStart

LEMMA FoundByRequest ==
  ASSUME CallsInv, Wired, NEW c \in Call, BeginCall(c)
  PROVE  Missing(c)'
<1> USE DEF Return, Goto, CallsInv, CallsType
<1>1. UNCHANGED config
  BY DEF BeginCall, SendPhoneOtp, SendEmailOtp, Upload, Begin
<1>2. CASE SendPhoneOtp(c)
  <2>1. kind'[c] = "sms" /\ (answer'[c] = "panic" => ~Has(App.otp))
    <3>1. at[c] = "idle" /\ answer[c] # "panic"
      BY <1>2 DEF SendPhoneOtp, Begin, Place
    <3> QED
      BY <1>2, <3>1 DEF SendPhoneOtp, SmsSend, Begin
  <2> QED
    BY <1>1, <2>1, SameConf DEF Missing
<1>3. CASE SendEmailOtp(c)
  <2>1. kind'[c] = "mail" /\ (answer'[c] = "panic" => ~Has(App.otp))
    <3>1. at[c] = "idle" /\ answer[c] # "panic"
      BY <1>3 DEF SendEmailOtp, Begin, Place
    <3>2. NewEmailSender = "smtp" => Has(Data.email)
      BY DEF Wired, NewMailer, NewEmailSender
    <3> QED
      BY <1>3, <3>1, <3>2 DEF SendEmailOtp, EmailSend, Attempt, Begin
  <2> QED
    BY <1>1, <2>1, SameConf DEF Missing
<1>4. CASE Upload(c)
  <2>1. at[c] = "idle" /\ answer[c] # "panic" /\ kind'[c] = "upload"
    BY <1>4 DEF Upload, Begin, Place
  <2>2. \A limits : UploadFileIn(c, limits) => answer'[c] # "panic"
    BY <2>1 DEF UploadFileIn
  <2>3. answer'[c] = "panic" => ~Has(App.upload)
    BY <1>4, <2>1, <2>2 DEF Upload, UploadFile
  <2> QED
    BY <1>1, <2>1, <2>3, SameConf DEF Missing
<1> QED
  BY <1>2, <1>3, <1>4 DEF BeginCall

LEMMA FoundByWork ==
  ASSUME CallsInv, NEW c \in Call, CallStep(c) \/ CtxDone(c), Missing(c)
  PROVE  Missing(c)'
<1>1. UNCHANGED config /\ kind'[c] = kind[c] /\ (answer'[c] = "panic" => answer[c] = "panic")
  BY DEF CallsInv, CallsType, CallStep, CtxDone, SendSmsWithOptions, Delivered, DialFails, Retry,
     Attempt, Cancelled, VerifyFileType, UploadLocal, UploadRemote, Stored, Accept, Return, Goto
<1> QED
  BY <1>1, SameConf DEF Missing

LEMMA FoundStep ==
  ASSUME ProcInv, Found, [Next]_vars
  PROVE  Found'
<1>1. ASSUME UNCHANGED calls, UNCHANGED config PROVE MissingFoundAtStart'
  <2>1. UNCHANGED <<answer, kind>> /\ App' = App
    BY <1>1, SameConf DEF calls
  <2> QED
    BY <2>1 DEF Found, MissingFoundAtStart
<1>2. CASE WireApp
  <2>1. MissingFoundAtStart'
    BY <1>1, <1>2 DEF WireApp, fixed
  <2>2. phase' \in {"run", "returned"} => Wired
    BY <1>2 DEF WireApp, Enter, Exit
  <2> QED
    BY <1>2, <2>1, <2>2, SameConf DEF WireApp, fixed, Found
<1>3. ASSUME \/ LoadConfig \/ NewGRPCServer \/ NewDB \/ NewRedis
             \/ Run \/ End \/ Signal \/ JobStarts \/ JobEnds \/ UNCHANGED vars
      PROVE Found'
  <2>1. UNCHANGED <<config, calls>>
    BY <1>3, Zenon DEF LoadConfig, NewGRPCServer, NewDB, NewRedis, Run, End, Signal, JobStarts, JobEnds,
       StartServer, StopServer, CloseListener, RunReturns, Cleanup, MainEnds, fixed, vars, life
  <2>2. phase' \in {"run", "returned"} => phase \in {"run", "returned"}
    BY <1>3 DEF LoadConfig, NewGRPCServer, NewDB, NewRedis, Run, End, Signal, JobStarts, JobEnds,
       StartServer, StopServer, CloseListener, RunReturns, Cleanup, MainEnds, main, vars, life,
       Enter, Exit
  <2>3. MissingFoundAtStart'
    BY <1>1, <2>1
  <2> QED
    BY <2>1, <2>2, <2>3, SameConf DEF Found
<1>4. ASSUME NEW c \in Call, Request(c) \/ Work(c) \/ ClientLeaves(c) PROVE Found'
  <2>1. UNCHANGED phase
    BY <1>4 DEF Request, Work, ClientLeaves, life, main
  <2>2. Missing(c)'
    <3>1. CASE Request(c)
      <4>1. phase = "run"
        BY <3>1 DEF Request, Alive, Serving, ProcInv, LifeInv, LifeType, Order, Server
      <4> QED
        BY <3>1, <4>1, FoundByRequest DEF Request, ProcInv, Found
    <3>2. CASE Work(c) \/ ClientLeaves(c)
      BY <3>2, FoundByWork DEF Work, ClientLeaves, ProcInv, Found, MissingFoundAtStart, Missing
    <3> QED
      BY <1>4, <3>1, <3>2
  <2>3. UNCHANGED config /\ \A d \in Call \ {c} : kind'[d] = kind[d] /\ answer'[d] = answer[d]
    <3>1. CallsType
      BY DEF ProcInv, CallsInv
    <3>2. CASE Upload(c)
      BY <3>1, <3>2, UploadTakes DEF CallsType, Return, Goto
    <3>3. CASE SendPhoneOtp(c) \/ SendEmailOtp(c)
      BY <3>1, <3>3 DEF CallsType, SendPhoneOtp, SendEmailOtp, SmsSend, EmailSend, Attempt, Begin,
         Return, Goto
    <3>4. CASE CallStep(c) \/ CtxDone(c)
      BY <3>1, <3>4 DEF CallsType, CallStep, CtxDone, SendSmsWithOptions, Delivered, DialFails, Retry,
         Attempt, Cancelled, VerifyFileType, UploadLocal, UploadRemote, Stored, Accept, Return, Goto
    <3> QED
      BY <1>4, <3>2, <3>3, <3>4 DEF Request, Work, ClientLeaves, BeginCall
  <2>4. MissingFoundAtStart'
    <3>1. App' = App
      BY <2>3, SameConf
    <3> QED
      BY <2>2, <2>3, <3>1 DEF Found, MissingFoundAtStart, Missing
  <2> QED
    BY <2>1, <2>3, <2>4, SameConf DEF Found
<1> QED
  BY <1>2, <1>3, <1>4 DEF Next, StartUp

-----------------------------------------------------------------------------
(* Steps run out *)

\* What a call has left is a number.
LEMMA CallLeftIs ==
  ASSUME CallsInv, NEW c \in Call
  PROVE  CallLeft(c) \in Nat
BY ProvidersAssumption DEF CallsInv, CallsType, CallLeft

LEMMA CallLeftThen ==
  ASSUME CallsInv', NEW c \in Call
  PROVE  CallLeft(c)' \in Nat
<1>1. /\ at'[c] \in {"idle", "sms", "dial", "backoff", "sniff", "store", "done"}
      /\ tries'[c] \in 0 .. MaxRetries - 1
  BY DEF CallsInv, CallsType
<1> QED
  BY <1>1, ProvidersAssumption DEF CallLeft

\* A step of a call leaves it fewer: a retry counts, and waits for one more only.
LEMMA WorkShrinks ==
  ASSUME CallsInv, NEW c \in Call, CallStep(c)
  PROVE  CallLeft(c)' < CallLeft(c)
<1>1. /\ CallsType /\ MaxRetries \in Nat \ {0} /\ tries[c] \in 0 .. MaxRetries - 1
      /\ at[c] = "backoff" => tries[c] < MaxRetries - 1
  BY ProvidersAssumption DEF CallsInv, CallsType, Attempts
<1>2. CASE Retry(c)
  <2>1. at[c] = "backoff" /\ at'[c] = "dial" /\ tries'[c] = tries[c] + 1
    BY <1>1, <1>2 DEF Retry, Attempt, Goto, CallsType
  <2> QED
    BY <1>1, <2>1 DEF CallLeft
<1>3. CASE DialFails(c)
  <2>1. at[c] = "dial" /\ at'[c] \in {"backoff", "done"} /\ tries'[c] = tries[c]
    BY <1>1, <1>3 DEF DialFails, Goto, Return, CallsType
  <2> QED
    BY <1>1, <2>1 DEF CallLeft
<1>4. CASE Delivered(c) \/ Cancelled(c) \/ SendSmsWithOptions(c) \/ UploadLocal(c) \/ UploadRemote(c)
  <2>1. at[c] \in {"dial", "backoff", "sms", "store"} /\ at'[c] = "done"
    BY <1>1, <1>4
    DEF Delivered, Cancelled, SendSmsWithOptions, UploadLocal, UploadRemote, Return, CallsType
  <2> QED
    BY <1>1, <2>1 DEF CallLeft
<1>5. CASE VerifyFileType(c)
  <2>1. at[c] = "sniff" /\ at'[c] \in {"done", "store"}
    BY <1>1, <1>5 DEF VerifyFileType, Return, Goto, CallsType
  <2> QED
    BY <1>1, <2>1 DEF CallLeft
<1> QED
  BY <1>2, <1>3, <1>4, <1>5 DEF CallStep

\* A call that begins has no more left than it was counted for.
LEMMA BeginShrinks ==
  ASSUME CallsInv, NEW c \in Call, BeginCall(c)
  PROVE  CallLeft(c)' <= CallLeft(c)
<1>1. CallsType /\ MaxRetries \in Nat \ {0}
  BY ProvidersAssumption DEF CallsInv
<1>2. at[c] = "idle" /\ tries' = tries /\ tries[c] = 0
  BY <1>1 DEF BeginCall, SendPhoneOtp, SendEmailOtp, Upload, Begin, CallsInv, Place
<1>3. at'[c] \in {"sms", "dial", "sniff", "store", "done"}
  <2>1. CASE Upload(c)
    BY <1>1, <2>1, UploadTakes DEF Return, Goto, CallsType
  <2>2. CASE SendPhoneOtp(c) \/ SendEmailOtp(c)
    BY <1>1, <2>2
    DEF SendPhoneOtp, SendEmailOtp, SmsSend, EmailSend, Attempt, Return, Goto, CallsType
  <2> QED
    BY <2>1, <2>2 DEF BeginCall
<1> QED
  BY <1>1, <1>2, <1>3 DEF CallLeft

\* No step gives a call more.
LEMMA CallsShrink ==
  ASSUME ProcInv, [Next]_vars, NEW c \in Call
  PROVE  CallLeft(c)' <= CallLeft(c)
<1>1. CallsInv /\ CallsType /\ CallLeft(c) \in Nat
  BY CallLeftIs DEF ProcInv, CallsInv
<1>2. ASSUME at'[c] = at[c], tries'[c] = tries[c] PROVE CallLeft(c)' <= CallLeft(c)
  <2>1. CallLeft(c)' = CallLeft(c)
    BY <1>2 DEF CallLeft
  <2> QED
    BY <1>1, <2>1
<1>3. ASSUME NEW d \in Call, Request(d) \/ Work(d) \/ ClientLeaves(d)
      PROVE  CallLeft(c)' <= CallLeft(c)
  <2>1. CASE d = c /\ Request(d)
    BY <1>1, <2>1, BeginShrinks DEF Request
  <2>2. CASE d = c /\ Work(d)
    <3>1. CallLeft(c)' < CallLeft(c)
      BY <1>1, <2>2, WorkShrinks DEF Work
    <3>2. CallLeft(c)' \in Nat
      BY <1>1, <2>2, CallsStep, CallLeftThen DEF Work
    <3> QED
      BY <1>1, <3>1, <3>2
  <2>3. CASE d # c \/ ClientLeaves(d)
    <3>1. CASE Upload(d) /\ d # c
      BY <1>1, <1>2, <3>1, UploadTakes DEF CallsType, Return, Goto
    <3>2. CASE (SendPhoneOtp(d) \/ SendEmailOtp(d)) /\ d # c
      BY <1>1, <1>2, <3>2 DEF CallsType, SendPhoneOtp, SendEmailOtp, SmsSend, EmailSend, Attempt,
         Begin, Return, Goto
    <3>3. CASE CallStep(d) /\ d # c
      BY <1>1, <1>2, <3>3 DEF CallsType, CallStep, SendSmsWithOptions, Delivered, DialFails, Retry,
         Attempt, Cancelled, VerifyFileType, UploadLocal, UploadRemote, Stored, Accept, Return, Goto
    <3>4. CASE CtxDone(d)
      BY <1>2, <3>4 DEF CtxDone
    <3> QED
      BY <1>3, <2>3, <3>1, <3>2, <3>3, <3>4 DEF Request, Work, ClientLeaves, BeginCall
  <2> QED
    BY <1>3, <2>1, <2>2, <2>3
<1>4. ASSUME UNCHANGED calls PROVE CallLeft(c)' <= CallLeft(c)
  BY <1>2, <1>4 DEF calls
<1>5. CASE StartUp \/ Run \/ End \/ Signal \/ JobStarts \/ JobEnds \/ UNCHANGED vars
  <2>1. UNCHANGED calls
    BY <1>5, Zenon DEF StartUp, LoadConfig, NewGRPCServer, NewDB, NewRedis, WireApp, Run, End, Signal,
       JobStarts, JobEnds, StartServer, StopServer, CloseListener, RunReturns, Cleanup, MainEnds,
       fixed, vars
  <2> QED
    BY <1>4, <2>1
<1> QED
  BY <1>3, <1>5 DEF Next

\* What is left for a server is a number, three at most.
LEMMA ServerLeftIs ==
  ASSUME LifeType, NEW s \in Server
  PROVE  ServerLeft(s) \in 0 .. 2 \/ (s = "http" /\ ServerLeft(s) \in 0 .. 3)
BY DEF LifeType, ServerLeft

\* What the process has left is a number, before a step and after it.
LEMMA LifeLeftIs ==
  ASSUME ProcInv, ProcInv'
  PROVE  LifeLeft \in Nat /\ LifeLeft' \in Nat
<1>1. /\ pings \in 0 .. 3 /\ pings' \in 0 .. 3
      /\ phase \in {"config", "grpc", "db", "redis", "wire", "run", "returned", "exited"}
      /\ phase' \in {"config", "grpc", "db", "redis", "wire", "run", "returned", "exited"}
  BY DEF ProcInv, LifeInv, LifeType
<1>2. \A s \in Server : ServerLeft(s) \in Nat /\ ServerLeft(s)' \in Nat
  BY DEF ServerLeft
<1>3. /\ ServerLeft("grpc") + ServerLeft("http") + ServerLeft("cron") \in Nat
      /\ ServerLeft("grpc")' + ServerLeft("http")' + ServerLeft("cron")' \in Nat
  BY <1>2 DEF Server
<1>4. LifeLeft \in Nat
  <2>1. phase = "run" => LifeLeft = 3 + ServerLeft("grpc") + ServerLeft("http") + ServerLeft("cron")
    BY DEF LifeLeft
  <2>2. phase # "run" => LifeLeft \in {18, 17, 16, 15 - pings, 11, 2, 1, 0}
    BY <1>1 DEF LifeLeft
  <2> QED
    BY <1>1, <1>2, <1>3, <2>1, <2>2 DEF Server
<1>5. LifeLeft' \in Nat
  <2>1. phase' = "run"
          => LifeLeft' = 3 + ServerLeft("grpc")' + ServerLeft("http")' + ServerLeft("cron")'
    BY DEF LifeLeft
  <2>2. phase' # "run" => LifeLeft' \in {18, 17, 16, 15 - pings', 11, 2, 1, 0}
    BY <1>1 DEF LifeLeft
  <2> QED
    BY <1>1, <1>2, <1>3, <2>1, <2>2 DEF Server
<1> QED
  BY <1>4, <1>5

\* A step of main or of a server leaves fewer.
LEMMA LifeShrinks ==
  ASSUME ProcInv, StartUp \/ Run \/ End
  PROVE  LifeLeft' < LifeLeft
<1> USE DEF ProcInv, LifeInv, LifeType, Enter, Exit, Server
<1>1. /\ ServerLeft("grpc") \in 0 .. 2 /\ ServerLeft("http") \in 0 .. 3
      /\ ServerLeft("cron") \in 0 .. 2
  BY ServerLeftIs DEF ServerLeft
<1>2. CASE StartUp
  <2>1. CASE WireApp
    <3>1. phase = "wire" /\ phase' \in {"run", "exited"} /\ UNCHANGED servers
      BY <2>1 DEF WireApp
    <3>2. \A s \in Server : ServerLeft(s)' = ServerLeft(s)
      BY <3>1 DEF servers, ServerLeft
    <3>3. LifeLeft = 11
      BY <3>1 DEF LifeLeft
    <3>4. LifeLeft' \in {0, 3 + ServerLeft("grpc") + ServerLeft("http") + ServerLeft("cron")}
      BY <3>1, <3>2 DEF LifeLeft
    <3> QED
      BY <1>1, <3>3, <3>4
  <2>2. CASE NewRedis
    <3>1. /\ phase = "redis" /\ phase' \in {"redis", "wire", "exited"}
          /\ phase' = "redis" => pings < 3 /\ pings' = pings + 1
      BY <2>2 DEF NewRedis
    <3> QED
      BY <3>1 DEF LifeLeft
  <2>3. CASE LoadConfig \/ NewGRPCServer \/ NewDB
    <3>1. /\ <<phase, phase'>> \in {<<"config", "grpc">>, <<"grpc", "db">>, <<"db", "redis">>}
              \/ (phase \in {"config", "grpc", "db"} /\ phase' = "exited")
          /\ pings' = pings
      BY <2>3 DEF LoadConfig, NewGRPCServer, NewDB, boot
    <3> QED
      BY <3>1 DEF LifeLeft
  <2> QED
    BY <1>2, <2>1, <2>2, <2>3 DEF StartUp
<1>3. CASE RunReturns
  <2>1. phase = "run" /\ phase' = "returned"
    BY <1>3 DEF RunReturns
  <2>2. LifeLeft' <= 2 /\ LifeLeft' \in Nat
    BY <2>1 DEF LifeLeft
  <2>3. LifeLeft = 3 + ServerLeft("grpc") + ServerLeft("http") + ServerLeft("cron")
    BY <2>1 DEF LifeLeft
  <2> QED
    BY <1>1, <2>2, <2>3
<1>4. ASSUME phase = "run", phase' = "run", NEW s \in Server,
             \A t \in Server \ {s} : ServerLeft(t)' = ServerLeft(t),
             ServerLeft(s)' \in Int, ServerLeft(s)' < ServerLeft(s)
      PROVE  LifeLeft' < LifeLeft
  <2>1. /\ LifeLeft = 3 + ServerLeft("grpc") + ServerLeft("http") + ServerLeft("cron")
        /\ LifeLeft' = 3 + ServerLeft("grpc")' + ServerLeft("http")' + ServerLeft("cron")'
    BY <1>4 DEF LifeLeft
  <2>2. CASE s = "grpc"
    BY <1>1, <1>4, <2>1, <2>2
  <2>3. CASE s = "http"
    BY <1>1, <1>4, <2>1, <2>3
  <2>4. CASE s = "cron"
    BY <1>1, <1>4, <2>1, <2>4
  <2> QED
    BY <2>2, <2>3, <2>4
<1>5. ASSUME NEW s \in Server, StartServer(s) PROVE LifeLeft' < LifeLeft
  <2>1. /\ phase = "run" /\ phase' = "run" /\ stopped' = stopped /\ server[s] = "off"
        /\ server'[s] # "off" /\ \A t \in Server \ {s} : server'[t] = server[t]
    BY <1>5 DEF StartServer, main
  <2>2. \A t \in Server \ {s} : ServerLeft(t)' = ServerLeft(t)
    BY <2>1 DEF ServerLeft
  <2>3. ServerLeft(s)' \in Int /\ ServerLeft(s)' < ServerLeft(s)
    BY <2>1 DEF ServerLeft
  <2> QED
    BY <1>4, <2>1, <2>2, <2>3
<1>6. ASSUME NEW s \in Server, StopServer(s) PROVE LifeLeft' < LifeLeft
  <2>1. /\ phase = "run" /\ phase' = "run" /\ stopped' = stopped \cup {s} /\ s \notin stopped
        /\ \A t \in Server \ {s} : server'[t] = server[t]
        /\ server'[s] = server[s] \/ (server[s] \in {"up", "closing"} /\ server'[s] = "down")
    BY <1>6 DEF StopServer, main
  <2>2. \A t \in Server \ {s} : ServerLeft(t)' = ServerLeft(t)
    BY <2>1 DEF ServerLeft
  <2>3. ServerLeft(s)' \in Int /\ ServerLeft(s)' < ServerLeft(s)
    BY <2>1 DEF ServerLeft
  <2> QED
    BY <1>4, <2>1, <2>2, <2>3
<1>7. CASE CloseListener
  <2>1. /\ phase = "run" /\ phase' = "run" /\ stopped' = stopped /\ server["http"] = "up"
        /\ server'["http"] = "closing"
        /\ \A t \in Server \ {"http"} : server'[t] = server[t]
    BY <1>7 DEF CloseListener, Serving, main
  <2>2. \A t \in Server \ {"http"} : ServerLeft(t)' = ServerLeft(t)
    BY <2>1 DEF ServerLeft
  <2>3. ServerLeft("http")' \in Int /\ ServerLeft("http")' < ServerLeft("http")
    BY <2>1 DEF ServerLeft
  <2> QED
    BY <1>4, <2>1, <2>2, <2>3
<1>8. CASE End
  <2>1. CASE Cleanup
    BY <2>1 DEF Cleanup, main, LifeLeft
  <2>2. CASE MainEnds
    BY <2>2 DEF MainEnds, LifeLeft
  <2> QED
    BY <1>8, <2>1, <2>2 DEF End
<1> QED
  BY <1>2, <1>3, <1>5, <1>6, <1>7, <1>8 DEF Run

\* No other step touches it.
LEMMA LifeKeeps ==
  ASSUME ProcInv, [Next]_vars, ~(StartUp \/ Run \/ End)
  PROVE  LifeLeft' = LifeLeft
<1>1. UNCHANGED <<phase, pings, redis, server, stopped>>
  BY DEF Next, Signal, JobStarts, JobEnds, Request, Work, ClientLeaves, vars, life, main, boot, servers
<1> QED
  BY <1>1 DEF LifeLeft, ServerLeft

-----------------------------------------------------------------------------
(* The theorems *)

\* The variables of the process keep their types: no call makes more attempts than
\* MaxRetries, and Redis is pinged at most three times before the last ping.
THEOREM TypeCorrect == Spec => []TypeOK
<1>1. ProcInv => TypeOK
  BY DEF ProcInv, LifeInv, LifeType, CallsInv, TypeOK
<1> QED
  BY ProcInvariant, <1>1, PTL

\* No caller is told of a success that did not happen, for any configuration, number
\* of attempts and number of calls at a time.
THEOREM NoFalseNil == Spec => []AnswersTrue
<1>1. ProcInv => AnswersTrue
  BY DEF ProcInv, CallsInv, Truth, AnswersTrue
<1> QED
  BY ProcInvariant, <1>1, PTL

\* Once the context of a mail is done at most one more attempt begins, however many
\* were left.
THEOREM CancelEndsRetries == Spec => []CancelStopsRetries
<1>1. ProcInv => CancelStopsRetries
  BY DEF ProcInv, CallsInv, Attempts, CancelStopsRetries
<1> QED
  BY ProcInvariant, <1>1, PTL

\* Redis has answered before a server starts and is closed after the requests, for any
\* number of requests, unless Stop gave them up.
THEOREM RedisOutlivesRequests == Spec => []RedisServesRequests
<1>1. ProcInv => RedisServesRequests
  <2>1. ASSUME ProcInv, Requests # {}, phase # "exited" PROVE redis = "open" \/ forced
    <3>1. server["http"] \in {"up", "closing"} \/ forced
      BY <2>1 DEF ProcInv, LifeInv, HttpWaits
    <3>2. phase \in {"run", "returned"} \/ forced
      BY <2>1, <3>1 DEF ProcInv, LifeInv, LifeType, Order, Server
    <3> QED
      BY <2>1, <3>1, <3>2 DEF ProcInv, LifeInv, Order
  <2> QED
    BY <2>1 DEF ProcInv, LifeInv, Order, RedisServesRequests
<1> QED
  BY ProcInvariant, <1>1, PTL

\* No job starts between Run's return and the end of the process, unless cron was
\* stopped before it was started.
THEOREM SchedulerEnds == Spec => SchedulerStops
<1>1. ProcInv /\ [Next]_vars => [JobStarts /\ phase = "returned" => server["cron"] = "late"]_vars
  BY DEF ProcInv, LifeInv, Order, CronStopped, JobStarts, Server
<1> QED
  BY ProcInvariant, <1>1, PTL DEF Spec, SchedulerStops

\* No request finds a section of the configuration missing but for app.otp and
\* app.upload, whatever the configuration: the constructors have looked into the others.
THEOREM MissingFoundEarly == Spec => []MissingFoundAtStart
<1>1. Init => Found
  BY DEF Init, CallsInit, Found, MissingFoundAtStart
<1>2. ProcInv /\ Found /\ [Next]_vars => Found'
  BY FoundStep
<1>3. Found => MissingFoundAtStart
  BY DEF Found
<1> QED
  BY ProcInvariant, <1>1, <1>2, <1>3, PTL DEF Spec

\* StepsRunOut, for any number of calls and of attempts: a call takes 2 * MaxRetries + 1
\* steps at most and the process 18 of its own, so what is left to fairness in CallsEnd,
\* StartUpEnds and StopEnds is that a step which can be taken is taken.
THEOREM NothingLoops == Spec => StepsRunOut
<1>1. ProcInv /\ ProcInv' /\ [Next]_vars =>
        [/\ \A c \in Call : IF Work(c) THEN CallLeft(c)' \in 0 .. CallLeft(c) - 1
                                       ELSE CallLeft(c)' \in 0 .. CallLeft(c)
         /\ IF StartUp \/ Run \/ End THEN LifeLeft' \in 0 .. LifeLeft - 1
                                     ELSE LifeLeft' = LifeLeft]_vars
  <2> SUFFICES ASSUME ProcInv, ProcInv', [Next]_vars
               PROVE  /\ \A c \in Call :
                            IF Work(c) THEN CallLeft(c)' \in 0 .. CallLeft(c) - 1
                                       ELSE CallLeft(c)' \in 0 .. CallLeft(c)
                      /\ IF StartUp \/ Run \/ End THEN LifeLeft' \in 0 .. LifeLeft - 1
                                                  ELSE LifeLeft' = LifeLeft
    OBVIOUS
  <2>1. ASSUME NEW c \in Call PROVE CallLeft(c) \in Nat /\ CallLeft(c)' \in Nat
    BY CallLeftIs, CallLeftThen DEF ProcInv
  <2>2. ASSUME NEW c \in Call, Work(c) PROVE CallLeft(c)' < CallLeft(c)
    BY <2>2, WorkShrinks DEF Work, ProcInv
  <2>3. ASSUME NEW c \in Call PROVE CallLeft(c)' <= CallLeft(c)
    BY CallsShrink
  <2>4. LifeLeft \in Nat /\ LifeLeft' \in Nat
    BY LifeLeftIs
  <2>5. ASSUME NEW c \in Call
        PROVE  IF Work(c) THEN CallLeft(c)' \in 0 .. CallLeft(c) - 1
                          ELSE CallLeft(c)' \in 0 .. CallLeft(c)
    <3>1. CASE Work(c)
      <4>1. CallLeft(c)' \in 0 .. CallLeft(c) - 1
        BY <2>1, <2>2, <3>1
      <4> QED
        BY <3>1, <4>1, Zenon
    <3>2. CASE ~Work(c)
      <4>1. CallLeft(c)' \in 0 .. CallLeft(c)
        BY <2>1, <2>3
      <4> QED
        BY <3>2, <4>1, Zenon
    <3> QED
      BY <3>1, <3>2
  <2>6. CASE StartUp \/ Run \/ End
    <3>1. LifeLeft' \in 0 .. LifeLeft - 1
      BY <2>4, <2>6, LifeShrinks
    <3> QED
      BY <2>5, <2>6, <3>1, Zenon
  <2>7. CASE ~(StartUp \/ Run \/ End)
    BY <2>5, <2>7, LifeKeeps, Zenon
  <2> QED
    BY <2>6, <2>7
<1> QED
  BY ProcInvariant, <1>1, PTL DEF Spec, StepsRunOut

=============================================================================
