------------------------------- MODULE Providers -------------------------------
(***************************************************************************)
(* The calls to services outside: short messages (internal/pkg/sms) and mail*)
(* with retries (internal/pkg/email), both from internal/biz/otp.go, and    *)
(* uploads to an object storage (internal/biz/upload.go, internal/pkg/oss). *)
(* Each call is a small machine of its own that looks into the              *)
(* configuration; Process says when calls begin.                            *)
(***************************************************************************)
EXTENDS Conf

CONSTANTS
    Call,            \* bound: the calls there ever are, each is made once
    Configs,         \* bound: the configurations
    TemplateFiles,   \* the names of internal/pkg/email/templates/*.html
    Sizes,           \* bound: the sizes of files
    MaxRetries       \* 3; how often a mail is tried

ASSUME ProvidersAssumption ==
    /\ MaxRetries \in Nat \ {0}
    /\ Configs \subseteq Bootstrap

VARIABLES
    config,     \* the one that was loaded
    at,         \* where each call is
    kind,       \* what it is for
    ctx,        \* its context: "live", or "done" when the client left or time is up
    tries,      \* i of sendWithRetry
    late,       \* history: attempts that began after the context was done
    accepted,   \* history: how often the provider has taken the message
    file,       \* what of an UploadFileInput matters once scene and size are accepted
    reader,     \* what is left to read of the file: "whole", or the "rest" after the head
    object,     \* history: what the storage has of it
    answer      \* the error returned: "nil" or "error"; or "panic", a nil pointer that the
                \* middleware of the servers recovers from

calls == <<at, kind, ctx, tries, late, accepted, file, reader, object, answer>>

\* type: not looked at in this scene, or the verdict on it; seek: does Seek(0) work.
File == [type : {"any", "allowed", "other"}, seek : BOOLEAN]
NoFile == [type |-> "any", seek |-> TRUE]

CallsType ==
    /\ config \in Configs
    /\ at \in [Call -> {"idle", "sms", "dial", "backoff", "sniff", "store", "done"}]
    /\ kind \in [Call -> {"none", "sms", "mail", "upload"}]
    /\ ctx \in [Call -> {"live", "done"}]
    /\ tries \in [Call -> 0 .. MaxRetries - 1]
    /\ late \in [Call -> 0 .. MaxRetries]
    /\ accepted \in [Call -> 0 .. MaxRetries]
    /\ file \in [Call -> File]
    /\ reader \in [Call -> {"whole", "rest"}]
    /\ object \in [Call -> {"none", "part", "whole"}]
    /\ answer \in [Call -> {"none", "nil", "error", "panic"}]

CallsInit ==
    /\ config \in Configs
    /\ at = [c \in Call |-> "idle"]
    /\ kind = [c \in Call |-> "none"]
    /\ ctx = [c \in Call |-> "live"]
    /\ tries = [c \in Call |-> 0]
    /\ late = [c \in Call |-> 0]
    /\ accepted = [c \in Call |-> 0]
    /\ file = [c \in Call |-> NoFile]
    /\ reader = [c \in Call |-> "whole"]
    /\ object = [c \in Call |-> "none"]
    /\ answer = [c \in Call |-> "none"]

Goto(c, label) == at' = [at EXCEPT ![c] = label] /\ UNCHANGED answer
Return(c, err) == at' = [at EXCEPT ![c] = "done"] /\ answer' = [answer EXCEPT ![c] = err]
InFlight(c) == at[c] \notin {"idle", "done"}

-----------------------------------------------------------------------------
(* The sections of the configuration, and the factories that choose by them. *)

ServerConf == The(config.server)
Data == The(config.data)
App == The(config.app)

IsDev == App.env = "dev"
NewSmsSender ==
    IF ~IsDev /\ Has(Data.sms) /\ The(Data.sms).provider = "aliyun" THEN "aliyun" ELSE "mock"
NewEmailSender == IF IsDev THEN "mock" ELSE "smtp"
NewOSS ==
    IF Has(Data.oss) /\ The(Data.oss).provider \in {"aliyun", "qiniu", "minio"}
    THEN "remote" ELSE "local"

-----------------------------------------------------------------------------
(* Short messages: one request, answered, refused or lost. *)

Begin(c, what) ==
    /\ at[c] = "idle"
    /\ kind' = [kind EXCEPT ![c] = what]
    /\ UNCHANGED config

\* Send: the mock accepts everything, the other needs the template to have a code.
SmsSend(c, template) ==
    \/ NewSmsSender = "mock" /\ Return(c, "nil")
    \/ /\ NewSmsSender = "aliyun"
       /\ IF template \in The(Data.sms).template_mapping THEN Goto(c, "sms") ELSE Return(c, "error")

\* The scene must be configured, and process may refuse, see Otp.
SendPhoneOtp(c) ==
    /\ Begin(c, "sms")
    /\ \/ ~Has(App.otp) /\ Return(c, "panic")
       \/ Has(App.otp) /\ Return(c, "error")
       \/ /\ Has(App.otp)
          /\ \E s \in Scene :
                LET cfg == The(App.otp).phone_scenes[s] IN
                Has(cfg) /\ SmsSend(c, The(cfg).template_name)
    /\ UNCHANGED <<ctx, tries, late, accepted, file, reader, object>>

Accept(c) == accepted' = [accepted EXCEPT ![c] = @ + 1]

\* Mutant: a response is taken for success, whatever its code.
AnyResponse(c) ==
    /\ at[c] = "sms"
    /\ \/ Accept(c) /\ Return(c, "nil")
       \/ UNCHANGED accepted /\ Return(c, "nil")
       \/ Accept(c) /\ Return(c, "error")
    /\ UNCHANGED <<config, kind, ctx, tries, late, file, reader, object>>

\* SendSmsWithOptions: only a response with the code "OK" is success.  An error, a
\* panic of the library, or no answer in time leaves open whether it was accepted.
SendSmsWithOptions(c) ==
    /\ at[c] = "sms"
    /\ \/ Accept(c) /\ Return(c, "nil")
       \/ (Accept(c) \/ UNCHANGED accepted) /\ Return(c, "error")
    /\ UNCHANGED <<config, kind, ctx, tries, late, file, reader, object>>

-----------------------------------------------------------------------------
(* Mail *)

\* An attempt begins.
Attempt(c, context) ==
    /\ Goto(c, "dial")
    /\ late' = IF context = "done" THEN [late EXCEPT ![c] = @ + 1] ELSE late

\* Send: the template needs a subject and a file of its name.
Renders(template) ==
    Has(Data.email) /\ template \in The(Data.email).subject_mapping \cap TemplateFiles

EmailSend(c, template) ==
    \/ NewEmailSender = "mock" /\ Return(c, "nil") /\ UNCHANGED <<ctx, late>>
    \/ /\ NewEmailSender = "smtp" /\ ~Renders(template)
       /\ Return(c, IF Has(Data.email) THEN "error" ELSE "panic")
       /\ UNCHANGED <<ctx, late>>
    \/ /\ NewEmailSender = "smtp" /\ Renders(template)
       /\ \E context \in {"live", "done"} :
             ctx' = [ctx EXCEPT ![c] = context] /\ Attempt(c, context)

SendEmailOtp(c) ==
    /\ Begin(c, "mail")
    /\ \/ ~Has(App.otp) /\ Return(c, "panic") /\ UNCHANGED <<ctx, late>>
       \/ Has(App.otp) /\ Return(c, "error") /\ UNCHANGED <<ctx, late>>
       \/ /\ Has(App.otp)
          /\ \E s \in Scene :
                LET cfg == The(App.otp).email_scenes[s] IN
                Has(cfg) /\ EmailSend(c, The(cfg).template_name)
    /\ UNCHANGED <<tries, accepted, file, reader, object>>

Delivered(c) ==
    /\ at[c] = "dial"
    /\ Accept(c)
    /\ Return(c, "nil")
    /\ UNCHANGED <<config, kind, ctx, tries, late, file, reader, object>>

\* Mutant: the wait is a Sleep, the context is not looked at.
DialFailsThenSleep(c) ==
    /\ at[c] = "dial"
    /\ Accept(c) \/ UNCHANGED accepted
    /\ IF tries[c] = MaxRetries - 1 THEN Return(c, "error") ELSE Goto(c, "backoff")
    /\ UNCHANGED <<config, kind, ctx, tries, late, file, reader, object>>

\* Mutant: one attempt more, and a wait after the last.
DialFailsOnceMore(c) ==
    /\ at[c] = "dial"
    /\ Accept(c) \/ UNCHANGED accepted
    /\ IF ctx[c] = "done" \/ tries[c] = MaxRetries
       THEN Return(c, "error") ELSE Goto(c, "backoff")
    /\ UNCHANGED <<config, kind, ctx, tries, late, file, reader, object>>

\* DialAndSend fails, perhaps after the server has taken the mail.  After the last
\* attempt that is the answer; else the wait begins, and ends at once when the
\* context is done already.
DialFails(c) ==
    /\ at[c] = "dial"
    /\ Accept(c) \/ UNCHANGED accepted
    /\ IF tries[c] = MaxRetries - 1 \/ ctx[c] = "done"
       THEN Return(c, "error") ELSE Goto(c, "backoff")
    /\ UNCHANGED <<config, kind, ctx, tries, late, file, reader, object>>

\* Mutant: the loop counts nothing.
RetryForever(c) ==
    /\ at[c] = "backoff"
    /\ Attempt(c, ctx[c])
    /\ UNCHANGED <<config, kind, ctx, tries, accepted, file, reader, object>>

\* The select takes the timer, also when the context ends just after it fired.
Retry(c) ==
    /\ at[c] = "backoff"
    /\ tries' = [tries EXCEPT ![c] = @ + 1]
    /\ Attempt(c, ctx[c])
    /\ UNCHANGED <<config, kind, ctx, accepted, file, reader, object>>

\* The select takes ctx.Done().
Cancelled(c) ==
    /\ at[c] = "backoff" /\ ctx[c] = "done"
    /\ Return(c, "error")
    /\ UNCHANGED <<config, kind, ctx, tries, late, accepted, file, reader, object>>

-----------------------------------------------------------------------------
(* Uploads *)

\* What verifyFileType will find of a file of this type.
Verdict(type, allowed) ==
    IF allowed = {} THEN "any" ELSE IF type \in allowed THEN "allowed" ELSE "other"

\* A file in a scene that is configured, within the size that is set for it, if one is.
UploadFileIn(c, limits) ==
    \E size \in Sizes, type \in FileType, seek \in BOOLEAN :
        \/ /\ limits.max_size > 0 /\ size > limits.max_size
           /\ Return(c, "error") /\ UNCHANGED file
        \/ /\ limits.max_size <= 0 \/ size <= limits.max_size
           /\ file' = [file EXCEPT ![c] =
                         [type |-> Verdict(type, limits.allowed_types), seek |-> seek]]
           /\ Goto(c, IF limits.allowed_types = {} THEN "store" ELSE "sniff")

UploadFile(c, s) ==
    LET scenes == The(App.upload).scenes IN
    \/ ~Has(App.upload) /\ Return(c, "panic") /\ UNCHANGED file
    \/ /\ Has(App.upload) /\ ~(s \in Scene /\ Has(scenes[s]))
       /\ Return(c, "error") /\ UNCHANGED file
    \/ /\ Has(App.upload) /\ s \in Scene /\ Has(scenes[s])
       /\ UploadFileIn(c, The(scenes[s]))

\* UploadScene.String; "2" stands for the numbers the enum does not define.
UploadScene == {"UPLOAD_COMMON", "UPLOAD_AVATAR", "2"}

\* The service needs a file in the form, and has the scene from the query.
Upload(c) ==
    /\ Begin(c, "upload")
    /\ \/ Return(c, "error") /\ UNCHANGED file
       \/ \E s \in UploadScene : UploadFile(c, s)
    /\ UNCHANGED <<ctx, tries, late, accepted, reader, object>>

\* Mutant: only a reader that can seek is put back.
VerifyFileTypeSeekOnly(c) ==
    /\ at[c] = "sniff"
    /\ IF file[c].type = "allowed"
       THEN /\ reader' = [reader EXCEPT ![c] = IF file[c].seek THEN "whole" ELSE "rest"]
            /\ Goto(c, "store")
       ELSE Return(c, "error") /\ UNCHANGED reader
    /\ UNCHANGED <<config, kind, ctx, tries, late, accepted, file, object>>

\* verifyFileType reads the head, which may fail, and looks for its type among those
\* that are allowed; then Seek, or else a MultiReader of head and rest.
VerifyFileType(c) ==
    /\ at[c] = "sniff"
    /\ \/ Return(c, "error") /\ reader' = [reader EXCEPT ![c] = "rest"]
       \/ /\ file[c].type = "allowed"
          /\ reader' = [reader EXCEPT ![c] = "whole"]
          /\ Goto(c, "store")
    /\ UNCHANGED <<config, kind, ctx, tries, late, accepted, file, object>>

Stored(c, what) == object' = [object EXCEPT ![c] = IF reader[c] = "whole" THEN what ELSE "part"]

\* A local file is written piece by piece, what is written stays when that fails.
UploadLocal(c) ==
    /\ at[c] = "store" /\ NewOSS = "local"
    /\ \/ Stored(c, "whole") /\ Return(c, "nil")
       \/ Stored(c, "part") /\ Return(c, "error")
       \/ UNCHANGED object /\ Return(c, "error")
    /\ UNCHANGED <<config, kind, ctx, tries, late, accepted, file, reader>>

\* One call of the provider's library; a remote object is there or not, whatever the
\* error.
UploadRemote(c) ==
    /\ at[c] = "store" /\ NewOSS = "remote"
    /\ \/ Stored(c, "whole") /\ (Return(c, "nil") \/ Return(c, "error"))
       \/ UNCHANGED object /\ Return(c, "error")
    /\ UNCHANGED <<config, kind, ctx, tries, late, accepted, file, reader>>

-----------------------------------------------------------------------------
\* The client leaves, or the time of the request is up; only mail looks at it.
CtxDone(c) ==
    /\ at[c] \in {"dial", "backoff"} /\ ctx[c] = "live"
    /\ ctx' = [ctx EXCEPT ![c] = "done"]
    /\ UNCHANGED <<config, at, kind, tries, late, accepted, file, reader, object, answer>>

BeginCall(c) == SendPhoneOtp(c) \/ SendEmailOtp(c) \/ Upload(c)

CallStep(c) ==
    \/ SendSmsWithOptions(c) \/ Delivered(c) \/ DialFails(c) \/ Retry(c) \/ Cancelled(c)
    \/ VerifyFileType(c) \/ UploadLocal(c) \/ UploadRemote(c)

-----------------------------------------------------------------------------
(* Properties. *)

\* nil is only returned for a message that the provider has accepted, or that a mock
\* was there to swallow, and for a file of an allowed type that is stored whole: the
\* retries, the panics of libraries and the head that was read leave no false nil.
AnswersTrue == \A c \in Call : answer[c] = "nil" =>
    /\ kind[c] = "sms" => accepted[c] = 1 \/ NewSmsSender = "mock"
    /\ kind[c] = "mail" => accepted[c] >= 1 \/ NewEmailSender = "mock"
    /\ kind[c] = "upload" => object[c] = "whole" /\ file[c].type # "other"

\* "wait and answer to the cancelled context" (smtp.go:96): once the context of a mail
\* is done at most one attempt begins, the one whose timer fired first or the one of a
\* call that began without a live context.
CancelStopsRetries == \A c \in Call : late[c] <= 1

=============================================================================
