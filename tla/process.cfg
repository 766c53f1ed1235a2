\* A call of each kind, every outcome of the start-up and of the servers.
CONSTANTS
    Call = {k1}
    Configs <- ConfigsDef
    Scene = {"login", "reset_pwd", "avatar", "UPLOAD_AVATAR"}
    Template = {"otp_login", "email_reset", "reset_pwd"}
    TemplateFiles = {"bind_email", "reset_pwd"}
    FileType = {"image", "text"}
    Sizes = {1, 2}
    MaxRetries = 3
    MaxJobs = 1
SPECIFICATION Spec
INVARIANTS TypeOK AnswersTrue CancelStopsRetries RedisServesRequests MissingFoundAtStart
PROPERTIES SchedulerStops StepsRunOut CallsEnd StartUpEnds StopEnds
CHECK_DEADLOCK FALSE
