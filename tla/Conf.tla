---------------------------------- MODULE Conf ----------------------------------
(***************************************************************************)
(* The configuration (internal/conf/conf.pb.go), as a config.yaml may leave *)
(* it after Scan.  A message is the record of its fields.  A pointer to a   *)
(* section, and the entry of a map, is a set that has it or is empty.  Kept *)
(* are the fields the process branches on; addresses, credentials, durations*)
(* and pool sizes are left out, a section without others is only there or   *)
(* not.  The getters of a message select its fields.                        *)
(***************************************************************************)
EXTENDS Integers

CONSTANTS
    Scene,       \* bound: names of scenes
    Template,    \* bound: the logical names of templates
    FileType     \* bound: MIME types

Optional(S) == {section \in SUBSET S : \A x, y \in section : x = y}
Has(section) == section # {}
The(section) == CHOOSE x \in section : TRUE
Present == {"present"}

-----------------------------------------------------------------------------
Server_HTTP == Present
Server_GRPC == Present
ServerSection == [http: Optional(Server_HTTP), grpc: Optional(Server_GRPC)]

\* The mappings of templates have those with a code, or subject, that is not empty.
Data_Sms == [provider: {"", "aliyun", "tencent"}, template_mapping: SUBSET Template]
Data_Email == [smtp: Optional(Present), subject_mapping: SUBSET Template]
Data_Oss == [provider: {"", "local", "aliyun", "qiniu", "minio"}]
DataSection ==
    [database: Optional(Present), redis: Optional(Present), sms: Optional(Data_Sms),
     email: Optional(Data_Email), oss: Optional(Data_Oss)]

App_Auth == [passport: Optional(Present), jwt: Optional(Present)]
App_Otp_Scene == [template_name: Template]
App_Otp ==
    [phone_scenes: [Scene -> Optional(App_Otp_Scene)],
     email_scenes: [Scene -> Optional(App_Otp_Scene)]]
App_Upload_Scene == [max_size: Int, allowed_types: SUBSET FileType]
App_Upload == [scenes: [Scene -> Optional(App_Upload_Scene)]]
AppSection ==
    [env: {"", "dev", "test", "prod"}, worker_id: Int, auth: Optional(App_Auth),
     otp: Optional(App_Otp), upload: Optional(App_Upload)]

Bootstrap ==
    [server: Optional(ServerSection), data: Optional(DataSection), app: Optional(AppSection)]

=============================================================================
