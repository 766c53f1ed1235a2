------------------------------- MODULE MCProcess -------------------------------
(* A small instance of Process for TLC. *)
EXTENDS Process

\* configs/config.yaml, with one scene of each kind.
Scenes(s, entry) == [x \in Scene |-> IF x = s THEN {entry} ELSE {}]
ShippedServer == [http |-> Present, grpc |-> Present]
ShippedData ==
    [database |-> Present, redis |-> Present,
     sms |-> {[provider |-> "aliyun", template_mapping |-> {"otp_login"}]},
     email |-> {[smtp |-> Present, subject_mapping |-> {"email_reset"}]},
     oss |-> {[provider |-> ""]}]
ShippedOtp ==
    [phone_scenes |-> Scenes("login", [template_name |-> "otp_login"]),
     email_scenes |-> Scenes("reset_pwd", [template_name |-> "email_reset"])]
ShippedUpload ==
    [scenes |-> Scenes("avatar", [max_size |-> 1, allowed_types |-> {"image"}])]
ShippedAuth == [passport |-> Present, jwt |-> Present]
ShippedApp ==
    [env |-> "dev", worker_id |-> 1, auth |-> {ShippedAuth}, otp |-> {ShippedOtp},
     upload |-> {ShippedUpload}]
Shipped == [server |-> {ShippedServer}, data |-> {ShippedData}, app |-> {ShippedApp}]

WithServer(s) == [Shipped EXCEPT !.server = {s}]
WithData(d) == [Shipped EXCEPT !.data = {d}, !.app = {[ShippedApp EXCEPT !.env = "prod"]}]
WithApp(a) == [Shipped EXCEPT !.app = {a}]

\* The shipped mail templates have no file of their name, and the scenes of uploads are
\* not those of the API; here they are.
FittingData == [ShippedData EXCEPT !.email =
    {[smtp |-> Present, subject_mapping |-> {"email_reset", "reset_pwd"}]}]
FittingApp == [ShippedApp EXCEPT !.env = "prod", !.otp =
    {[ShippedOtp EXCEPT !.email_scenes = Scenes("reset_pwd", [template_name |-> "reset_pwd"])]},
    !.upload =
    {[scenes |-> Scenes("UPLOAD_AVATAR", [max_size |-> 1, allowed_types |-> {"image"}])]}]
OtherData == [FittingData EXCEPT !.sms = {[provider |-> "tencent", template_mapping |-> {}]},
                              !.oss = {[provider |-> "minio"]}]
OtherApp == [FittingApp EXCEPT !.env = "test", !.upload =
    {[scenes |-> Scenes("UPLOAD_AVATAR", [max_size |-> 0, allowed_types |-> {}])]}]

ConfigsDef ==
    {Shipped, WithData(ShippedData),
     [Shipped EXCEPT !.data = {FittingData}, !.app = {FittingApp}],
     [Shipped EXCEPT !.data = {OtherData}, !.app = {OtherApp}]} \cup
    {[Shipped EXCEPT !.server = {}], [Shipped EXCEPT !.data = {}], [Shipped EXCEPT !.app = {}]} \cup
    {WithServer([ShippedServer EXCEPT !.http = {}]), WithServer([ShippedServer EXCEPT !.grpc = {}])} \cup
    {WithData([ShippedData EXCEPT !.database = {}]), WithData([ShippedData EXCEPT !.redis = {}]),
     WithData([ShippedData EXCEPT !.sms = {}]),
     WithData([ShippedData EXCEPT !.sms = {[provider |-> "aliyun", template_mapping |-> {}]}]),
     WithData([ShippedData EXCEPT !.email = {}]),
     WithData([ShippedData EXCEPT !.email = {[smtp |-> {}, subject_mapping |-> {}]}])} \cup
    {WithApp([ShippedApp EXCEPT !.worker_id = 1024]), WithApp([ShippedApp EXCEPT !.auth = {}]),
     WithApp([ShippedApp EXCEPT !.auth = {[ShippedAuth EXCEPT !.jwt = {}]}]),
     WithApp([ShippedApp EXCEPT !.otp = {}]), WithApp([ShippedApp EXCEPT !.upload = {}])}
=============================================================================
