------------------------------- MODULE Messages -------------------------------
(***************************************************************************)
(* The requests of the HTTP API (api/passport/v1, api/public/v1): their     *)
(* fields, and the rules their generated Validate methods check.  A string  *)
(* is its length in runes, two strings that the code compares are equal     *)
(* when their lengths are; a mobile number is a well-formed one, "" or else.*)
(* A message is a record, m.f is its generated getter.                      *)
(***************************************************************************)
EXTENDS Naturals

CONSTANTS
    Text,                       \* bound: the lengths of strings in messages
    Phone, NoPhone, BadPhone,   \* well-formed numbers, the empty one, any other
    Captcha, NoCaptcha          \* ids of captchas, the empty id

Mobile == Phone \cup {NoPhone, BadPhone}

RegisterRequest ==
    [username: Text, password: Text, confirmPassword: Text, mobile: Mobile, code: Text]
LoginByPasswordRequest ==
    [username: Text, password: Text,
     captchaId: Captcha \cup {NoCaptcha}, captcha: {"", "right", "wrong"}]
LoginByOtpRequest == [mobile: Mobile, code: Text]
UpdatePasswordRequest == [oldPassword: Text, newPassword: Text, confirmPassword: Text]
BindMobileRequest == [mobile: Mobile, code: Text]
UpdateMobileRequest == [mobile: Mobile, code: Text]
ResetPasswordRequest ==
    [mobile: Mobile, smsCode: Text, newPassword: Text, confirmPassword: Text]
SendSmsOtpRequest ==
    [mobile: Mobile, captchaId: Captcha \cup {NoCaptcha},
     captcha: {"", "right", "wrong"}, scene: 0 .. 5]

\* SmsOtpScene.String in lower case; 5 stands for the numbers the enum does not define.
SceneName(scene) ==
    <<"unspecified", "register", "login", "bind", "reset", "5">>[scene + 1]

-----------------------------------------------------------------------------
(* Validate.  A string that may be left out is not looked at when it is empty. *)

Between(text, min, max) == min <= text /\ text <= max

ValidRegister(m) ==
    /\ Between(m.username, 3, 20)
    /\ Between(m.password, 6, 20)
    /\ Between(m.confirmPassword, 6, 20)
    /\ m.mobile \in Phone \cup {NoPhone}
    /\ m.code = 0 \/ Between(m.code, 4, 6)

ValidLoginByPassword(m) == Between(m.username, 3, 20) /\ Between(m.password, 6, 20)

ValidLoginByOtp(m) == m.mobile \in Phone /\ Between(m.code, 4, 6)

ValidUpdatePassword(m) ==
    /\ Between(m.oldPassword, 6, 20)
    /\ Between(m.newPassword, 6, 20)
    /\ Between(m.confirmPassword, 6, 20)

ValidBindMobile(m) == m.mobile \in Phone /\ Between(m.code, 4, 6)

ValidUpdateMobile(m) == m.mobile \in Phone /\ Between(m.code, 4, 6)

ValidResetPassword(m) ==
    /\ m.mobile \in Phone
    /\ Between(m.smsCode, 4, 6)
    /\ Between(m.newPassword, 6, 20)
    /\ Between(m.confirmPassword, 6, 20)

ValidSendSmsOtp(m) == m.mobile \in Phone /\ m.scene \in 1 .. 4

=============================================================================
