\* One request, no faults.
CONSTANTS
    Text = {0, 6}
    Phone = {p1}
    NoPhone = NoPhone
    BadPhone = BadPhone
    Captcha = {k1}
    NoCaptcha = NoCaptcha
    Req = {r1}
    Session = {s1}
    NoSession = NoSession
    User = {u1}
    Nobody = Nobody
    PublicPaths <- ShippedPaths
    PhoneScenes = {"register", "login", "bind", "reset"}
    Faults = {}
SPECIFICATION Spec
INVARIANT RulesEnforced
