\* Two requests of any kind, with the public paths and scenes that are shipped.
CONSTANTS
    Text = {0, 6}
    Phone = {p1}
    NoPhone = NoPhone
    BadPhone = BadPhone
    Captcha = {k1}
    NoCaptcha = NoCaptcha
    Req = {r1, r2}
    Session = {s1, s2}
    NoSession = NoSession
    User = {u1}
    Nobody = Nobody
    PublicPaths <- ShippedPaths
    PhoneScenes = {"register", "login", "bind", "reset"}
    Faults = {"redis"}
SPECIFICATION Spec
SYMMETRY Symmetry
INVARIANTS TypeOK EndedTokensRefused ComparedOnce ScenesConfigured
