SPECIFICATION Spec
CONSTANTS
    x = x
    y = y
    z = z
    Lang = {ko}
    Text = {x, y, z}
    BodyOf <- MCBodyOf
    FirstText = x
    NoText = NoText
    Translator = {t1}
    SomebodyElse = SomebodyElse
    Token = {j1, j2}
    NoToken = NoToken
    Stamp = {s1, s2}
    Epoch = Epoch
    Worker = {w1, w2}
    MaxRevision = 2
SYMMETRY Symmetry
INVARIANTS
    TypeOK
    PublicAgrees
    FreshnessHonest
    NoticeTrue
    PlaceholderBacked
PROPERTIES
    HumanTextKept
CHECK_DEADLOCK FALSE
