CONSTANTS
    Key = {k1, k2}
    Value = {admin}
    NoValue = NoValue
    Ttl = 1
    MaxTime = 2
    Request = {r1, r2, r3}
    User = admin
    Nobody = Nobody
SPECIFICATION Spec
SYMMETRY Symmetry
INVARIANTS
    TypeOK
    LogoutFinal
    AcceptedHadSession
    LoginHolds
