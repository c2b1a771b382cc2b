CONSTANTS
    Key = {s1}
    Value = {p1, p2}
    NoValue = NoProxy
    Ttl = 1
    MaxTime = 2
    Call = {c1, c2}
    NoSession = NoSession
SPECIFICATION Spec
SYMMETRY Symmetry
INVARIANTS
    AnswersGoodProxy
    SerialCallsSticky
