CONSTANTS
    User = {ana, luis}
    Founder = ana
    Present = {ana}
    Request = {r1, r2}
    Secret = {s1, s2}
    NoSecret = none
    Code = {c1, c2}
    PerPrint = 1
    Token = {k1, k2}
    Unused = unused
    Deleted = deleted
SPECIFICATION Spec
SYMMETRY Symmetry
INVARIANTS TypeOK CodeOpensOneSession
PROPERTIES TheLastSuperadminStays EnrolmentIsProven
