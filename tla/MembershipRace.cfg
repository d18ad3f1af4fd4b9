\* READ COMMITTED: two requests count the owners at the same time.
CONSTANTS
    Users = {u1, u2}
    Founder = u1
    NoJob = none
    Requests = {r1, r2}
    Serialized = FALSE
SPECIFICATION Spec
SYMMETRY MemberSymmetry
INVARIANTS OwnerRemains
