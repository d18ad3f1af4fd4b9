\* SQLite: one transaction at a time.  Three people; two projects where the plan
\* allows one; an account with a change and a reset of its password; two releases and two
\* backups.
CONSTANTS
    Users = {u1, u2, u3}
    Founder = u1
    NoJob = none
    Requests = {r1, r2}
    Serialized = TRUE
    Threads = {r1, r2}
    SingleWriter = TRUE
    Projects = {p1, p2}
    Limit = 1
    MaxFailures = 1
    Backend = "local"
    Browsers = {b1, b2}
    Tokens = {t1}
    MaxPasswords = 3
    MaxDevices = 1
    Codes = {c1, c2}
    Releases = {d1, d2}
    Archives = {a1, a2}
    MaxCrashes = 1
SPECIFICATION PartsSpec
SYMMETRY PartsSymmetry
INVARIANTS TypesOK OwnerRemains DeletedStaysClosed
    BlockStopsDeploys ErasureHolds
    RestoredServes ABackupRemains OldPasswordsAreOut
PROPERTIES CreationKeepsLimit
