\* Two organizations add the same hostname, one request dies; two writers of a secret;
\* two uploads of a site, one of which breaks off; two exports.
CONSTANTS
    Claims = {c1, c2}
    Requests = {r1, checker}
    Checker = checker
    NoClaim = none
    MaxCrashes = 1
    Rows = {x1, x2}
    Writers = {w1, w2}
    MaxVersions = 3
    NoRow = norow
    Deploys = {d1, d2}
    Paths = {index}
    ManifestPath = manifest
    Exports = {e1, e2}
    MaxBroken = 1
    MaxFaults = 1
SPECIFICATION PartsSpec
INVARIANTS TypesOK OneHolder Earned OneCertificate RoutingFollowsStatus
    VersionsAreHistory ServedIsComplete LinksServe
PROPERTIES PendingIsDecided
