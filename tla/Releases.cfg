\* SQLite: one write transaction at a time, an environment of containers only; and two
\* worker processes with up to four tasks for a static site and a container.
CONSTANTS
    StaticDeploys = {}
    ContainerDeploys = {c1, c2, c3}
    StaticRollbacks = {}
    ContainerRollbacks = {rc1, rc2}
    NoDeployment = none
    Serialized = TRUE
    Kind <- Sites
    Processes = {p1, p2}
    MaxSent = 4
    MaxKills = 1
SPECIFICATION PartsSpec
SYMMETRY PartsSymmetry
INVARIANTS AtMostOneRunning TablesAgree OnlyScannedGoesLive
