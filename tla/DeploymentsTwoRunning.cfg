\* READ COMMITTED: two deploys activate at the same time.
CONSTANTS
    StaticDeploys = {s1, s2}
    ContainerDeploys = {c1}
    StaticRollbacks = {}
    ContainerRollbacks = {}
    NoDeployment = none
    Serialized = FALSE
SPECIFICATION Spec
SYMMETRY RequestSymmetry
INVARIANTS AtMostOneRunning
