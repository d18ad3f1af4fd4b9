\* READ COMMITTED: a static and two container deploys, a rollback of each kind.
CONSTANTS
    StaticDeploys = {s1}
    ContainerDeploys = {c1, c2}
    StaticRollbacks = {rs}
    ContainerRollbacks = {rc1}
    NoDeployment = none
    Serialized = FALSE
SPECIFICATION Spec
SYMMETRY RequestSymmetry
INVARIANTS TypeOK OneLiveInstance OnlyCleanCodeRuns RecordsAgree
PROPERTIES ImplementsSlot
