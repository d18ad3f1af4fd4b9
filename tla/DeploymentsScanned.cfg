\* Even with one transaction at a time: one static deploy and its rollback.
CONSTANTS
    StaticDeploys = {s1}
    ContainerDeploys = {c1}
    StaticRollbacks = {rs}
    ContainerRollbacks = {rc1}
    NoDeployment = none
    Serialized = TRUE
SPECIFICATION Spec
INVARIANTS NoBlockedRunning
