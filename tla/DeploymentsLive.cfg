\* READ COMMITTED: two deploys and two rollbacks, whose row locks can form a
\* cycle.  Liveness, so no symmetry.
CONSTANTS
    StaticDeploys = {s1}
    ContainerDeploys = {c1}
    StaticRollbacks = {rs}
    ContainerRollbacks = {rc1}
    NoDeployment = none
    Serialized = FALSE
SPECIFICATION FairSpec
PROPERTIES RequestsFinish
