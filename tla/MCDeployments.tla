--------------------------- MODULE MCDeployments ---------------------------
(* Small environments for TLC: the requests are the only unbounded input.  *)
EXTENDS Deployments, TLC

\* Requests of one kind are interchangeable.
RequestSymmetry ==
    Permutations(StaticDeploys) \cup Permutations(ContainerDeploys)
        \cup Permutations(StaticRollbacks) \cup Permutations(ContainerRollbacks)
=============================================================================
