----------------------------- MODULE MCReleases -----------------------------
(* The two ways to release that the repository holds, for TLC: the requests *)
(* of the API and the tasks of the deployment worker.  They share no state, *)
(* so Init chooses the one that moves (`focus`) and the other keeps its     *)
(* initial state.                                                           *)
EXTENDS MCDeployments, DeploymentWorker

\* A static site and a container.
Sites == [site |-> "static", app |-> "container"]

VARIABLE focus

PartsInit ==
    /\ focus \in {"requests", "worker"}
    /\ Init /\ WorkerInit

PartsNext ==
    /\ UNCHANGED focus
    /\ \/ focus = "requests" /\ Next /\ UNCHANGED workerVars
       \/ focus = "worker" /\ WorkerNext /\ UNCHANGED vars

PartsSpec == PartsInit /\ [][PartsNext]_<<focus, vars, workerVars>>

PartsSymmetry == RequestSymmetry \cup Permutations(Processes)
=============================================================================
