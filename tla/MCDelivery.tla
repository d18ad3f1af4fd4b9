----------------------------- MODULE MCDelivery -----------------------------
(* What a published project rests on, for TLC: its hostname, its secrets and *)
(* its files; and the exports of its organization.  They share no state that *)
(* their properties read, so Init chooses the one that moves (`focus`) and   *)
(* the others keep their initial state.                                      *)
EXTENDS Domains, Secrets, StaticSites, DataExports

VARIABLE focus

TypesOK == TypeOK /\ SecretTypeOK /\ SiteTypeOK /\ ExportTypeOK

PartsInit ==
    /\ focus \in {"domains", "secrets", "sites", "exports"}
    /\ Init /\ SecretInit /\ SiteInit /\ ExportInit
    /\ focus # "sites" => backend = "local"

PartsNext ==
    /\ UNCHANGED focus
    /\ \/ focus = "domains" /\ Next /\ UNCHANGED <<secretVars, siteVars, exportVars>>
       \/ focus = "secrets" /\ SecretNext /\ UNCHANGED <<vars, siteVars, exportVars>>
       \/ focus = "sites" /\ SiteNext /\ UNCHANGED <<vars, secretVars, exportVars>>
       \/ focus = "exports" /\ ExportNext /\ UNCHANGED <<vars, secretVars, siteVars>>

PartsSpec ==
    /\ PartsInit
    /\ [][PartsNext]_<<focus, vars, secretVars, siteVars, exportVars>>
    /\ focus = "domains" =>
          WF_vars(CheckPending) /\ \A r \in Requests : WF_vars(Advance(r))
=============================================================================
