--------------------------- MODULE MCOrganizations ---------------------------
(* What the platform keeps of its tenants, for TLC: members, projects, the  *)
(* account of a user and the backups of all that.  The parts share no state *)
(* that their properties read, so Init chooses the one that moves (`focus`) *)
(* and the others keep their initial state.                                 *)
EXTENDS MCMembership, Tenancy, Accounts, Backups

VARIABLE focus

TypesOK == TypeOK /\ TenancyTypeOK /\ AccountTypeOK /\ BackupTypeOK

PartsInit ==
    /\ focus \in {"members", "projects", "account", "backups"}
    /\ Init /\ TenancyInit /\ AccountInit /\ BackupInit

PartsNext ==
    /\ UNCHANGED focus
    /\ \/ focus = "members" /\ Next /\ UNCHANGED <<tenancyVars, accountVars, backupVars>>
       \/ focus = "projects" /\ TenancyNext /\ UNCHANGED <<vars, accountVars, backupVars>>
       \/ focus = "account" /\ AccountNext /\ UNCHANGED <<vars, tenancyVars, backupVars>>
       \/ focus = "backups" /\ BackupNext /\ UNCHANGED <<vars, tenancyVars, accountVars>>

PartsSpec ==
    PartsInit /\ [][PartsNext]_<<focus, vars, tenancyVars, accountVars, backupVars>>

PartsSymmetry == Permutations(Browsers)
=============================================================================
