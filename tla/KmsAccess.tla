------------------------------ MODULE KmsAccess ------------------------------
(***************************************************************************)
(* Who may call what on the KMS contract (contracts/kms/src/lib.rs): its   *)
(* ACL over the roles Owner, Dao, PauseManager and UnpauseManager, and the *)
(* features paused with the Pausable plugin.  Every other module of the    *)
(* KMS contract extends this one and guards its methods with Permitted and *)
(* NotPaused.                                                              *)
(***************************************************************************)
EXTENDS AccessControl

CONSTANTS
    OwnerId,     \* the owner_id argument of `new`
    KmsRoles,    \* the roles handed out in the instance
    Features     \* the feature keys passed to pa_pause_feature

Role == {"Owner", "Dao", "PauseManager", "UnpauseManager"}

\* The methods marked #[pause], and the key that pauses all of them.
PausableMethods == {"register_app", "request_kms_root_key"}

ASSUME OwnerAssumption == OwnerId \in Accounts
ASSUME RolesAssumption == KmsRoles \subseteq Role /\ "Owner" \in KmsRoles
ASSUME FeaturesAssumption == Features \subseteq PausableMethods \cup {"ALL"}

VARIABLES acl,       \* the access-control list
          paused     \* the paused features

accessVars == <<acl, paused>>

AccessTypeOK == acl \in Acl(KmsRoles) /\ paused \subseteq Features

AccessInit ==
    /\ acl = InitialAcl(OwnerId, KmsRoles)
    /\ paused = {}

-----------------------------------------------------------------------------
\* #[access_control_any(roles(...))]: some account with one of the roles calls.
Permitted(roles) ==
    \E caller \in Accounts, r \in roles \cap KmsRoles : HasRole(acl, caller, r)

Bug_NotPaused(method) == method \notin paused

\* #[pause]
NotPaused(method) == paused \cap {method, "ALL"} = {}

acl_change ==
    /\ \E caller \in Accounts : acl' \in AclCalls(acl, caller)
    /\ UNCHANGED paused

\* #[private]: only the KMS account, whose deployer keeps its key, calls it.
acl_init_super_admin ==
    /\ acl.super_admins = {}
    /\ \E a \in Accounts : acl' = [acl EXCEPT !.super_admins = {a}]
    /\ UNCHANGED paused

pa_pause_feature ==
    /\ Permitted({"Owner", "PauseManager"})
    /\ \E f \in Features : paused' = paused \cup {f}
    /\ UNCHANGED acl

pa_unpause_feature ==
    /\ Permitted({"Owner", "UnpauseManager"})
    /\ \E f \in paused : paused' = paused \ {f}
    /\ UNCHANGED acl

AccessNext == acl_change \/ acl_init_super_admin \/ pa_pause_feature \/ pa_unpause_feature
AccessSpec == AccessInit /\ [][AccessNext]_accessVars

-----------------------------------------------------------------------------
(* Properties *)

Holders(roles) == UNION {acl.grantees[r] : r \in roles \cap KmsRoles}

\* Nobody is left to unpause, and nobody to appoint one.
Locked == Unadministered(acl) /\ Holders({"Owner", "UnpauseManager"}) = {}

\* Roles can be renounced or revoked until nobody is left to unpause.  A pause then
\* lasts, whoever calls what and in whatever order: no feature is unpaused, and no
\* call brings back a holder or an admin.  Only the contract's own key does, by
\* appointing a super admin (the roles of lib.rs:82-85, the ACL of lib.rs:74).
PauseLatches ==
    [][Locked => /\ paused \subseteq paused'
                 /\ Locked' \/ acl'.super_admins # {}]_accessVars
=============================================================================
