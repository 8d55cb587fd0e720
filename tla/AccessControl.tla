---------------------------- MODULE AccessControl ----------------------------
(***************************************************************************)
(* The access-control list that `#[access_control(role_type(Role))]` adds  *)
(* to a contract (the near-plugins library, modelled from its use in the   *)
(* KMS and the app contract).  An ACL is a record: super admins, who act   *)
(* as admin of every role, the admins of each role, and its grantees.      *)
(* `#[access_control_any(roles(R))]` looks at the grantees of R alone.     *)
(***************************************************************************)
EXTENDS FiniteSets

CONSTANT Accounts    \* the accounts that call the contracts

Acl(roles) == [super_admins : SUBSET Accounts,
               admins       : [roles -> SUBSET Accounts],
               grantees     : [roles -> SUBSET Accounts]]

\* What both constructors leave: add_super_admin_unchecked(owner) and
\* grant_role_unchecked(Role::Owner, owner).
InitialAcl(owner, roles) ==
    [super_admins |-> {owner},
     admins       |-> [r \in roles |-> {}],
     grantees     |-> [r \in roles |-> {a \in {owner} : r = "Owner"}]]

HasRole(acl, caller, r) == caller \in acl.grantees[r]

Bug_Administers(acl, caller) ==
    {r \in DOMAIN acl.admins :
        acl.admins[r] = {} \/ caller \in acl.super_admins \cup acl.admins[r]}

\* The roles the caller administers: acl_is_admin.
Administers(acl, caller) ==
    {r \in DOMAIN acl.admins : caller \in acl.super_admins \cup acl.admins[r]}

-----------------------------------------------------------------------------
(* One operator per method: the ACLs one call by the caller can lead to.   *)

acl_add_super_admin(acl, caller) ==
    {[acl EXCEPT !.super_admins = @ \cup {x}] : x \in {y \in Accounts : caller \in acl.super_admins}}

acl_revoke_super_admin(acl, caller) ==
    {[acl EXCEPT !.super_admins = @ \ {x}] : x \in {y \in Accounts : caller \in acl.super_admins}}

acl_add_admin(acl, caller) ==
    {[acl EXCEPT !.admins[r] = @ \cup {x}] : r \in Administers(acl, caller), x \in Accounts}

acl_revoke_admin(acl, caller) ==
    {[acl EXCEPT !.admins[r] = @ \ {x}] : r \in Administers(acl, caller), x \in Accounts}

acl_renounce_admin(acl, caller) ==
    {[acl EXCEPT !.admins[r] = @ \ {caller}] : r \in DOMAIN acl.admins}

acl_grant_role(acl, caller) ==
    {[acl EXCEPT !.grantees[r] = @ \cup {x}] : r \in Administers(acl, caller), x \in Accounts}

acl_revoke_role(acl, caller) ==
    {[acl EXCEPT !.grantees[r] = @ \ {x}] : r \in Administers(acl, caller), x \in Accounts}

acl_renounce_role(acl, caller) ==
    {[acl EXCEPT !.grantees[r] = @ \ {caller}] : r \in DOMAIN acl.grantees}

AclCalls(acl, caller) ==
    acl_add_super_admin(acl, caller) \cup acl_revoke_super_admin(acl, caller)
    \cup acl_add_admin(acl, caller) \cup acl_revoke_admin(acl, caller)
    \cup acl_renounce_admin(acl, caller) \cup acl_grant_role(acl, caller)
    \cup acl_revoke_role(acl, caller) \cup acl_renounce_role(acl, caller)

\* Nobody can change this ACL by a call: no super admin and no role admin.
Unadministered(acl) == acl.super_admins = {} /\ \A r \in DOMAIN acl.admins : acl.admins[r] = {}
=============================================================================
