----------------------------- MODULE AppContract -----------------------------
(***************************************************************************)
(* The app contract (contracts/app): one instance per app account, each    *)
(* with its compose-hash and device allowlists, the boot verdict           *)
(* is_app_allowed, its ACL with the single role Owner, its pause switch    *)
(* and its upgrades.  AppLifecycle runs it against a clock.                *)
(*                                                                         *)
(* An app account created by the KMS holds no access key, so nothing can   *)
(* call its #[private] methods: while the shipped code runs, its state     *)
(* changes only by the calls below.  Other code does there what it likes.  *)
(* A call that panics changes nothing and is not a step.                   *)
(***************************************************************************)
EXTENDS AccessControl, Upgradable

CONSTANTS
    AppAccounts,     \* the account ids app contracts can live at
    Hashes, Devices, \* compose hashes and device ids, as the strings callers send
    InitArgs,        \* the arguments `new` is called with
    KmsIds,          \* the values of kms_contract_id
    Rewrites,        \* the contract states other code can leave at its account
    AppFeatures,     \* the feature keys passed to pa_pause_feature
    NoApp            \* no contract at this account

\* Option<String> is a set with at most one member.
Options(S) == {{}} \cup {{x} : x \in S}

InitArgsType ==
    [owner_id : Accounts, disable_upgrades : BOOLEAN, allow_any_device : BOOLEAN,
     initial_device_id : Options(Devices), initial_compose_hash : Options(Hashes)]

AppState ==
    [allowed_compose_hashes : SUBSET Hashes, allow_any_device : BOOLEAN,
     allowed_device_ids : SUBSET Devices, upgrades_disabled : BOOLEAN,
     kms_contract_id : KmsIds, acl : Acl({"Owner"}), paused : SUBSET AppFeatures,
     up : Upgrade]

ASSUME InitArgsAssumption == InitArgs \subseteq InitArgsType
ASSUME NoAppAssumption == NoApp \notin AppState
ASSUME RewritesAssumption == Rewrites \subseteq AppState

VARIABLE apps        \* the contract state at each app account, or NoApp

AppTypeOK == apps \in [AppAccounts -> AppState \cup {NoApp}]

-----------------------------------------------------------------------------
(* Initialisation *)

\* `new` panics on an initial device id or compose hash that is Some("").
InitSucceeds(args) == "" \notin args.initial_device_id \cup args.initial_compose_hash

Bug_new(args, kms) ==
    [allowed_compose_hashes |-> args.initial_device_id,
     allow_any_device       |-> args.allow_any_device,
     allowed_device_ids     |-> args.initial_compose_hash,
     upgrades_disabled      |-> args.disable_upgrades,
     kms_contract_id        |-> kms,
     acl                    |-> InitialAcl(args.owner_id, {"Owner"}),
     paused                 |-> {},
     up                     |-> InitialUpgrade]

new(args, kms) ==
    [allowed_compose_hashes |-> args.initial_compose_hash,
     allow_any_device       |-> args.allow_any_device,
     allowed_device_ids     |-> args.initial_device_id,
     upgrades_disabled      |-> args.disable_upgrades,
     kms_contract_id        |-> kms,
     acl                    |-> InitialAcl(args.owner_id, {"Owner"}),
     paused                 |-> {},
     up                     |-> InitialUpgrade]

-----------------------------------------------------------------------------
(* The methods. `#[access_control_any(roles(Role::Owner))]` guards each.   *)

Running(a) == apps[a] # NoApp /\ apps[a].up.code = Shipped

Bug_OwnerCalls(a) == Running(a)

OwnerCalls(a) == Running(a) /\ \E caller \in Accounts : HasRole(apps[a].acl, caller, "Owner")

add_compose_hash(a, h) ==
    /\ OwnerCalls(a)
    /\ h # ""
    /\ apps' = [apps EXCEPT ![a].allowed_compose_hashes = @ \cup {h}]

remove_compose_hash(a, h) ==
    /\ OwnerCalls(a)
    /\ apps' = [apps EXCEPT ![a].allowed_compose_hashes = @ \ {h}]

set_allow_any_device(a, allow) ==
    /\ OwnerCalls(a)
    /\ apps' = [apps EXCEPT ![a].allow_any_device = allow]

add_device(a, d) ==
    /\ OwnerCalls(a)
    /\ d # ""
    /\ apps' = [apps EXCEPT ![a].allowed_device_ids = @ \cup {d}]

remove_device(a, d) ==
    /\ OwnerCalls(a)
    /\ apps' = [apps EXCEPT ![a].allowed_device_ids = @ \ {d}]

disable_upgrades(a) ==
    /\ OwnerCalls(a)
    /\ apps' = [apps EXCEPT ![a].upgrades_disabled = TRUE]

\* The methods of the Upgradable plugin; none reads upgrades_disabled.
upgrade(a, t) ==
    /\ OwnerCalls(a)
    /\ \E up \in UpCalls(apps[a].up, t) : apps' = [apps EXCEPT ![a].up = up]

\* A deployment under way asks for no role again.
deploy_receipt(a) ==
    /\ Running(a)
    /\ \E up \in DeployReceipt(apps[a].up) : apps' = [apps EXCEPT ![a].up = up]

\* The account is its code's: other code may write any state there, deploy any code
\* (the shipped code over a state of its own included), or delete the account.
foreign_code(a) ==
    /\ apps[a] # NoApp /\ apps[a].up.code \in Codes
    /\ \E s \in Rewrites \cup {NoApp} : apps' = [apps EXCEPT ![a] = s]

\* The pa_* methods of the Pausable plugin; no method of the app is gated.
pause_feature(a) ==
    /\ OwnerCalls(a)
    /\ \E f \in AppFeatures : apps' = [apps EXCEPT ![a].paused = @ \cup {f}]

unpause_feature(a) ==
    /\ OwnerCalls(a)
    /\ \E f \in apps[a].paused : apps' = [apps EXCEPT ![a].paused = @ \ {f}]

\* The acl_* methods of the AccessControllable plugin.
change_acl(a) ==
    /\ Running(a)
    /\ \E caller \in Accounts : \E acl \in AclCalls(apps[a].acl, caller) :
          apps' = [apps EXCEPT ![a].acl = acl]

\* The boot verdict, for the two fields of AppBootInfo the code reads.
is_app_allowed(app, boot) ==
    /\ boot.compose_hash \in app.allowed_compose_hashes
    /\ app.allow_any_device \/ boot.device_id \in app.allowed_device_ids

-----------------------------------------------------------------------------
AppCall(a, t) ==
    \/ \E h \in Hashes : add_compose_hash(a, h) \/ remove_compose_hash(a, h)
    \/ \E allow \in BOOLEAN : set_allow_any_device(a, allow)
    \/ \E d \in Devices : add_device(a, d) \/ remove_device(a, d)
    \/ disable_upgrades(a)
    \/ upgrade(a, t)
    \/ pause_feature(a) \/ unpause_feature(a)
    \/ change_acl(a)

AppReceipt(a) == deploy_receipt(a) \/ foreign_code(a)

AppInit == apps = [a \in AppAccounts |-> NoApp]
=============================================================================
