------------------------------ MODULE KmsSystem ------------------------------
(***************************************************************************)
(* The whole system: the KMS contract (its ACL and pause switch, the app   *)
(* factory, the configuration, root-key requests, upgrades of its own code),*)
(* the app contracts it deploys, whose owners call and upgrade them from   *)
(* the moment they exist, and the MPC contract.  Every call and receipt is *)
(* one step; calls of accounts that administer a contract are bounded by   *)
(* MaxAdminCalls.                                                          *)
(*                                                                         *)
(* Once other code runs at the KMS account, its calls and callbacks are no *)
(* longer those of the KMS; receipts under way elsewhere still run.        *)
(***************************************************************************)
EXTENDS AppFactory, RootKey, KmsConfig

CONSTANT MaxAdminCalls
ASSUME MaxAdminCallsAssumption == MaxAdminCalls \in Nat

VARIABLES
    kms_up,        \* the code of the KMS and its upgrades
    replaced,      \* the app accounts whose owners have deployed other code
    adminCalls

upgradeVars == <<kms_up, replaced>>
systemVars == <<accessVars, factoryVars, rootKeyVars, configVars, upgradeVars, adminCalls>>

SystemTypeOK == kms_up \in Upgrade /\ replaced \subseteq AppAccounts /\ adminCalls \in 0..MaxAdminCalls

SystemInit ==
    /\ AccessInit /\ FactoryInit /\ RootKeyInit /\ ConfigInit
    /\ kms_up = InitialUpgrade /\ replaced = {}
    /\ adminCalls = 0

KmsRuns == kms_up.code = Shipped

-----------------------------------------------------------------------------
(* What owners and admins decide: roles, pauses, lists, info, code, app settings. *)

AllowlistCalls ==
    \E h \in HashStrings : add_kms_compose_hash(h) \/ remove_kms_compose_hash(h)

\* The methods of the Upgradable plugin.
KmsUpgradeCalls ==
    /\ Permitted({"Owner"})
    /\ kms_up' \in UpCalls(kms_up, now)
    /\ UNCHANGED replaced

KmsAdmin ==
    /\ KmsRuns
    /\ \/ AccessNext /\ UNCHANGED <<rootKeyVars, configVars, upgradeVars>>
       \/ AllowlistCalls /\ UNCHANGED <<accessVars, configVars, upgradeVars>>
       \/ ConfigNext /\ UNCHANGED <<accessVars, rootKeyVars, upgradeVars>>
       \/ KmsUpgradeCalls /\ UNCHANGED <<accessVars, rootKeyVars, configVars>>
    /\ UNCHANGED factoryVars

AppAdmin ==
    /\ \E a \in AppAccounts : AppCall(a, now)
    /\ UNCHANGED <<callVars, registered_apps, moneyVars, seen>>
    /\ UNCHANGED <<accessVars, rootKeyVars, configVars, upgradeVars>>

Admin ==
    /\ adminCalls < MaxAdminCalls
    /\ adminCalls' = adminCalls + 1
    /\ KmsAdmin \/ AppAdmin

-----------------------------------------------------------------------------
(* What users and the runtime do.                                          *)

\* Calls and callbacks that run the KMS's code.
KmsCalls == (\E c \in CallIds : register_app(c) \/ on_app_contract_deployed(c)) \/ ReadPage

BatchReceipts == \E c \in CallIds : ExecuteDeployment(c) \/ RefundDeposit(c)

\* Receipts and foreign code at the app accounts.  Foreign code also spends what the
\* account holds, and deleting the account pays it out.
AppReceipts ==
    /\ \E a \in AppAccounts :
          /\ AppReceipt(a)
          /\ replaced' = IF apps'[a] = NoApp \/ apps'[a].up.code = Shipped THEN replaced
                                                                         ELSE replaced \cup {a}
          /\ \/ Running(a) /\ UNCHANGED balance
             \/ ~Running(a) /\ \E left \in 0..balance[a] :
                   /\ apps'[a] = NoApp => left = 0
                   /\ balance' = [balance EXCEPT ![a] = left]
    /\ UNCHANGED <<callVars, registered_apps, kms_balance, seen, rootKeyVars, kms_up>>

KmsDeployment ==
    /\ KmsRuns
    /\ kms_up' \in DeployReceipt(kms_up)
    /\ UNCHANGED <<factoryVars, rootKeyVars, replaced>>

Traffic ==
    /\ \/ KmsRuns /\ KmsCalls /\ UNCHANGED <<rootKeyVars, upgradeVars>>
       \/ BatchReceipts /\ UNCHANGED <<rootKeyVars, upgradeVars>>
       \/ AppReceipts
       \/ KmsDeployment
       \/ \E r \in RequestIds : KmsRuns /\ request_kms_root_key(r) /\ UNCHANGED <<factoryVars, upgradeVars>>
       \/ \E r \in RequestIds : Mpc(r) /\ UNCHANGED <<factoryVars, upgradeVars>>
       \/ Tick /\ UNCHANGED <<factoryVars, upgradeVars, kms_allowed_compose_hashes, requests, progress>>
    /\ UNCHANGED <<accessVars, configVars, adminCalls>>

SystemNext == Admin \/ Traffic

SystemSpec == SystemInit /\ [][SystemNext]_systemVars

\* Receipts run; nobody has to administer anything.
Others == UNCHANGED <<accessVars, configVars, upgradeVars, adminCalls>>

FairSystemSpec ==
    /\ SystemSpec
    /\ \A c \in CallIds :
          /\ WF_systemVars((ExecuteDeployment(c) \/ RefundDeposit(c)) /\ UNCHANGED rootKeyVars /\ Others)
          /\ WF_systemVars(KmsRuns /\ on_app_contract_deployed(c) /\ UNCHANGED rootKeyVars /\ Others)
    /\ \A r \in RequestIds : WF_systemVars(Mpc(r) /\ UNCHANGED factoryVars /\ Others)

-----------------------------------------------------------------------------
(* Properties *)

Claimed(a) == \E c \in CallIds : Won(c) /\ calls[c].account = a

\* The registry lists only accounts whose creation reported success; unless their
\* owners have put other code there, they still run the shipped contract, tied to
\* this KMS (app.rs:54-71).
ListedRun ==
    \A a \in RegisteredApps :
        Claimed(a) /\ (a \notin replaced => Running(a) /\ apps[a].kms_contract_id = Kms)

\* While nobody holds Owner on the KMS, its allowlists, configuration and code stand
\* still and no app enters the pipeline, but for a deployment of code that was under
\* way already; calls already made still complete.
OwnerlessStandsStill ==
    [][Holders({"Owner"}) = {}
         => /\ UNCHANGED <<kms_allowed_compose_hashes, configVars>>
            /\ Pipeline' \subseteq Pipeline
            /\ kms_up.deploying = {} => UNCHANGED kms_up]_systemVars

\* Every registration comes to an end, paused or not, whatever the app's owner does:
\* its app is listed, or the call is rejected and the deposit is back at the KMS.
\* Only new code of the KMS itself can keep it from ending.
SettlesUnlessUpgraded ==
    \A c \in CallIds :
        status[c] # "none" ~> \/ status[c] = "registered" /\ is_app_registered(calls[c].account)
                              \/ status[c] = "rejected" /\ refund[c] = "paid"
                              \/ ~KmsRuns

\* With "ALL" paused, neither gated method starts anything: no app enters the
\* pipeline and no request reaches the MPC, until somebody unpauses (the two
\* #[pause] of app.rs:17 and lib.rs:153).
PauseAllStops ==
    [][\A r \in RequestIds :
          "ALL" \in paused
             => /\ Pipeline' \subseteq Pipeline
                /\ progress[r] = "none" => progress'[r] = "none"]_systemVars

\* README.md:266, "Only approved OS image hashes are allowed": a root key is
\* requested only for a VM whose OS image is on the list.
OsImageChecked ==
    [][\A r \in RequestIds :
          progress[r] = "none" /\ progress'[r] = "sent"
             => DstackAttestation(requests'[r].input).quote.os_image \in allowed_os_images]_systemVars

\* README.md:393, "Key derivation result is returned via callback to
\* `set_kms_info`": an answered request ends with the KMS info stored.
AnswerIsStored ==
    \A r \in RequestIds : progress[r] = "answered" ~> kms_info # NoInfo
=============================================================================
