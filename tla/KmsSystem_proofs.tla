--------------------------- MODULE KmsSystem_proofs --------------------------
(***************************************************************************)
(* Proofs about the composed system, for every set of calls, accounts,     *)
(* requests, codes and instants.  FactoryInv does not hold here: owners    *)
(* change their apps, and foreign code rewrites them, spends their deposits*)
(* and gives accounts up, which then are claimed again.  SystemInv says    *)
(* what survives: where there is a contract, a call has claimed the        *)
(* account, and a claimed account runs the shipped contract of this KMS    *)
(* unless its owner replaced it.                                           *)
(***************************************************************************)
EXTENDS KmsSystem, AppFactory_proofs, RootKey_proofs, KmsConfig_proofs

Tied ==
    \A a \in AppAccounts :
        apps[a] # NoApp => Claimed(a) /\ (a \notin replaced => apps[a].kms_contract_id = Kms)

ClaimedRun == \A a \in AppAccounts : Claimed(a) /\ a \notin replaced => Running(a)

ListedClaimed == \A a \in RegisteredApps : a \in AppAccounts /\ Claimed(a)

AppsInv == FactoryTypeOK /\ Owed /\ Tied /\ ClaimedRun /\ ListedClaimed

\* A request has a state, as far as it is.
Progress == progress \in [RequestIds -> {"none", "sent", "answered", "failed"}]

SystemInv == SystemTypeOK /\ now \in Instants /\ Progress /\ AppsInv

-----------------------------------------------------------------------------
(* The initial state, and steps that leave the factory alone *)

\* Nothing is claimed or replaced at first (lib.rs:128-148).
LEMMA SystemInvInit == SystemInit => SystemInv
<1> SUFFICES ASSUME SystemInit PROVE SystemInv
  OBVIOUS
<1>1. SystemTypeOK /\ now \in Instants /\ Progress
  BY MaxAdminCallsAssumption
     DEF Progress, SystemInit, SystemTypeOK, InitialUpgrade, Upgrade, RootKeyInit, ClockInit
<1>2. FactoryTypeOK
  BY DEF SystemInit, FactoryInit, AppInit, FactoryTypeOK, AppTypeOK, Status
<1>3. Owed /\ Tied /\ ClaimedRun /\ ListedClaimed
  BY DEF SystemInit, FactoryInit, AppInit, Owed, Tied, ClaimedRun, ListedClaimed, Claimed, Won,
         RegisteredApps
<1>4. QED
  BY <1>1, <1>2, <1>3 DEF SystemInv, AppsInv

\* Claims are a matter of the calls and how far they are.
LEMMA ClaimsKept == ASSUME UNCHANGED <<calls, status>> PROVE \A a : Claimed(a)' <=> Claimed(a)
  BY DEF Claimed, Won

\* The KMS's other calls, requests and the clock leave the factory alone.
LEMMA FactoryStands ==
    ASSUME AppsInv, UNCHANGED <<factoryVars, replaced>>
    PROVE  AppsInv' /\ \A b : Claimed(b)' <=> Claimed(b)
<1> USE DEF AppsInv
<1>1. /\ UNCHANGED <<calls, status, refund, apps, registered_apps, balance, kms_balance, seen, replaced>>
  BY DEF factoryVars, callVars, moneyVars
<1>2. FactoryTypeOK' /\ Owed'
  BY <1>1 DEF FactoryTypeOK, AppTypeOK, Owed
<1>3. Tied' /\ ClaimedRun' /\ ListedClaimed'
  BY <1>1, ClaimsKept DEF Tied, ClaimedRun, ListedClaimed, Running, RegisteredApps
<1>4. QED
  BY <1>1, <1>2, <1>3, ClaimsKept

-----------------------------------------------------------------------------
(* Registration *)

\* A call, a failed batch, a refund, a page or the callback of a failed batch claims
\* nothing and lists nothing.
LEMMA ClaimNothing ==
    ASSUME AppsInv, FactoryTypeOK', Owed', UNCHANGED <<apps, registered_apps, replaced>>,
           \A c \in CallIds : Won(c)' <=> Won(c),
           \A c \in CallIds : Won(c) => calls'[c] = calls[c]
    PROVE  AppsInv' /\ \A b : Claimed(b)' <=> Claimed(b)
<1> USE DEF AppsInv
<1>1. \A a : Claimed(a)' <=> Claimed(a)
  BY DEF Claimed
<1>2. Tied' /\ ClaimedRun' /\ ListedClaimed'
  BY <1>1 DEF Tied, ClaimedRun, ListedClaimed, Running, RegisteredApps
<1>3. QED
  BY <1>1, <1>2

\* register_app (app.rs:16-61).
LEMMA CallClaimsNothing ==
    ASSUME AppsInv, NEW c \in CallIds, register_app(c), UNCHANGED replaced
    PROVE  AppsInv' /\ \A b : Claimed(b)' <=> Claimed(b)
<1> USE DEF AppsInv
<1>1. FactoryTypeOK'
  BY RegisterType
<1>2. /\ status[c] = "none" /\ status' = [status EXCEPT ![c] = "deploying"]
      /\ UNCHANGED <<refund, apps, registered_apps>>
      /\ \A d \in CallIds : d # c => calls'[d] = calls[d]
  BY DEF register_app, FactoryTypeOK
<1>3. \A d \in CallIds : (Won(d)' <=> Won(d)) /\ (Won(d) => d # c)
  BY <1>2 DEF Won, FactoryTypeOK
<1>4. Owed'
  BY <1>2 DEF Owed, FactoryTypeOK
<1>5. QED
  BY <1>1, <1>2, <1>3, <1>4, ClaimNothing

\* The batch of a call that fails (app.rs:44-53).
LEMMA UndoneClaimsNothing ==
    ASSUME AppsInv, NEW c \in CallIds, ExecuteDeployment(c), BatchUndone(c), UNCHANGED replaced
    PROVE  AppsInv' /\ \A b : Claimed(b)' <=> Claimed(b)
<1> USE DEF AppsInv
<1>1. FactoryTypeOK'
  BY DeploymentType
<1>2. /\ status[c] = "deploying" /\ status' = [status EXCEPT ![c] = "failed"]
      /\ refund' = [refund EXCEPT ![c] = "due"] /\ UNCHANGED <<apps, registered_apps, calls>>
  BY DEF ExecuteDeployment, BatchUndone
<1>3. (\A d \in CallIds : Won(d)' <=> Won(d)) /\ Owed'
  BY <1>2 DEF Won, FactoryTypeOK, Owed
<1>4. QED
  BY <1>1, <1>2, <1>3, ClaimNothing

\* The batch of a call that succeeds claims its account, whether for the first time
\* or again after foreign code had given it up, and leaves the shipped contract there.
LEMMA BatchClaims ==
    ASSUME AppsInv, NEW c \in CallIds, ExecuteDeployment(c), BatchDone(c), UNCHANGED replaced
    PROVE  /\ AppsInv'
           /\ \A a : Claimed(a)' <=> Claimed(a) \/ a = calls[c].account
           /\ calls[c].account \in AppAccounts /\ UNCHANGED registered_apps
<1> USE DEF AppsInv
<1> DEFINE a == calls[c].account
<1>1. FactoryTypeOK'
  BY DeploymentType
<1>2. /\ status[c] = "deploying" /\ status' = [status EXCEPT ![c] = "deployed"]
      /\ apps[a] = NoApp /\ apps' = [apps EXCEPT ![a] = new(calls[c].args, Kms)]
      /\ UNCHANGED <<calls, refund, registered_apps>>
  BY DEF ExecuteDeployment, BatchDone, BatchSucceeds
<1>3. a \in AppAccounts /\ calls[c].args \in InitArgs
  BY <1>2 DEF FactoryTypeOK, Call
<1>4. /\ new(calls[c].args, Kms) # NoApp /\ new(calls[c].args, Kms).kms_contract_id = Kms
      /\ new(calls[c].args, Kms).up.code = Shipped
  BY <1>3, NewType DEF new, InitialUpgrade
<1>5. /\ apps'[a] = new(calls[c].args, Kms)
      /\ \A b \in AppAccounts : b # a => apps'[b] = apps[b]
  BY <1>2, <1>3 DEF FactoryTypeOK, AppTypeOK
<1>6. Won(c)' /\ \A d \in CallIds : d # c => (Won(d)' <=> Won(d))
  BY <1>2 DEF Won, FactoryTypeOK
<1>7. ~Won(c)
  BY <1>2 DEF Won
<1>8. \A b : Claimed(b)' <=> Claimed(b) \/ b = a
  BY <1>2, <1>6, <1>7 DEF Claimed
<1>9. Owed'
  BY <1>2 DEF Owed, FactoryTypeOK
<1>10. Tied' /\ ClaimedRun' /\ ListedClaimed'
  <2>1. Tied'
    BY <1>4, <1>5, <1>8 DEF Tied
  <2>2. ClaimedRun'
    BY <1>4, <1>5, <1>8 DEF ClaimedRun, Running
  <2>3. ListedClaimed'
    BY <1>2, <1>8 DEF ListedClaimed, RegisteredApps
  <2>4. QED
    BY <2>1, <2>2, <2>3
<1>11. QED
  BY <1>1, <1>2, <1>3, <1>8, <1>9, <1>10

\* The refund (app.rs:44-53).
LEMMA RefundClaimsNothing ==
    ASSUME AppsInv, NEW c \in CallIds, RefundDeposit(c), UNCHANGED replaced
    PROVE  AppsInv' /\ \A b : Claimed(b)' <=> Claimed(b)
<1> USE DEF AppsInv
<1>1. FactoryTypeOK'
  BY RefundType
<1>2. /\ refund[c] = "due" /\ refund' = [refund EXCEPT ![c] = "paid"]
      /\ UNCHANGED <<calls, status, apps, registered_apps>>
  BY DEF RefundDeposit
<1>3. (\A d \in CallIds : Won(d)' <=> Won(d)) /\ Owed'
  BY <1>2 DEF Won, FactoryTypeOK, Owed
<1>4. QED
  BY <1>1, <1>2, <1>3, ClaimNothing

\* The callback lists a claimed account that is not yet listed, or nothing
\* (app.rs:63-79).
LEMMA CallbackLists ==
    ASSUME AppsInv, NEW c \in CallIds, on_app_contract_deployed(c), UNCHANGED replaced
    PROVE  /\ AppsInv'
           /\ \A a : Claimed(a)' <=> Claimed(a)
           /\ UNCHANGED apps
           /\ \/ UNCHANGED registered_apps
              \/ \E a \in AppAccounts : /\ Claimed(a) /\ a \notin RegisteredApps
                                        /\ registered_apps' = Append(registered_apps, a)
<1> USE DEF AppsInv
<1> DEFINE a == calls[c].account
<1>1. FactoryTypeOK'
  BY CallbackType
<1>2. /\ UNCHANGED <<calls, refund, apps>> /\ a \in AppAccounts
  BY DEF on_app_contract_deployed, FactoryTypeOK, Call
<1>3. \A d \in CallIds : Won(d)' <=> Won(d)
  BY DEF on_app_contract_deployed, Won, FactoryTypeOK
<1>4. \A b : Claimed(b)' <=> Claimed(b)
  BY <1>2, <1>3 DEF Claimed
<1>5. Owed'
  BY DEF on_app_contract_deployed, Owed, FactoryTypeOK
<1>6. \/ UNCHANGED registered_apps
      \/ /\ Claimed(a) /\ a \notin RegisteredApps
         /\ registered_apps' = Append(registered_apps, a)
  BY DEF on_app_contract_deployed, Insert, RegisteredApps, Claimed, Won
<1>7. CASE UNCHANGED registered_apps
  BY <1>1, <1>2, <1>3, <1>4, <1>5, <1>7, ClaimNothing
<1>8. CASE /\ Claimed(a) /\ a \notin RegisteredApps
           /\ registered_apps' = Append(registered_apps, a)
  <2>1. RegisteredApps' = RegisteredApps \cup {a}
    BY <1>2, <1>8, ListGrows DEF Insert, RegisteredApps
  <2>2. Tied' /\ ClaimedRun' /\ ListedClaimed'
    BY <1>2, <1>4, <1>8, <2>1 DEF Tied, ClaimedRun, ListedClaimed, Running
  <2>3. QED
    BY <1>1, <1>2, <1>4, <1>5, <1>8, <2>2
<1>9. QED
  BY <1>6, <1>7, <1>8

\* A page (view.rs:12-19).
LEMMA PageClaimsNothing ==
    ASSUME AppsInv, ReadPage, UNCHANGED replaced
    PROVE  AppsInv' /\ \A b : Claimed(b)' <=> Claimed(b)
<1> USE DEF AppsInv
<1>1. UNCHANGED <<calls, status, refund, apps, registered_apps, balance, kms_balance>>
  BY DEF ReadPage, callVars, moneyVars
<1>2. FactoryTypeOK'
  BY <1>1, PageType DEF FactoryTypeOK, AppTypeOK
<1>3. (\A d \in CallIds : Won(d)' <=> Won(d)) /\ Owed'
  BY <1>1 DEF Won, Owed
<1>4. QED
  BY <1>1, <1>2, <1>3, ClaimNothing

-----------------------------------------------------------------------------
(* The apps *)

\* An app whose state becomes s, or which becomes NoApp, to the rest of the system.
AppBecomes(a, s) ==
    /\ apps' = [apps EXCEPT ![a] = s]
    /\ apps[a] # NoApp
    /\ replaced \subseteq replaced'
    /\ a \notin replaced' => /\ s # NoApp /\ s.up.code = Shipped
                             /\ s.kms_contract_id = apps[a].kms_contract_id
    /\ balance' \in [AppAccounts -> Nat]
    /\ UNCHANGED <<callVars, registered_apps, kms_balance, seen>>

\* An account that changes as its owner, its receipts or foreign code change it stays
\* claimed, and is as the KMS created it or known as replaced.
LEMMA AppChanges ==
    ASSUME AppsInv, NEW a \in AppAccounts, NEW s \in AppState \cup {NoApp}, AppBecomes(a, s)
    PROVE  AppsInv' /\ \A b : Claimed(b)' <=> Claimed(b)
<1> USE DEF AppsInv, AppBecomes
<1>1. /\ UNCHANGED <<calls, status, refund, registered_apps, kms_balance, seen>>
      /\ apps \in [AppAccounts -> AppState \cup {NoApp}]
  BY DEF callVars, FactoryTypeOK, AppTypeOK
<1>2. apps'[a] = s /\ \A b \in AppAccounts : b # a => apps'[b] = apps[b]
  BY <1>1
<1>3. FactoryTypeOK' /\ Owed'
  BY <1>1 DEF FactoryTypeOK, AppTypeOK, Owed
<1>4. \A b : Claimed(b)' <=> Claimed(b)
  BY <1>1, ClaimsKept
<1>5. Tied'
  BY <1>2, <1>4 DEF Tied
<1>6. ClaimedRun'
  BY <1>2, <1>4 DEF ClaimedRun, Running
<1>7. ListedClaimed'
  BY <1>1, <1>4 DEF ListedClaimed, RegisteredApps
<1>8. QED
  BY <1>3, <1>4, <1>5, <1>6, <1>7

\* An owner's call (app/src/lib.rs:28-175).
LEMMA OwnerChanges ==
    ASSUME AppsInv, now \in Instants, AppAdmin
    PROVE  AppsInv' /\ \A b : Claimed(b)' <=> Claimed(b)
<1>1. PICK a \in AppAccounts : AppCall(a, now)
  BY DEF AppAdmin
<1>2. AppTypeOK /\ now \in Nat
  BY InstantsAssumption DEF AppsInv, FactoryTypeOK
<1>3. Running(a) /\ \E s : CallLeaves(apps[a], s, now) /\ apps' = [apps EXCEPT ![a] = s]
  BY <1>1, <1>2, CallShape
<1>4. PICK s : CallLeaves(apps[a], s, now) /\ apps' = [apps EXCEPT ![a] = s]
  BY <1>3
<1>5. /\ s \in AppState /\ s # NoApp /\ s.up.code = Shipped
      /\ s.kms_contract_id = apps[a].kms_contract_id /\ apps[a] # NoApp
  BY <1>3, <1>4, NoAppAssumption DEF CallLeaves, Running
<1>6. /\ replaced' = replaced /\ UNCHANGED <<callVars, registered_apps, kms_balance, seen>>
      /\ balance' \in [AppAccounts -> Nat]
  BY DEF AppAdmin, upgradeVars, moneyVars, AppsInv, FactoryTypeOK
<1>7. AppBecomes(a, s)
  BY <1>4, <1>5, <1>6 DEF AppBecomes
<1>8. QED
  BY <1>5, <1>7, AppChanges

\* A deployment at an app, or what foreign code does at its account.
LEMMA ReceiptChanges ==
    ASSUME AppsInv, AppReceipts
    PROVE  /\ AppsInv' /\ replaced' \subseteq replaced \cup AppAccounts
           /\ \A b : Claimed(b)' <=> Claimed(b)
<1>1. PICK a \in AppAccounts :
         /\ AppReceipt(a)
         /\ replaced' = IF apps'[a] = NoApp \/ apps'[a].up.code = Shipped THEN replaced
                                                                         ELSE replaced \cup {a}
         /\ UNCHANGED balance \/ \E left \in 0..balance[a] : balance' = [balance EXCEPT ![a] = left]
  BY DEF AppReceipts
<1>2. AppTypeOK /\ UNCHANGED <<callVars, registered_apps, kms_balance, seen>>
  BY DEF AppsInv, FactoryTypeOK, AppReceipts
<1>3. balance' \in [AppAccounts -> Nat]
  <2>1. balance \in [AppAccounts -> Nat]
    BY DEF AppsInv, FactoryTypeOK
  <2>2. QED
    BY <1>1, <2>1
<1>4. /\ replaced \subseteq replaced' /\ replaced' \subseteq replaced \cup {a}
      /\ replaced' \subseteq replaced \cup AppAccounts
  BY <1>1
<1>5. CASE /\ Running(a)
           /\ \E u \in DeployReceipt(apps[a].up) :
                 apps' = [apps EXCEPT ![a] = [apps[a] EXCEPT !.up = u]]
  <2>1. PICK u \in DeployReceipt(apps[a].up) :
           apps' = [apps EXCEPT ![a] = [apps[a] EXCEPT !.up = u]]
    BY <1>5
  <2> DEFINE s == [apps[a] EXCEPT !.up = u]
  <2>2. apps[a] \in AppState /\ apps[a] # NoApp /\ apps[a].up \in Upgrade
    BY <1>2, <1>5 DEF AppTypeOK, Running, AppState
  <2>3. u \in Upgrade
    BY <2>1, <2>2, DeployReceiptType
  <2>4. s \in AppState /\ s.up = u /\ s.kms_contract_id = apps[a].kms_contract_id
    BY <2>2, <2>3 DEF AppState
  <2>5. s # NoApp /\ apps'[a] = s
    BY <1>2, <2>1, <2>4, NoAppAssumption DEF AppTypeOK
  <2>6. a \in replaced' \/ s.up.code = Shipped
    BY <1>1, <2>5
  <2>7. AppBecomes(a, s)
    BY <1>2, <1>3, <1>4, <2>1, <2>2, <2>4, <2>5, <2>6 DEF AppBecomes
  <2>8. QED
    BY <1>4, <2>4, <2>7, AppChanges
<1>6. CASE /\ ~Running(a) /\ apps[a] # NoApp
           /\ \E s \in AppState \cup {NoApp} : apps' = [apps EXCEPT ![a] = s]
  <2>1. PICK s \in AppState \cup {NoApp} : apps' = [apps EXCEPT ![a] = s]
    BY <1>6
  <2>2. a \in replaced
    BY <1>6 DEF AppsInv, Tied, ClaimedRun
  <2>3. AppBecomes(a, s)
    BY <1>2, <1>3, <1>4, <1>6, <2>1, <2>2 DEF AppBecomes
  <2>4. QED
    BY <1>4, <2>3, AppChanges
<1>7. QED
  BY <1>1, <1>2, <1>5, <1>6, ReceiptShape

-----------------------------------------------------------------------------
(* Every step *)

\* What a step of the system is to the factory and the apps.
FactoryStep ==
    \/ \E c \in CallIds : (register_app(c) \/ Receipts(c)) /\ UNCHANGED replaced
    \/ ReadPage /\ UNCHANGED replaced
    \/ AppAdmin
    \/ AppReceipts
    \/ UNCHANGED <<factoryVars, replaced>>

\* A step of the composed system is one of these.
LEMMA SystemStep == [SystemNext]_systemVars => FactoryStep
<1> SUFFICES ASSUME [SystemNext]_systemVars PROVE FactoryStep
  OBVIOUS
<1>1. CASE UNCHANGED systemVars
  BY <1>1 DEF systemVars, upgradeVars, FactoryStep
<1>2. CASE Admin
  <2>1. CASE KmsAdmin
    BY <2>1 DEF KmsAdmin, KmsUpgradeCalls, upgradeVars, FactoryStep
  <2>2. QED
    BY <1>2, <2>1 DEF Admin, FactoryStep
<1>3. CASE Traffic
  <2>1. CASE (KmsCalls \/ BatchReceipts) /\ UNCHANGED upgradeVars
    BY <2>1 DEF KmsCalls, BatchReceipts, upgradeVars, FactoryStep, Receipts
  <2>2. CASE KmsDeployment
    BY <2>2 DEF KmsDeployment, FactoryStep
  <2>3. CASE UNCHANGED <<factoryVars, upgradeVars>>
    BY <2>3 DEF upgradeVars, FactoryStep
  <2>4. QED
    BY <1>3, <2>1, <2>2, <2>3 DEF Traffic, FactoryStep
<1>4. QED
  BY <1>1, <1>2, <1>3 DEF SystemNext

\* The code of the KMS changes by its upgrade methods and their receipts.
LEMMA KmsUpStep ==
    ASSUME SystemTypeOK, now \in Instants, [SystemNext]_systemVars
    PROVE  kms_up' \in Upgrade
<1>1. kms_up \in Upgrade /\ now \in Nat
  BY InstantsAssumption DEF SystemTypeOK
<1>2. \/ UNCHANGED kms_up \/ kms_up' \in UpCalls(kms_up, now) \/ kms_up' \in DeployReceipt(kms_up)
  <2>1. CASE Admin
    BY <2>1 DEF Admin, KmsAdmin, AppAdmin, KmsUpgradeCalls, upgradeVars
  <2>2. CASE Traffic
    BY <2>2 DEF Traffic, AppReceipts, KmsDeployment, upgradeVars
  <2>3. QED
    BY <2>1, <2>2 DEF SystemNext, systemVars, upgradeVars
<1>3. QED
  BY <1>1, <1>2, UpCallsType, DeployReceiptType

\* Every step keeps the invariant of the apps.
LEMMA AppsInvNext ==
    ASSUME AppsInv, now \in Instants, FactoryStep
    PROVE  AppsInv' /\ (replaced \subseteq AppAccounts => replaced' \subseteq AppAccounts)
<1>1. ASSUME NEW c \in CallIds, (register_app(c) \/ Receipts(c)) /\ UNCHANGED replaced
      PROVE  AppsInv'
  BY <1>1, CallClaimsNothing, UndoneClaimsNothing, BatchClaims, RefundClaimsNothing, CallbackLists
     DEF Receipts, ExecuteDeployment
<1>2. CASE ReadPage /\ UNCHANGED replaced
  BY <1>2, PageClaimsNothing
<1>3. CASE AppAdmin
  BY <1>3, OwnerChanges DEF AppAdmin, upgradeVars
<1>4. CASE AppReceipts
  BY <1>4, ReceiptChanges
<1>5. CASE UNCHANGED <<factoryVars, replaced>>
  BY <1>5, FactoryStands
<1>6. QED
  BY <1>1, <1>2, <1>3, <1>4, <1>5 DEF FactoryStep

\* Every step keeps the invariant.
LEMMA SystemInvNext == SystemInv /\ [SystemNext]_systemVars => SystemInv'
<1> SUFFICES ASSUME SystemInv, [SystemNext]_systemVars PROVE SystemInv'
  OBVIOUS
<1>1. now' \in Instants /\ Progress'
  <2>1. CASE Admin
    BY <2>1 DEF SystemInv, Progress, Admin, KmsAdmin, AppAdmin, AllowlistCalls, add_kms_compose_hash,
                remove_kms_compose_hash, rootKeyVars
  <2>2. CASE Traffic
    <3>1. CASE UNCHANGED rootKeyVars
      BY <3>1 DEF SystemInv, Progress, rootKeyVars
    <3>2. ASSUME NEW r \in RequestIds, request_kms_root_key(r) \/ Mpc(r)
          PROVE  now' \in Instants /\ Progress'
      BY <3>2 DEF SystemInv, Progress, request_kms_root_key, Mpc, request_app_private_key, MpcFails
    <3>3. CASE Tick /\ UNCHANGED progress
      BY <3>3 DEF SystemInv, Progress, Tick
    <3>4. QED
      BY <2>2, <3>1, <3>2, <3>3 DEF Traffic, AppReceipts, KmsDeployment
  <2>3. QED
    BY <2>1, <2>2 DEF SystemInv, Progress, SystemNext, systemVars, rootKeyVars
<1>2. kms_up' \in Upgrade
  BY KmsUpStep DEF SystemInv
<1>3. adminCalls' \in 0..MaxAdminCalls
  <2>0. adminCalls \in 0..MaxAdminCalls
    BY DEF SystemInv, SystemTypeOK
  <2>1. CASE Admin
    BY <2>0, <2>1, MaxAdminCallsAssumption DEF Admin
  <2>2. CASE Traffic \/ UNCHANGED systemVars
    <3>1. adminCalls' = adminCalls
      BY <2>2 DEF Traffic, systemVars
    <3>2. QED
      BY <2>0, <3>1
  <2>3. QED
    BY <2>1, <2>2 DEF SystemNext
<1>4. AppsInv' /\ replaced' \subseteq AppAccounts
  BY SystemStep, AppsInvNext DEF SystemInv, SystemTypeOK
<1>5. QED
  BY <1>1, <1>2, <1>3, <1>4 DEF SystemInv, SystemTypeOK

-----------------------------------------------------------------------------
(* What follows *)

\* The invariant holds of every behaviour of the system.
THEOREM SystemInvariant == SystemSpec => []SystemInv
<1>1. QED
  BY SystemInvInit, SystemInvNext, PTL DEF SystemSpec

\* The code of the KMS, the replaced accounts and the bound are well typed.
THEOREM SystemTypeCorrect == SystemSpec => []SystemTypeOK
<1>1. SystemInv => SystemTypeOK
  BY DEF SystemInv
<1>2. QED
  BY <1>1, SystemInvariant, PTL

\* What the registry lists was created for this KMS and runs the shipped contract,
\* unless its owner put other code there (app.rs:54-71).
THEOREM ListedRunCorrect == SystemSpec => []ListedRun
<1>1. SystemInv => ListedRun
  BY DEF SystemInv, AppsInv, Tied, ClaimedRun, ListedClaimed, ListedRun, Running
<1>2. QED
  BY <1>1, SystemInvariant, PTL

\* What a step does to the list: nothing, or one account at its end.
LEMMA RegistryStep ==
    ASSUME AppsInv, now \in Instants, FactoryStep
    PROVE  \/ UNCHANGED registered_apps
           \/ \E a \in AppAccounts : registered_apps' = Append(registered_apps, a)
<1>1. ASSUME NEW c \in CallIds, on_app_contract_deployed(c), UNCHANGED replaced
      PROVE  \/ UNCHANGED registered_apps
             \/ \E a \in AppAccounts : registered_apps' = Append(registered_apps, a)
  BY <1>1, CallbackLists
<1>2. ASSUME NEW c \in CallIds, ~on_app_contract_deployed(c), register_app(c) \/ Receipts(c)
      PROVE  UNCHANGED registered_apps
  BY <1>2 DEF register_app, Receipts, ExecuteDeployment, RefundDeposit
<1>3. QED
  BY <1>1, <1>2 DEF FactoryStep, ReadPage, AppAdmin, AppReceipts, factoryVars

\* No step but register_app brings an account into the pipeline.
LEMMA PipelineStep ==
    ASSUME AppsInv, [SystemNext]_systemVars,
           ~NotPaused("register_app") \/ ~Permitted({"Owner"})
    PROVE  Pipeline' \subseteq Pipeline
<1>1. FactoryStep
  BY SystemStep
<1>2. CASE UNCHANGED <<callVars, registered_apps>>
  BY <1>2 DEF Pipeline, RegisteredApps, callVars
<1>3. ASSUME NEW c \in CallIds, Receipts(c)
      PROVE  Pipeline' \subseteq Pipeline
  BY <1>3, PipelineDrains DEF AppsInv
<1>4. \A c \in CallIds : ~register_app(c)
  BY DEF register_app
<1>5. QED
  BY <1>1, <1>2, <1>3, <1>4 DEF FactoryStep, ReadPage, AppAdmin, AppReceipts, factoryVars

\* Without an owner the KMS stands still, whatever else goes on: each of its methods
\* that change anything of its own asks for one (lib.rs:150-355, app.rs:16).
THEOREM OwnerlessStandsStillCorrect == SystemSpec => OwnerlessStandsStill
<1>1. SystemInv /\ [SystemNext]_systemVars
        => [Holders({"Owner"}) = {}
              => /\ UNCHANGED <<kms_allowed_compose_hashes, configVars>>
                 /\ Pipeline' \subseteq Pipeline
                 /\ kms_up.deploying = {} => UNCHANGED kms_up]_systemVars
  <2> SUFFICES ASSUME SystemInv, SystemNext, Holders({"Owner"}) = {}
               PROVE  /\ UNCHANGED <<kms_allowed_compose_hashes, configVars>>
                      /\ Pipeline' \subseteq Pipeline
                      /\ kms_up.deploying = {} => UNCHANGED kms_up
    OBVIOUS
  <2>1. ~Permitted({"Owner"})
    BY DEF Permitted, HasRole, Holders
  <2>2. Pipeline' \subseteq Pipeline
    BY <2>1, PipelineStep DEF SystemInv
  <2>3. CASE Admin
    <3>1. ~AllowlistCalls /\ ~ConfigNext /\ ~KmsUpgradeCalls
      <4>1. ~AllowlistCalls /\ ~KmsUpgradeCalls
        BY <2>1 DEF AllowlistCalls, add_kms_compose_hash, remove_kms_compose_hash, KmsUpgradeCalls
      <4>2. ~ConfigNext
        BY <2>1 DEF ConfigNext, set_gateway_app_id, set_kms_info, set_kms_quote, set_kms_eventlog,
                    add_os_image_hash, remove_os_image_hash, add_kms_aggregated_mr,
                    remove_kms_aggregated_mr, add_kms_device, remove_kms_device
      <4>3. QED
        BY <4>1, <4>2
    <3>2. UNCHANGED <<rootKeyVars, configVars, upgradeVars>>
      BY <2>3, <3>1 DEF Admin, KmsAdmin, AppAdmin
    <3>3. QED
      BY <2>2, <3>2 DEF rootKeyVars, upgradeVars
  <2>4. CASE Traffic
    <3>1. UNCHANGED configVars
      BY <2>4 DEF Traffic
    <3>2. UNCHANGED kms_allowed_compose_hashes
      BY <2>4 DEF Traffic, rootKeyVars, AppReceipts, KmsDeployment, request_kms_root_key, Mpc,
                  request_app_private_key, MpcFails
    <3>3. kms_up.deploying = {} => UNCHANGED kms_up
      <4>1. kms_up \in Upgrade
        BY DEF SystemInv, SystemTypeOK
      <4>2. UNCHANGED kms_up \/ kms_up' \in DeployReceipt(kms_up)
        BY <2>4 DEF Traffic, upgradeVars, AppReceipts, KmsDeployment
      <4>3. QED
        BY <4>1, <4>2, DeployReceiptType
    <3>4. QED
      BY <2>2, <3>1, <3>2, <3>3
  <2>5. QED
    BY <2>3, <2>4 DEF SystemNext
<1>2. QED
  BY <1>1, SystemInvariant, PTL DEF SystemSpec, OwnerlessStandsStill

\* While "ALL" is paused, no app enters the pipeline and no request goes out, in any
\* order of calls, callbacks and receipts (app.rs:17, lib.rs:153).
THEOREM PauseAllStopsCorrect == SystemSpec => PauseAllStops
<1>1. SystemInv /\ [SystemNext]_systemVars
        => [\A r \in RequestIds :
              "ALL" \in paused
                => /\ Pipeline' \subseteq Pipeline
                   /\ progress[r] = "none" => progress'[r] = "none"]_systemVars
  <2> SUFFICES ASSUME SystemInv, SystemNext, NEW r \in RequestIds, "ALL" \in paused
               PROVE  /\ Pipeline' \subseteq Pipeline
                      /\ progress[r] = "none" => progress'[r] = "none"
    OBVIOUS
  <2>1. ~NotPaused("register_app") /\ ~NotPaused("request_kms_root_key")
    BY DEF NotPaused
  <2>2. Pipeline' \subseteq Pipeline
    BY <2>1, PipelineStep DEF SystemInv
  <2>3. progress[r] = "none" => progress'[r] = "none"
    <3>1. CASE UNCHANGED progress
      BY <3>1
    <3>2. ASSUME NEW q \in RequestIds, Mpc(q)
          PROVE  progress[r] = "none" => progress'[r] = "none"
      BY <3>2 DEF Mpc, request_app_private_key, MpcFails, SystemInv, Progress
    <3>3. \A q \in RequestIds : ~request_kms_root_key(q)
      BY <2>1 DEF request_kms_root_key
    <3>4. QED
      BY <3>1, <3>2, <3>3 DEF SystemNext, Admin, KmsAdmin, AppAdmin, AllowlistCalls,
         add_kms_compose_hash, remove_kms_compose_hash, Traffic, AppReceipts, KmsDeployment, rootKeyVars
  <2>4. QED
    BY <2>2, <2>3
<1>2. QED
  BY <1>1, SystemInvariant, PTL DEF SystemSpec, PauseAllStops

-----------------------------------------------------------------------------
(* Pages *)

\* A client pages through the registry of the composed system without a gap or a
\* repetition: nothing the owners do takes an app off the list (view.rs:12-19).
THEOREM SystemPagesFit == SystemSpec => []PagesFit
<1>1. SystemInit => PagesFit
  BY DEF SystemInit, FactoryInit, PagesFit, IsPrefix
<1>2. SystemInv /\ PagesFit /\ [SystemNext]_systemVars => PagesFit'
  <2> SUFFICES ASSUME SystemInv, PagesFit, FactoryStep PROVE PagesFit'
    BY SystemStep
  <2>1. FactoryTypeOK /\ AppsInv /\ now \in Instants
    BY DEF SystemInv, AppsInv
  <2>2. CASE ReadPage
    BY <2>1, <2>2, PageContinues
  <2>3. CASE UNCHANGED seen
    <3>1. \/ UNCHANGED registered_apps
          \/ \E a \in AppAccounts : registered_apps' = Append(registered_apps, a)
      BY <2>1, RegistryStep
    <3>2. CASE UNCHANGED registered_apps
      BY <2>3, <3>2 DEF PagesFit
    <3>3. QED
      BY <2>1, <2>3, <3>1, <3>2, GrowthKeepsPages
  <2>4. QED
    BY <2>2, <2>3 DEF FactoryStep, register_app, Receipts, ExecuteDeployment, BatchDone, BatchUndone,
                      RefundDeposit, on_app_contract_deployed, AppAdmin, AppReceipts, factoryVars
<1>3. QED
  BY <1>1, <1>2, SystemInvariant, PTL DEF SystemSpec

-----------------------------------------------------------------------------
(* The parts in the whole: every step of the system is a step of a part, or leaves  *)
(* it alone, so that what the part promises holds of the system.                    *)

\* The KMS contract's requests and allowlist, in the composed system, behave as they
\* do alone: apps, registrations, configuration and upgrades of either contract do
\* not touch them (lib.rs:150-241).
THEOREM SystemImplementsRequests == SystemSpec => KeySpec
<1>1. SystemInit => KeyInit
  BY DEF SystemInit, KeyInit
<1>2. [SystemNext]_systemVars => [KeyNext]_keyVars
  <2> SUFFICES ASSUME [SystemNext]_systemVars PROVE [KeyNext]_keyVars
    OBVIOUS
  <2>1. CASE UNCHANGED <<accessVars, rootKeyVars>>
    BY <2>1 DEF keyVars
  <2>2. CASE AccessNext /\ UNCHANGED rootKeyVars
    BY <2>2 DEF KeyNext
  <2>3. CASE RootKeyNext /\ UNCHANGED accessVars
    BY <2>3 DEF KeyNext
  <2>4. CASE Admin
    BY <2>1, <2>2, <2>3, <2>4 DEF Admin, KmsAdmin, AllowlistCalls, KmsUpgradeCalls, RootKeyNext, AppAdmin
  <2>5. CASE Traffic
    BY <2>1, <2>3, <2>5 DEF Traffic, RootKeyNext, rootKeyVars, AppReceipts, KmsDeployment
  <2>6. QED
    BY <2>1, <2>4, <2>5 DEF SystemNext, systemVars
<1>3. QED
  BY <1>1, <1>2, PTL DEF SystemSpec, KeySpec

\* The configuration likewise (lib.rs:243-355).
THEOREM SystemImplementsConfig == SystemSpec => KmsConfigSpec
<1>1. SystemInit => KmsConfigInit
  BY DEF SystemInit, KmsConfigInit
<1>2. [SystemNext]_systemVars => [KmsConfigNext]_kmsConfigVars
  <2> SUFFICES ASSUME [SystemNext]_systemVars PROVE [KmsConfigNext]_kmsConfigVars
    OBVIOUS
  <2>1. CASE UNCHANGED <<accessVars, configVars>>
    BY <2>1 DEF kmsConfigVars
  <2>2. CASE AccessNext /\ UNCHANGED configVars
    BY <2>2 DEF KmsConfigNext
  <2>3. CASE ConfigNext /\ UNCHANGED accessVars
    BY <2>3 DEF KmsConfigNext
  <2>4. CASE Admin
    BY <2>1, <2>2, <2>3, <2>4 DEF Admin, KmsAdmin, KmsUpgradeCalls, AppAdmin
  <2>5. CASE Traffic
    BY <2>1, <2>5 DEF Traffic
  <2>6. QED
    BY <2>1, <2>4, <2>5 DEF SystemNext, systemVars
<1>3. QED
  BY <1>1, <1>2, PTL DEF SystemSpec, KmsConfigSpec

\* And the ACL with the pause switch, which every method of the KMS shares.
THEOREM SystemImplementsAccess == SystemSpec => AccessSpec
<1>1. KmsConfigInit => AccessInit
  BY DEF KmsConfigInit
<1>2. [KmsConfigNext]_kmsConfigVars => [AccessNext]_accessVars
  BY DEF KmsConfigNext, kmsConfigVars
<1>3. KmsConfigSpec => AccessSpec
  BY <1>1, <1>2, PTL DEF KmsConfigSpec, AccessSpec
<1>4. QED
  BY <1>3, SystemImplementsConfig, PTL

\* In the composed system too, the MPC contract is asked only for a VM that is vouched
\* for and that booted the one compose file it presents (lib.rs:160-207).
COROLLARY SystemKeysOnlyToApproved == SystemSpec => []KeysOnlyToApproved
  BY SystemImplementsRequests, KeysOnlyToApprovedCorrect, PTL

\* A VM that follows the protocol is served whatever else the system is busy with
\* (lib.rs:163-207).
COROLLARY SystemHonestServed == SystemSpec => []HonestServed
  BY SystemImplementsRequests, HonestServedCorrect, PTL

\* The system's requests implement the grants the KMS promises (lib.rs:153, 189-224).
COROLLARY SystemImplementsGrants == SystemSpec => ImplementsGrants
  BY SystemImplementsRequests, RequestsImplementGrants, PTL

\* The info that is read from the system is traceable, part by part (lib.rs:252-290).
COROLLARY SystemInfoTraceable == SystemSpec => []InfoTraceable
  BY SystemImplementsConfig, InfoTraceableCorrect, PTL

\* A pause nobody is left to undo lasts in the composed system (lib.rs:82-85).
COROLLARY SystemPauseLatches == SystemSpec => PauseLatches
  BY SystemImplementsAccess, PauseLatchesCorrect, PTL
=============================================================================
