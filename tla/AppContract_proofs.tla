------------------------- MODULE AppContract_proofs --------------------------
(***************************************************************************)
(* What the calls and receipts at an app can do to it, for every set of    *)
(* accounts, codes, durations and arguments: lemmas that AppLifecycle_proofs*)
(* and the proofs about the KMS rest on.                                   *)
(***************************************************************************)
EXTENDS AppContract, Lemmas

-----------------------------------------------------------------------------
(* Upgrades *)

\* A duration that is not initialised counts as zero.
LEMMA DelayType == ASSUME NEW up \in Upgrade PROVE Delay(up) \in Nat
  BY DurationsAssumption DEF Upgrade, Delay

\* The fields of an upgrade state.
LEMMA UpgradeFields ==
    ASSUME NEW up \in Upgrade
    PROVE  /\ up.code \in Codes \cup {Shipped} /\ up.staged \in Codes \cup {NoCode}
           /\ up.ready \in Nat /\ up.next_ready \in Nat /\ up.deploying \subseteq Codes
           /\ up.duration \in Durations \cup {NoDuration} /\ up.next \in Durations \cup {NoDuration}
  BY DEF Upgrade

\* The methods of Upgradable keep the state well typed and the running code
\* (lib.rs:38-44).
LEMMA UpCallsType ==
    ASSUME NEW up \in Upgrade, NEW t \in Nat, NEW u \in UpCalls(up, t)
    PROVE  u \in Upgrade /\ u.code = up.code
<1>0. Delay(up) \in Nat /\ t + Delay(up) \in Nat
  BY DelayType
<1>1. CASE u \in up_stage_code(up, t)
  <2>1. CASE \E c \in Codes : u = [up EXCEPT !.staged = c, !.ready = t + Delay(up)]
    BY <1>0, <2>1 DEF Upgrade
  <2>2. CASE u = [up EXCEPT !.staged = NoCode, !.ready = 0]
    BY <2>2 DEF Upgrade
  <2>3. QED
    BY <1>1, <2>1, <2>2 DEF up_stage_code
<1>2. CASE u \in up_deploy_code(up, t)
  BY <1>2 DEF up_deploy_code, Upgrade
<1>3. CASE u \in up_init_staging_duration(up)
  BY <1>3 DEF up_init_staging_duration, Upgrade
<1>4. CASE u \in up_stage_update_staging_duration(up, t)
  BY <1>0, <1>4 DEF up_stage_update_staging_duration, Upgrade
<1>5. CASE u \in up_apply_update_staging_duration(up, t)
  BY <1>5 DEF up_apply_update_staging_duration, Upgrade
<1>6. QED
  BY <1>1, <1>2, <1>3, <1>4, <1>5 DEF UpCalls

\* A deployment receipt runs code that was under way, or is undone.
LEMMA DeployReceiptType ==
    ASSUME NEW up \in Upgrade, NEW u \in DeployReceipt(up)
    PROVE  /\ u \in Upgrade /\ up.deploying # {} /\ u.deploying \subseteq up.deploying
           /\ u.code = up.code \/ u.code \in up.deploying
           /\ u.staged = up.staged /\ u.ready = up.ready
           /\ u.duration = up.duration /\ u.next = up.next /\ u.next_ready = up.next_ready
<1>1. PICK c \in up.deploying : \/ u = [up EXCEPT !.code = c, !.deploying = @ \ {c}]
                                \/ u = [up EXCEPT !.deploying = @ \ {c}]
  BY DEF DeployReceipt
<1>2. c \in Codes
  BY UpgradeFields
<1>3. QED
  BY <1>1, <1>2 DEF Upgrade

-----------------------------------------------------------------------------
(* What a call can do to an app *)

\* The state `new` leaves is that of a contract (app/src/lib.rs:65-98).
LEMMA CreatedType ==
    ASSUME NEW args \in InitArgs, NEW kms \in KmsIds
    PROVE  new(args, kms) \in AppState
<1>1. args \in InitArgsType
  BY InitArgsAssumption
<1>2. /\ args.initial_compose_hash \in SUBSET Hashes /\ args.initial_device_id \in SUBSET Devices
      /\ args.owner_id \in Accounts
      /\ args.allow_any_device \in BOOLEAN /\ args.disable_upgrades \in BOOLEAN
  BY <1>1 DEF InitArgsType, Options
<1>3. InitialAcl(args.owner_id, {"Owner"}) \in Acl({"Owner"})
  BY <1>2, InitialAclType
<1>4. InitialUpgrade \in Upgrade
  BY DEF InitialUpgrade, Upgrade
<1>5. QED
  BY <1>2, <1>3, <1>4 DEF new, AppState

\* The state s in which a call at time t may leave an app that was in state old.
CallLeaves(old, s, t) ==
    /\ s \in AppState /\ s.kms_contract_id = old.kms_contract_id
    /\ s.up.code = old.up.code
    /\ s.up = old.up \/ s.up \in UpCalls(old.up, t)

\* Every method is called by an owner, except those of the ACL; a call leaves one
\* app in a state like the one before (app/src/lib.rs:36-175).
LEMMA CallShape ==
    ASSUME AppTypeOK, NEW a \in AppAccounts, NEW t \in Nat, AppCall(a, t)
    PROVE  /\ Running(a)
           /\ \E s : CallLeaves(apps[a], s, t) /\ apps' = [apps EXCEPT ![a] = s]
           /\ OwnerCalls(a) \/ change_acl(a)
<1> DEFINE old == apps[a]
<1>0. Running(a) => old \in AppState /\ old.up \in Upgrade
  BY DEF AppTypeOK, Running, AppState
<1>1. CASE \E h \in Hashes : add_compose_hash(a, h) \/ remove_compose_hash(a, h)
  <2>1. PICK h \in Hashes : add_compose_hash(a, h) \/ remove_compose_hash(a, h)
    BY <1>1
  <2>2. OwnerCalls(a) /\ Running(a)
    BY <2>1 DEF add_compose_hash, remove_compose_hash, OwnerCalls
  <2>3. CASE add_compose_hash(a, h)
    <3> DEFINE s == [old EXCEPT !.allowed_compose_hashes = @ \cup {h}]
    <3>1. CallLeaves(old, s, t)
      BY <1>0, <2>2 DEF CallLeaves, AppState
    <3>2. apps' = [apps EXCEPT ![a] = s]
      BY <2>3 DEF add_compose_hash
    <3>3. QED
      BY <2>2, <3>1, <3>2
  <2>4. CASE remove_compose_hash(a, h)
    <3> DEFINE s == [old EXCEPT !.allowed_compose_hashes = @ \ {h}]
    <3>1. CallLeaves(old, s, t)
      BY <1>0, <2>2 DEF CallLeaves, AppState
    <3>2. apps' = [apps EXCEPT ![a] = s]
      BY <2>4 DEF remove_compose_hash
    <3>3. QED
      BY <2>2, <3>1, <3>2
  <2>5. QED
    BY <2>1, <2>3, <2>4
<1>2. CASE \E d \in Devices : add_device(a, d) \/ remove_device(a, d)
  <2>1. PICK d \in Devices : add_device(a, d) \/ remove_device(a, d)
    BY <1>2
  <2>2. OwnerCalls(a) /\ Running(a)
    BY <2>1 DEF add_device, remove_device, OwnerCalls
  <2>3. CASE add_device(a, d)
    <3> DEFINE s == [old EXCEPT !.allowed_device_ids = @ \cup {d}]
    <3>1. CallLeaves(old, s, t)
      BY <1>0, <2>2 DEF CallLeaves, AppState
    <3>2. apps' = [apps EXCEPT ![a] = s]
      BY <2>3 DEF add_device
    <3>3. QED
      BY <2>2, <3>1, <3>2
  <2>4. CASE remove_device(a, d)
    <3> DEFINE s == [old EXCEPT !.allowed_device_ids = @ \ {d}]
    <3>1. CallLeaves(old, s, t)
      BY <1>0, <2>2 DEF CallLeaves, AppState
    <3>2. apps' = [apps EXCEPT ![a] = s]
      BY <2>4 DEF remove_device
    <3>3. QED
      BY <2>2, <3>1, <3>2
  <2>5. QED
    BY <2>1, <2>3, <2>4
<1>3. CASE \E allow \in BOOLEAN : set_allow_any_device(a, allow)
  <2>1. PICK allow \in BOOLEAN : set_allow_any_device(a, allow)
    BY <1>3
  <2> DEFINE s == [old EXCEPT !.allow_any_device = allow]
  <2>2. OwnerCalls(a) /\ Running(a) /\ apps' = [apps EXCEPT ![a] = s]
    BY <2>1 DEF set_allow_any_device, OwnerCalls
  <2>3. CallLeaves(old, s, t)
    BY <1>0, <2>2 DEF CallLeaves, AppState
  <2>4. QED
    BY <2>2, <2>3
<1>4. CASE disable_upgrades(a)
  <2> DEFINE s == [old EXCEPT !.upgrades_disabled = TRUE]
  <2>1. OwnerCalls(a) /\ Running(a) /\ apps' = [apps EXCEPT ![a] = s]
    BY <1>4 DEF disable_upgrades, OwnerCalls
  <2>2. CallLeaves(old, s, t)
    BY <1>0, <2>1 DEF CallLeaves, AppState
  <2>3. QED
    BY <2>1, <2>2
<1>5. CASE upgrade(a, t)
  <2>1. OwnerCalls(a) /\ Running(a)
    BY <1>5 DEF upgrade, OwnerCalls
  <2>2. PICK up \in UpCalls(old.up, t) : apps' = [apps EXCEPT ![a].up = up]
    BY <1>5 DEF upgrade
  <2> DEFINE s == [old EXCEPT !.up = up]
  <2>3. up \in Upgrade /\ up.code = old.up.code
    BY <1>0, <2>1, UpCallsType
  <2>4. CallLeaves(old, s, t)
    BY <1>0, <2>1, <2>3 DEF CallLeaves, AppState
  <2>5. apps' = [apps EXCEPT ![a] = s]
    BY <2>2
  <2>6. QED
    BY <2>1, <2>4, <2>5
<1>6. CASE pause_feature(a) \/ unpause_feature(a)
  <2>1. OwnerCalls(a) /\ Running(a)
    BY <1>6 DEF pause_feature, unpause_feature, OwnerCalls
  <2>2. PICK p \in SUBSET AppFeatures : apps' = [apps EXCEPT ![a].paused = p]
    <3>1. old.paused \subseteq AppFeatures
      BY <1>0, <2>1 DEF AppState
    <3>2. CASE pause_feature(a)
      <4>1. PICK f \in AppFeatures : apps' = [apps EXCEPT ![a].paused = @ \cup {f}]
        BY <3>2 DEF pause_feature
      <4>2. old.paused \cup {f} \in SUBSET AppFeatures
        BY <3>1
      <4>3. QED
        BY <4>1, <4>2
    <3>3. CASE unpause_feature(a)
      <4>1. PICK f \in old.paused : apps' = [apps EXCEPT ![a].paused = @ \ {f}]
        BY <3>3 DEF unpause_feature
      <4>2. old.paused \ {f} \in SUBSET AppFeatures
        BY <3>1
      <4>3. QED
        BY <4>1, <4>2
    <3>4. QED
      BY <1>6, <3>2, <3>3
  <2> DEFINE s == [old EXCEPT !.paused = p]
  <2>3. CallLeaves(old, s, t)
    BY <1>0, <2>1 DEF CallLeaves, AppState
  <2>4. apps' = [apps EXCEPT ![a] = s]
    BY <2>2
  <2>5. QED
    BY <2>1, <2>3, <2>4
<1>7. CASE change_acl(a)
  <2>1. Running(a)
    BY <1>7 DEF change_acl
  <2>2. PICK caller \in Accounts :
           \E list \in AclCalls(old.acl, caller) : apps' = [apps EXCEPT ![a].acl = list]
    BY <1>7 DEF change_acl
  <2>3. PICK list \in AclCalls(old.acl, caller) : apps' = [apps EXCEPT ![a].acl = list]
    BY <2>2
  <2> DEFINE s == [old EXCEPT !.acl = list]
  <2>4. old.acl \in Acl({"Owner"})
    BY <1>0, <2>1 DEF AppState
  <2>5. list \in Acl({"Owner"})
    BY <2>3, <2>4, AclCallsType
  <2>6. CallLeaves(old, s, t)
    BY <1>0, <2>1, <2>5 DEF CallLeaves, AppState
  <2>7. apps' = [apps EXCEPT ![a] = s]
    BY <2>3
  <2>8. QED
    BY <1>7, <2>1, <2>6, <2>7
<1>8. QED
  BY <1>1, <1>2, <1>3, <1>4, <1>5, <1>6, <1>7 DEF AppCall

\* A receipt leaves one app with code that was under way, and otherwise as it was;
\* foreign code leaves there what it likes.
LEMMA ReceiptShape ==
    ASSUME AppTypeOK, NEW a \in AppAccounts, AppReceipt(a)
    PROVE  \/ /\ Running(a)
              /\ \E u \in DeployReceipt(apps[a].up) :
                    apps' = [apps EXCEPT ![a] = [apps[a] EXCEPT !.up = u]]
           \/ /\ ~Running(a) /\ apps[a] # NoApp
              /\ \E s \in AppState \cup {NoApp} : apps' = [apps EXCEPT ![a] = s]
<1>1. CASE deploy_receipt(a)
  BY <1>1 DEF deploy_receipt
<1>2. CASE foreign_code(a)
  BY <1>2, CodeAssumption, RewritesAssumption DEF foreign_code, Running
<1>3. QED
  BY <1>1, <1>2 DEF AppReceipt
=============================================================================
