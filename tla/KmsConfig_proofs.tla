--------------------------- MODULE KmsConfig_proofs --------------------------
(***************************************************************************)
(* Proofs about KmsConfig, for every set of strings, keys, accounts and    *)
(* roles.  InfoTraceable is inductive together with the types, which say   *)
(* that what is published is a KmsInfo and so not the absent one.          *)
(***************************************************************************)
EXTENDS KmsConfig, Lemmas

-----------------------------------------------------------------------------
(* Roles and the pause switch *)

\* The state `new` leaves is well typed.
LEMMA AccessInitType == AccessInit => AccessTypeOK
  BY InitialAclType, OwnerAssumption DEF AccessInit, AccessTypeOK

\* Every call of the two plugins keeps the access state well typed.
LEMMA AccessNextType == AccessTypeOK /\ [AccessNext]_accessVars => AccessTypeOK'
<1> SUFFICES ASSUME AccessTypeOK, [AccessNext]_accessVars
             PROVE  AccessTypeOK'
  OBVIOUS
<1>1. CASE acl_change
  BY <1>1, AclCallsType DEF acl_change, AccessTypeOK
<1>2. CASE acl_init_super_admin
  BY <1>2 DEF acl_init_super_admin, AccessTypeOK, Acl
<1>3. CASE pa_pause_feature
  BY <1>3 DEF pa_pause_feature, AccessTypeOK
<1>4. CASE pa_unpause_feature
  BY <1>4 DEF pa_unpause_feature, AccessTypeOK
<1>5. CASE UNCHANGED accessVars
  BY <1>5 DEF accessVars, AccessTypeOK
<1>6. QED
  BY <1>1, <1>2, <1>3, <1>4, <1>5 DEF AccessNext

\* The ACL and the paused features are always well typed.
THEOREM AccessTypeCorrect == AccessSpec => []AccessTypeOK
<1>1. QED
  BY AccessInitType, AccessNextType, PTL DEF AccessSpec

\* A locked KMS stays locked unless its own key appoints a super admin: calls of the
\* ACL only renounce (NobodyAppoints), and pausing changes no role.
LEMMA LockStays ==
    ASSUME AccessTypeOK, AccessNext, Locked
    PROVE  Locked' \/ acl'.super_admins # {}
<1>1. CASE acl_change
  <2>1. PICK caller \in Accounts : acl' \in AclCalls(acl, caller)
    BY <1>1 DEF acl_change
  <2>2. acl \in Acl(KmsRoles) /\ Unadministered(acl)
    BY DEF AccessTypeOK, Locked
  <2>3. Unadministered(acl') /\ \A r \in KmsRoles : acl'.grantees[r] \subseteq acl.grantees[r]
    BY <2>1, <2>2, NobodyAppoints
  <2>4. (Holders({"Owner", "UnpauseManager"}))' = {}
    BY <2>3 DEF Locked, Holders
  <2>5. QED
    BY <2>3, <2>4 DEF Locked, Unadministered
<1>2. CASE acl_init_super_admin
  <2>1. PICK a \in Accounts : acl' = [acl EXCEPT !.super_admins = {a}]
    BY <1>2 DEF acl_init_super_admin
  <2>2. acl'.super_admins = {a}
    BY <2>1 DEF AccessTypeOK, Acl
  <2>3. QED
    BY <2>2
<1>3. CASE UNCHANGED acl
  BY <1>3 DEF Locked, Holders, Unadministered
<1>4. QED
  BY <1>1, <1>2, <1>3 DEF AccessNext, pa_pause_feature, pa_unpause_feature

\* A pause nobody is left to undo lasts, in every order of calls: PauseManager gives
\* no way back, and neither does the ACL.
THEOREM PauseLatchesCorrect == AccessSpec => PauseLatches
<1>1. AccessTypeOK /\ [AccessNext]_accessVars
        => [Locked => /\ paused \subseteq paused'
                      /\ Locked' \/ acl'.super_admins # {}]_accessVars
  <2> SUFFICES ASSUME AccessTypeOK, AccessNext, Locked
               PROVE  paused \subseteq paused' /\ (Locked' \/ acl'.super_admins # {})
    BY DEF accessVars
  <2>1. ~ pa_unpause_feature
    BY DEF pa_unpause_feature, Permitted, HasRole, Locked, Holders
  <2>2. paused \subseteq paused'
    BY <2>1 DEF AccessNext, acl_change, acl_init_super_admin, pa_pause_feature
  <2>3. QED
    BY <2>2, LockStays
<1>2. QED
  BY <1>1, AccessTypeCorrect, PTL DEF AccessSpec, PauseLatches

-----------------------------------------------------------------------------
(* The configuration *)

ConfigInv == AccessTypeOK /\ ConfigTypeOK /\ InfoTraceable

\* The constructor publishes nothing (lib.rs:135-139).
LEMMA ConfigInvInit == KmsConfigInit => ConfigInv
<1> SUFFICES ASSUME KmsConfigInit PROVE ConfigInv
  OBVIOUS
<1>1. AccessTypeOK
  BY AccessInitType DEF KmsConfigInit
<1>2. ConfigTypeOK
  BY DEF KmsConfigInit, ConfigInit, ConfigTypeOK, EmptyInfo, KmsInfo
<1>3. InfoTraceable
  BY DEF KmsConfigInit, ConfigInit, InfoTraceable
<1>4. QED
  BY <1>1, <1>2, <1>3 DEF ConfigInv

\* What a partial update starts from is a KmsInfo whether or not there was one
\* (lib.rs:265-274).
LEMMA CurrentInfoType == ConfigTypeOK => CurrentInfo \in KmsInfo
  BY DEF ConfigTypeOK, CurrentInfo, EmptyInfo, KmsInfo

\* A whole publication starts a new trace (lib.rs:252-260).
LEMMA PublishStep ==
    ASSUME ConfigInv, NEW info \in KmsInfo, set_kms_info(info)
    PROVE  (ConfigTypeOK /\ InfoTraceable)'
<1>1. info # NoInfo
  BY NoInfoAssumption
<1>2. ConfigTypeOK'
  BY DEF ConfigInv, ConfigTypeOK, set_kms_info, listVars
<1>3. InfoTraceable'
  BY <1>1 DEF InfoTraceable, set_kms_info
<1>4. QED
  BY <1>2, <1>3

\* A refreshed quote leaves the keys and the event log to the last publication,
\* or to the empty info if there was none (lib.rs:262-275).
LEMMA QuoteStep ==
    ASSUME ConfigInv, NEW quote \in Quotes, set_kms_quote(quote)
    PROVE  (ConfigTypeOK /\ InfoTraceable)'
<1>1. CurrentInfo \in KmsInfo
  BY CurrentInfoType DEF ConfigInv
<1>2. /\ kms_info' \in KmsInfo
      /\ kms_info'.keys = CurrentInfo.keys /\ kms_info'.eventlog = CurrentInfo.eventlog
  BY <1>1 DEF set_kms_quote, KmsInfo
<1>3. /\ published'.info = published.info
      /\ published'.refreshed = published.refreshed \cup {"quote"}
      /\ published' \in [info : KmsInfo, refreshed : SUBSET {"quote", "eventlog"}]
  BY DEF ConfigInv, ConfigTypeOK, set_kms_quote
<1>4. ConfigTypeOK'
  BY <1>2, <1>3 DEF ConfigInv, ConfigTypeOK, set_kms_quote, listVars
<1>5. InfoTraceable'
  BY <1>2, <1>3, NoInfoAssumption DEF ConfigInv, InfoTraceable, CurrentInfo, EmptyInfo
<1>6. QED
  BY <1>4, <1>5

\* The same of a refreshed event log (lib.rs:277-290).
LEMMA EventlogStep ==
    ASSUME ConfigInv, NEW eventlog \in Eventlogs, set_kms_eventlog(eventlog)
    PROVE  (ConfigTypeOK /\ InfoTraceable)'
<1>1. CurrentInfo \in KmsInfo
  BY CurrentInfoType DEF ConfigInv
<1>2. /\ kms_info' \in KmsInfo
      /\ kms_info'.keys = CurrentInfo.keys /\ kms_info'.quote = CurrentInfo.quote
  BY <1>1 DEF set_kms_eventlog, KmsInfo
<1>3. /\ published'.info = published.info
      /\ published'.refreshed = published.refreshed \cup {"eventlog"}
      /\ published' \in [info : KmsInfo, refreshed : SUBSET {"quote", "eventlog"}]
  BY DEF ConfigInv, ConfigTypeOK, set_kms_eventlog
<1>4. ConfigTypeOK'
  BY <1>2, <1>3 DEF ConfigInv, ConfigTypeOK, set_kms_eventlog, listVars
<1>5. InfoTraceable'
  BY <1>2, <1>3, NoInfoAssumption DEF ConfigInv, InfoTraceable, CurrentInfo, EmptyInfo
<1>6. QED
  BY <1>4, <1>5

\* The gateway and the lists have nothing to do with the info (lib.rs:245-250, 292-354).
LEMMA ListStep ==
    ASSUME ConfigInv,
           \/ \E g \in GatewayIds : set_gateway_app_id(g)
           \/ \E h \in OsImages : add_os_image_hash(h) \/ remove_os_image_hash(h)
           \/ \E mr \in AggregatedMrs : add_kms_aggregated_mr(mr) \/ remove_kms_aggregated_mr(mr)
           \/ \E d \in KmsDevices : add_kms_device(d) \/ remove_kms_device(d)
    PROVE  (ConfigTypeOK /\ InfoTraceable)'
<1>1. UNCHANGED infoVars
  BY DEF set_gateway_app_id, add_os_image_hash, remove_os_image_hash, add_kms_aggregated_mr,
         remove_kms_aggregated_mr, add_kms_device, remove_kms_device
<1>2. InfoTraceable'
  BY <1>1 DEF ConfigInv, InfoTraceable, infoVars
<1>3. ConfigTypeOK'
  BY <1>1 DEF ConfigInv, ConfigTypeOK, infoVars, listVars, set_gateway_app_id, add_os_image_hash,
         remove_os_image_hash, add_kms_aggregated_mr, remove_kms_aggregated_mr, add_kms_device,
         remove_kms_device
<1>4. QED
  BY <1>2, <1>3

\* Every step keeps the invariant.
LEMMA ConfigInvNext == ConfigInv /\ [KmsConfigNext]_kmsConfigVars => ConfigInv'
<1> SUFFICES ASSUME ConfigInv, [KmsConfigNext]_kmsConfigVars PROVE ConfigInv'
  OBVIOUS
<1>1. CASE ConfigNext /\ UNCHANGED accessVars
  <2>1. AccessTypeOK'
    BY <1>1, AccessNextType DEF ConfigInv
  <2>2. (ConfigTypeOK /\ InfoTraceable)'
    <3>1. CASE \E keys \in KeyPairs, quote \in Quotes, eventlog \in Eventlogs :
                 set_kms_info([keys |-> keys, quote |-> quote, eventlog |-> eventlog])
      BY <3>1, PublishStep DEF KmsInfo
    <3>2. CASE \E quote \in Quotes : set_kms_quote(quote)
      BY <3>2, QuoteStep
    <3>3. CASE \E eventlog \in Eventlogs : set_kms_eventlog(eventlog)
      BY <3>3, EventlogStep
    <3>4. QED
      BY <1>1, <3>1, <3>2, <3>3, ListStep DEF ConfigNext
  <2>3. QED
    BY <2>1, <2>2 DEF ConfigInv
<1>2. CASE AccessNext /\ UNCHANGED configVars
  BY <1>2, AccessNextType DEF ConfigInv, ConfigTypeOK, InfoTraceable, configVars, infoVars, listVars
<1>3. CASE UNCHANGED kmsConfigVars
  BY <1>3, AccessNextType DEF ConfigInv, ConfigTypeOK, InfoTraceable, kmsConfigVars, configVars,
     infoVars, listVars
<1>4. QED
  BY <1>1, <1>2, <1>3 DEF KmsConfigNext

\* The invariant holds of every behaviour of the configuration.
THEOREM ConfigInvariant == KmsConfigSpec => []ConfigInv
<1>1. QED
  BY ConfigInvInit, ConfigInvNext, PTL DEF KmsConfigSpec

\* The configuration is well typed.
THEOREM ConfigTypeCorrect == KmsConfigSpec => []ConfigTypeOK
<1>1. ConfigInv => ConfigTypeOK
  BY DEF ConfigInv
<1>2. QED
  BY <1>1, ConfigInvariant, PTL

\* Every part of the KMS info is that of the last whole publication, or was
\* refreshed since (lib.rs:252-290).
THEOREM InfoTraceableCorrect == KmsConfigSpec => []InfoTraceable
<1>1. ConfigInv => InfoTraceable
  BY DEF ConfigInv
<1>2. QED
  BY <1>1, ConfigInvariant, PTL
=============================================================================
