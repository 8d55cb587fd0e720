------------------------- MODULE AppLifecycle_proofs -------------------------
(***************************************************************************)
(* Proofs about AppLifecycle, for every set of accounts, codes, staging    *)
(* durations and instants.  NoticeKept is not inductive: Secure adds that  *)
(* code unknown to the observer is not ready before the notice is over, and*)
(* that the durations still give as much notice as they gave.              *)
(***************************************************************************)
EXTENDS AppLifecycle, AppContract_proofs

-----------------------------------------------------------------------------
(* Upgrades *)

\* What an observer relies on who was told `until` and knows `known`.
Secure(up, until, known, t) ==
    t < until =>
        /\ up.deploying \subseteq known /\ up.code \in known \cup {Shipped}
        /\ up.staged # NoCode /\ up.staged \notin known => until <= up.ready
        /\ up.code = Shipped => until <= NoticeUntil(up, t)

\* Time gives more notice, never less.
LEMMA NoticeGrows ==
    ASSUME NEW up \in Upgrade, NEW t \in Nat, NEW t2 \in Nat, t <= t2
    PROVE  /\ NoticeUntil(up, t) \in Nat /\ NoticeUntil(up, t) <= t + Delay(up)
           /\ NoticeUntil(up, t) <= NoticeUntil(up, t2)
<1>1. Delay(up) \in Nat /\ up.next_ready \in Nat /\ (up.next # NoDuration => up.next \in Nat)
  BY DelayType, UpgradeFields, DurationsAssumption
<1>2. QED
  BY <1>1 DEF NoticeUntil

\* No method of Upgradable breaks what the observer relies on: staging takes the
\* notice, deployment a staged code that is ready and so known, and durations are
\* replaced only when the staged update may be applied.
LEMMA UpCallsSecure ==
    ASSUME NEW up \in Upgrade, NEW t \in Nat, NEW u \in UpCalls(up, t),
           NEW until \in Nat, NEW known \in SUBSET Codes,
           up.code = Shipped, Secure(up, until, known, t)
    PROVE  Secure(u, until, known, t)
<1> SUFFICES ASSUME t < until PROVE Secure(u, until, known, t)
  BY DEF Secure
<1>0. /\ Delay(up) \in Nat /\ up.next_ready \in Nat /\ up.ready \in Nat
      /\ up.next # NoDuration => up.next \in Nat
      /\ until <= NoticeUntil(up, t) /\ NoticeUntil(up, t) <= t + Delay(up)
      /\ NoticeUntil(up, t) \in Nat
  <2>1. Delay(up) \in Nat /\ up.next_ready \in Nat /\ up.ready \in Nat
    BY DelayType, UpgradeFields
  <2>2. up.next # NoDuration => up.next \in Nat
    BY UpgradeFields, DurationsAssumption
  <2>3. NoticeUntil(up, t) <= t + Delay(up) /\ NoticeUntil(up, t) \in Nat
    BY NoticeGrows
  <2>4. until <= NoticeUntil(up, t)
    BY DEF Secure
  <2>5. QED
    BY <2>1, <2>2, <2>3, <2>4
<1>1. CASE u \in up_stage_code(up, t)
  <2>1. /\ u.code = up.code /\ u.deploying = up.deploying /\ u.duration = up.duration
        /\ u.next = up.next /\ u.next_ready = up.next_ready
        /\ u.staged = NoCode \/ u.ready = t + Delay(up)
    BY <1>1 DEF up_stage_code, Upgrade
  <2>2. NoticeUntil(u, t) = NoticeUntil(up, t)
    BY <2>1 DEF NoticeUntil, Delay
  <2>3. QED
    BY <1>0, <2>1, <2>2 DEF Secure
<1>2. CASE u \in up_deploy_code(up, t)
  <2>1. /\ up.staged # NoCode /\ up.ready <= t
        /\ u.code = up.code /\ u.deploying = up.deploying \cup {up.staged}
        /\ u.staged = up.staged /\ u.ready = up.ready /\ u.duration = up.duration
        /\ u.next = up.next /\ u.next_ready = up.next_ready
    BY <1>2 DEF up_deploy_code, Upgrade
  <2>2. NoticeUntil(u, t) = NoticeUntil(up, t)
    BY <2>1 DEF NoticeUntil, Delay
  <2>3. up.staged \in known
    BY <1>0, <2>1 DEF Secure
  <2>4. QED
    BY <1>0, <2>1, <2>2, <2>3 DEF Secure
<1>3. CASE u \in up_init_staging_duration(up)
  <2>1. PICK d \in Durations : up.duration = NoDuration /\ u = [up EXCEPT !.duration = d]
    BY <1>3 DEF up_init_staging_duration
  <2>2. /\ u.code = up.code /\ u.deploying = up.deploying /\ u.staged = up.staged
        /\ u.ready = up.ready /\ u.duration = d /\ u.next = up.next /\ u.next_ready = up.next_ready
        /\ d \in Nat /\ d # NoDuration
    BY <2>1, DurationsAssumption DEF Upgrade
  <2>3. NoticeUntil(up, t) <= NoticeUntil(u, t)
    BY <1>0, <2>1, <2>2 DEF NoticeUntil, Delay
  <2>4. NoticeUntil(u, t) \in Nat
    BY <1>0, <2>2 DEF NoticeUntil, Delay
  <2>5. QED
    BY <1>0, <2>2, <2>3, <2>4 DEF Secure
<1>4. CASE u \in up_stage_update_staging_duration(up, t)
  <2>1. PICK d \in Durations : u = [up EXCEPT !.next = d, !.next_ready = t + Delay(up)]
    BY <1>4 DEF up_stage_update_staging_duration
  <2>2. /\ u.code = up.code /\ u.deploying = up.deploying /\ u.staged = up.staged
        /\ u.ready = up.ready /\ u.duration = up.duration /\ u.next = d
        /\ u.next_ready = t + Delay(up) /\ d \in Nat
    BY <2>1, DurationsAssumption DEF Upgrade
  <2>3. Delay(u) = Delay(up)
    BY <2>2 DEF Delay
  <2>4. NoticeUntil(u, t) = t + Delay(up)
    BY <1>0, <2>2, <2>3 DEF NoticeUntil
  <2>5. QED
    BY <1>0, <2>2, <2>4 DEF Secure
<1>5. CASE u \in up_apply_update_staging_duration(up, t)
  <2>1. /\ up.next # NoDuration /\ up.next_ready <= t /\ u = [up EXCEPT !.duration = up.next]
    BY <1>5 DEF up_apply_update_staging_duration
  <2>2. /\ u.code = up.code /\ u.deploying = up.deploying /\ u.staged = up.staged
        /\ u.ready = up.ready /\ u.duration = up.next /\ u.next = up.next
        /\ u.next_ready = up.next_ready
    BY <2>1 DEF Upgrade
  <2>3. Delay(u) = up.next
    BY <2>1, <2>2 DEF Delay
  <2>4. NoticeUntil(u, t) = t + up.next /\ NoticeUntil(up, t) <= t + up.next
    BY <1>0, <2>1, <2>2, <2>3 DEF NoticeUntil
  <2>5. QED
    BY <1>0, <2>1, <2>2, <2>4 DEF Secure
<1>6. QED
  BY <1>1, <1>2, <1>3, <1>4, <1>5 DEF UpCalls

\* A deployment receipt runs known code while the notice lasts.
LEMMA ReceiptSecure ==
    ASSUME NEW up \in Upgrade, NEW u \in DeployReceipt(up), NEW t \in Nat, NEW until \in Nat,
           NEW known \in SUBSET Codes, up.code = Shipped, Secure(up, until, known, t)
    PROVE  Secure(u, until, known, t)
<1>1. NoticeUntil(u, t) = NoticeUntil(up, t)
  BY DeployReceiptType DEF NoticeUntil, Delay
<1>2. QED
  BY <1>1, DeployReceiptType DEF Secure

-----------------------------------------------------------------------------
(* The invariant *)

\* The observed app exists, and what was concluded from its state holds.
Noticed ==
    watch # NoWatch =>
        /\ apps[watch.app] # NoApp
        /\ Secure(apps[watch.app].up, watch.until, watch.known, now)

LifeInv == LifeTypeOK /\ Noticed

\* Nothing exists and nothing was observed at first.
LEMMA LifeInvInit == LifeInit => LifeInv
  BY DEF LifeInit, AppInit, ClockInit, LifeInv, LifeTypeOK, AppTypeOK, Noticed

\* What a step does to one app: unless it runs other code or none, it is called, or
\* touched by a receipt.
LEMMA AppStepShape ==
    ASSUME LifeInv, AppStep
    PROVE  \E a \in AppAccounts, s \in AppState \cup {NoApp} :
              /\ apps' = [apps EXCEPT ![a] = s]
              /\ \/ ~Running(a)
                 \/ /\ Running(a)
                    /\ \/ CallLeaves(apps[a], s, now)
                       \/ \E u \in DeployReceipt(apps[a].up) : s = [apps[a] EXCEPT !.up = u]
<1>1. PICK a \in AppAccounts : Create(a) \/ AppCall(a, now) \/ AppReceipt(a)
  BY DEF AppStep
<1>2. AppTypeOK /\ now \in Nat
  BY InstantsAssumption DEF LifeInv, LifeTypeOK
<1>3. CASE Create(a)
  BY <1>3, CreatedType DEF Create, Running
<1>4. CASE AppCall(a, now)
  <2>1. PICK s : CallLeaves(apps[a], s, now) /\ apps' = [apps EXCEPT ![a] = s]
    BY <1>2, <1>4, CallShape
  <2>2. Running(a) /\ s \in AppState
    BY <1>2, <1>4, <2>1, CallShape DEF CallLeaves
  <2>3. QED
    BY <2>1, <2>2
<1>5. CASE AppReceipt(a)
  <2>1. CASE ~Running(a) /\ \E s \in AppState \cup {NoApp} : apps' = [apps EXCEPT ![a] = s]
    BY <2>1
  <2>2. CASE /\ Running(a)
             /\ \E u \in DeployReceipt(apps[a].up) :
                   apps' = [apps EXCEPT ![a] = [apps[a] EXCEPT !.up = u]]
    <3>1. apps[a] \in AppState /\ apps[a].up \in Upgrade
      BY <1>2, <2>2 DEF AppTypeOK, Running, AppState
    <3>2. PICK u \in DeployReceipt(apps[a].up) :
             apps' = [apps EXCEPT ![a] = [apps[a] EXCEPT !.up = u]]
      BY <2>2
    <3>3. [apps[a] EXCEPT !.up = u] \in AppState
      BY <3>1, <3>2, DeployReceiptType DEF AppState
    <3>4. QED
      BY <2>2, <3>2, <3>3
  <2>3. QED
    BY <1>2, <1>5, <2>1, <2>2, ReceiptShape
<1>6. QED
  BY <1>1, <1>3, <1>4, <1>5

\* No step at an app breaks the invariant; once other code has run, nothing is
\* observed any more.
LEMMA AppStepInv ==
    ASSUME LifeInv, AppStep, UNCHANGED now,
           watch' = IF watch # NoWatch /\ ~Running(watch.app) THEN NoWatch ELSE watch
    PROVE  LifeInv'
<1>1. PICK a \in AppAccounts, s \in AppState \cup {NoApp} :
         /\ apps' = [apps EXCEPT ![a] = s]
         /\ \/ ~Running(a)
            \/ /\ Running(a)
               /\ \/ CallLeaves(apps[a], s, now)
                  \/ \E u \in DeployReceipt(apps[a].up) : s = [apps[a] EXCEPT !.up = u]
  BY AppStepShape
<1>2. LifeTypeOK'
  BY <1>1 DEF LifeInv, LifeTypeOK, AppTypeOK
<1>3. SUFFICES ASSUME watch' # NoWatch
               PROVE  /\ apps'[watch.app] # NoApp
                      /\ Secure(apps'[watch.app].up, watch.until, watch.known, now)
  BY <1>2 DEF LifeInv, Noticed
<1>4. /\ watch' = watch /\ Running(watch.app) /\ apps[watch.app] # NoApp
      /\ watch.app \in AppAccounts /\ watch.until \in Nat /\ watch.known \in SUBSET Codes
      /\ Secure(apps[watch.app].up, watch.until, watch.known, now)
      /\ now \in Nat /\ apps \in [AppAccounts -> AppState \cup {NoApp}]
  BY <1>3, InstantsAssumption DEF LifeInv, LifeTypeOK, AppTypeOK, Noticed, Watch
<1>5. CASE watch.app # a
  BY <1>1, <1>4, <1>5
<1>6. CASE watch.app = a
  <2>1. /\ apps'[a] = s /\ Running(a) /\ apps[a].up.code = Shipped
        /\ apps[a] \in AppState /\ apps[a].up \in Upgrade
    BY <1>1, <1>4, <1>6 DEF Running, AppState
  <2>2. CASE CallLeaves(apps[a], s, now)
    <3>1. s # NoApp
      BY <2>2, NoAppAssumption DEF CallLeaves
    <3>2. QED
      BY <1>4, <1>6, <2>1, <2>2, <3>1, UpCallsSecure DEF CallLeaves
  <2>3. CASE \E u \in DeployReceipt(apps[a].up) : s = [apps[a] EXCEPT !.up = u]
    <3>1. PICK u \in DeployReceipt(apps[a].up) : s = [apps[a] EXCEPT !.up = u]
      BY <2>3
    <3>2. s.up = u
      BY <1>4, <1>6, <2>1, <3>1 DEF AppState
    <3>3. s \in AppState
      BY <2>1, <3>1, DeployReceiptType DEF AppState
    <3>4. s # NoApp
      BY <3>3, NoAppAssumption
    <3>5. QED
      BY <1>4, <1>6, <2>1, <3>2, <3>4, ReceiptSecure
  <2>4. QED
    BY <1>1, <1>4, <1>6, <2>1, <2>2, <2>3
<1>7. QED
  BY <1>5, <1>6

\* What the observer concludes from a state holds in it.
LEMMA ObserveInv ==
    ASSUME LifeInv, NEW a \in AppAccounts, Observe(a), UNCHANGED <<apps, now>>
    PROVE  LifeInv'
<1> DEFINE up == apps[a].up
<1>1. /\ apps[a] # NoApp /\ up \in Upgrade /\ up.code = Shipped /\ now \in Nat
  BY InstantsAssumption DEF LifeInv, LifeTypeOK, AppTypeOK, AppState, Observe, Running
<1>2. watch' = [app |-> a, until |-> NoticeUntil(up, now), known |-> KnownCodes(up)]
  BY DEF Observe
<1>3. NoticeUntil(up, now) \in Nat /\ KnownCodes(up) \in SUBSET Codes
  BY <1>1, NoticeGrows, UpgradeFields DEF KnownCodes
<1>4. Secure(up, NoticeUntil(up, now), KnownCodes(up), now)
  BY <1>1, <1>3, UpgradeFields DEF Secure, KnownCodes
<1>5. LifeTypeOK'
  BY <1>2, <1>3 DEF LifeInv, LifeTypeOK, AppTypeOK, Watch
<1>6. Noticed'
  BY <1>1, <1>2, <1>4 DEF Noticed
<1>7. QED
  BY <1>5, <1>6 DEF LifeInv

\* Time passes to the observer's favour.
LEMMA TickInv ==
    ASSUME LifeInv, Tick, UNCHANGED <<apps, watch>>
    PROVE  LifeInv'
<1>1. now \in Nat /\ now' \in Nat /\ now' \in Instants /\ now <= now'
  BY InstantsAssumption DEF LifeInv, LifeTypeOK, Tick
<1>2. LifeTypeOK'
  BY <1>1 DEF LifeInv, LifeTypeOK, AppTypeOK
<1>3. SUFFICES ASSUME watch # NoWatch
               PROVE  Secure(apps[watch.app].up, watch.until, watch.known, now')
  BY <1>2 DEF LifeInv, Noticed
<1> DEFINE up == apps[watch.app].up
<1>4. /\ up \in Upgrade /\ watch.until \in Nat
      /\ Secure(up, watch.until, watch.known, now)
  BY <1>3 DEF LifeInv, LifeTypeOK, AppTypeOK, AppState, Noticed, Watch
<1>5. NoticeUntil(up, now) <= NoticeUntil(up, now') /\ NoticeUntil(up, now) \in Nat
      /\ NoticeUntil(up, now') \in Nat
  BY <1>1, <1>4, NoticeGrows
<1>6. QED
  BY <1>1, <1>4, <1>5 DEF Secure

\* Every step keeps the invariant.
LEMMA LifeInvNext == LifeInv /\ [LifeNext]_lifeVars => LifeInv'
<1> SUFFICES ASSUME LifeInv, [LifeNext]_lifeVars PROVE LifeInv'
  OBVIOUS
<1>1. CASE UNCHANGED lifeVars
  BY <1>1 DEF lifeVars, LifeInv, LifeTypeOK, AppTypeOK, Noticed
<1>2. QED
  BY <1>1, AppStepInv, ObserveInv, TickInv DEF LifeNext

\* The invariant holds of every life.
THEOREM LifeInvariant == LifeSpec => []LifeInv
<1>1. QED
  BY LifeInvInit, LifeInvNext, PTL DEF LifeSpec

\* Contract states, the clock and the observer are well typed.
THEOREM LifeTypeCorrect == LifeSpec => []LifeTypeOK
<1>1. LifeInv => LifeTypeOK
  BY DEF LifeInv
<1>2. QED
  BY <1>1, LifeInvariant, PTL

\* The notice given by staged code and staging durations is kept, whatever is
\* staged, shortened or deployed afterwards (app/src/lib.rs:38-44).
THEOREM NoticeKeptCorrect == LifeSpec => []NoticeKept
<1>1. LifeInv => NoticeKept
  BY DEF LifeInv, Noticed, NoticeKept, Secure
<1>2. QED
  BY <1>1, LifeInvariant, PTL

-----------------------------------------------------------------------------
(* What a step may never do *)

\* Without an owner, an admin and a super admin, and with no deployment under way,
\* no step changes the app.
LEMMA OrphanStep ==
    ASSUME LifeInv, [LifeNext]_lifeVars, NEW a \in AppAccounts, Running(a),
           Unadministered(apps[a].acl), apps[a].acl.grantees["Owner"] = {},
           apps[a].up.deploying = {}
    PROVE  apps'[a] = apps[a]
<1>1. /\ AppTypeOK /\ now \in Nat
      /\ apps \in [AppAccounts -> AppState \cup {NoApp}]
      /\ apps[a] \in AppState /\ apps[a] # NoApp /\ apps[a].up \in Upgrade
      /\ apps[a].acl \in Acl({"Owner"}) /\ apps[a].up.code = Shipped
  BY InstantsAssumption DEF LifeInv, LifeTypeOK, AppTypeOK, Running, AppState
<1>2. CASE AppStep
  <2>1. PICK b \in AppAccounts : Create(b) \/ AppCall(b, now) \/ AppReceipt(b)
    BY <1>2 DEF AppStep
  <2>2. CASE b # a
    <3>1. \E s : apps' = [apps EXCEPT ![b] = s]
      <4>1. CASE Create(b)
        BY <4>1 DEF Create
      <4>2. CASE AppCall(b, now)
        BY <1>1, <4>2, CallShape
      <4>3. CASE AppReceipt(b)
        BY <1>1, <4>3, ReceiptShape
      <4>4. QED
        BY <2>1, <4>1, <4>2, <4>3
    <3>2. QED
      BY <1>1, <2>2, <3>1
  <2>3. CASE b = a /\ Create(a)
    BY <1>1, <2>3 DEF Create
  <2>4. CASE b = a /\ AppCall(a, now)
    <3>1. ~OwnerCalls(a)
      BY DEF OwnerCalls, HasRole
    <3>2. change_acl(a)
      BY <1>1, <2>4, <3>1, CallShape
    <3>3. PICK caller \in Accounts :
             \E list \in AclCalls(apps[a].acl, caller) : apps' = [apps EXCEPT ![a].acl = list]
      BY <3>2 DEF change_acl
    <3>4. PICK list \in AclCalls(apps[a].acl, caller) : apps' = [apps EXCEPT ![a].acl = list]
      BY <3>3
    <3>5. list = apps[a].acl
      BY <1>1, <3>4, EmptyAclStays
    <3>6. apps'[a] = [apps[a] EXCEPT !.acl = apps[a].acl]
      BY <1>1, <3>4, <3>5
    <3>7. QED
      BY <1>1, <3>6 DEF AppState
  <2>5. CASE b = a /\ AppReceipt(a)
    BY <1>1, <2>5, ReceiptShape, DeployReceiptType
  <2>6. QED
    BY <2>1, <2>2, <2>3, <2>4, <2>5
<1>3. QED
  BY <1>2 DEF LifeNext, lifeVars, Observe

\* An app that nobody administers is frozen (app/src/lib.rs:28-31).
THEOREM OrphanFrozenCorrect == LifeSpec => OrphanFrozen
<1>1. LifeInv /\ [LifeNext]_lifeVars
        => [\A a \in AppAccounts :
              /\ Running(a)
              /\ Unadministered(apps[a].acl) /\ apps[a].acl.grantees["Owner"] = {}
              /\ apps[a].up.deploying = {}
              => apps'[a] = apps[a]]_lifeVars
  BY OrphanStep
<1>2. QED
  BY <1>1, LifeInvariant, PTL DEF LifeSpec, OrphanFrozen
=============================================================================
