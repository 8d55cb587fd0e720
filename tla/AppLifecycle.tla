---------------------------- MODULE AppLifecycle -----------------------------
(***************************************************************************)
(* The life of app contracts over time: creation by the KMS's batch, the   *)
(* calls of their owners, upgrades with their staging durations and their  *)
(* deployment receipts.  An observer reads one app's upgrade state once    *)
(* (up_staged_code_hash, up_get_delay_status) and keeps what it concluded. *)
(***************************************************************************)
EXTENDS AppContract, Clock

CONSTANT NoWatch

Watch == [app : AppAccounts, until : Nat, known : SUBSET Codes]
ASSUME NoWatchAssumption == NoWatch \notin Watch

VARIABLE watch     \* what the observer concluded, or NoWatch

lifeVars == <<apps, now, watch>>

LifeTypeOK == AppTypeOK /\ now \in Instants /\ watch \in Watch \cup {NoWatch}

LifeInit == AppInit /\ ClockInit /\ watch = NoWatch

\* The batch of register_app, seen from the app account; AppFactory has it whole.
Create(a) ==
    /\ apps[a] = NoApp
    /\ \E args \in InitArgs, kms \in KmsIds :
          /\ InitSucceeds(args)
          /\ apps' = [apps EXCEPT ![a] = new(args, kms)]

Observe(a) ==
    /\ watch = NoWatch
    /\ Running(a)
    /\ watch' = [app |-> a, until |-> NoticeUntil(apps[a].up, now), known |-> KnownCodes(apps[a].up)]

AppStep == \E a \in AppAccounts : Create(a) \/ AppCall(a, now) \/ AppReceipt(a)

\* The observer has read the shipped code, and counts on nothing once other code
\* has run at the account.
LifeNext ==
    \/ AppStep /\ UNCHANGED now
       /\ watch' = IF watch # NoWatch /\ ~Running(watch.app) THEN NoWatch ELSE watch
    \/ (\E a \in AppAccounts : Observe(a)) /\ UNCHANGED <<apps, now>>
    \/ Tick /\ UNCHANGED <<apps, watch>>

LifeSpec == LifeInit /\ [][LifeNext]_lifeVars

-----------------------------------------------------------------------------
(* Properties *)

\* An app whose ACL has no owner, no admin and no super admin is frozen, unless
\* a deployment is already under way: the account holds no key that could repair
\* the ACL (AccessControllable, lib.rs:28-31).
OrphanFrozen ==
    [][\A a \in AppAccounts :
          /\ Running(a)
          /\ Unadministered(apps[a].acl) /\ apps[a].acl.grantees["Owner"] = {}
          /\ apps[a].up.deploying = {}
          => apps'[a] = apps[a]]_lifeVars

\* Whoever has read the staging durations of an app can rely on them: whatever
\* its owners stage, shorten or withdraw afterwards, no code it had not seen
\* staged or under way is deployed before the notice is over (lib.rs:38-44).
NoticeKept ==
    watch # NoWatch /\ now < watch.until
        => LET up == apps[watch.app].up
           IN  up.deploying \subseteq watch.known /\ up.code \in watch.known \cup {Shipped}

\* "Permanently disable upgrades" (lib.rs:134): with the flag set the code stays.
DisabledMeansNoUpgrade ==
    [][\A a \in AppAccounts :
          Running(a) /\ apps[a].upgrades_disabled => apps'[a].up.code = apps[a].up.code]_lifeVars

Boots == [compose_hash : Hashes, device_id : Devices, tcb_status : {"UpToDate", "OutOfDate"}]

\* README.md:169, "Validate app boot information including compose hash, device
\* ID, and TCB status": an app boots only on a TCB that is up to date.
BootChecksTcb ==
    \A a \in AppAccounts, boot \in Boots :
        Running(a) /\ is_app_allowed(apps[a], boot) => boot.tcb_status = "UpToDate"
=============================================================================
