# A verification of near-kms

near-kms is a key management service for confidential VMs on the NEAR chain: a KMS contract
(`src/contracts/kms`) that verifies TEE attestations and asks an MPC contract for root keys, and an
app contract (`src/contracts/app`), one instance per application, that the KMS deploys and registers.
This directory holds TLA+ modules for both contracts, TLC configurations that check them on small
instances, and TLAPS proofs that lift the central results to every instance.

## 1. The system

| Component | State | Operations | Where |
|---|---|---|---|
| KMS access control and pause switch | the ACL (super admins, admins and grantees of the roles Owner, Dao, PauseManager, UnpauseManager), paused features | `acl_*`, `pa_pause_feature`, `pa_unpause_feature` (near-plugins), the guards `access_control_any` and `pause` | `kms/src/lib.rs:39-85,142-145` |
| App factory and registry | `registered_apps`; receipts under way; account balances | `register_app`, the deployment batch, `on_app_contract_deployed`, the deposit refund, `is_app_registered`, `get_registered_apps` | `kms/src/app.rs`, `kms/src/view.rs:6-19` |
| App contract | compose hashes, devices, `allow_any_device`, `upgrades_disabled`, `kms_contract_id`, its ACL, its pauses | `new`, `add_/remove_compose_hash`, `add_/remove_device`, `set_allow_any_device`, `disable_upgrades`, `acl_*`, `pa_*`, `is_app_allowed` | `app/src` |
| Code upgrades, of the KMS and of each app | the running code, staged code and when it is ready, the staging duration and its staged update, deployment receipts under way | the `up_*` methods (near-plugins), the deployment receipt | `kms/src/lib.rs:73-81`, `app/src/lib.rs:36-44` |
| Request parsing | none | `Collateral::from_str`, `hex::decode`, TCB info from JSON | `kms/src/lib.rs:163-170`, `kms/src/attestation/collateral.rs` |
| Attestation verification | none | `verify` and the checks it makes, loading the expected measurements | `kms/src/attestation` |
| Root-key requests | `kms_allowed_compose_hashes`, the block time, requests at the MPC contract | `add_/remove_kms_compose_hash`, `request_kms_root_key`, the MPC's answer or failure | `kms/src/lib.rs:150-243` |
| Configuration and boot verdict | `gateway_app_id`, `kms_info`, OS-image, aggregated-MR and device lists | the setters, `add_/remove_*`, `is_kms_allowed` | `kms/src/lib.rs:245-355`, `kms/src/view.rs:46-75` |
| MPC contract | external | `request_app_private_key` | `mock-mpc`, `kms/src/ext/mpc.rs` |
| Events; `upgrade.rs` (not part of the build); scripts | none | | not modelled, section 8 |

How they interact. Contract calls are transactions that turn into *receipts*; each receipt runs
atomically on one account, and between two receipts any other call may run. A panic undoes the receipt
it happens in and no other. `register_app` is three or four receipts: the call on the KMS, a batch on the
new account (create, transfer, deploy, `new`: all or nothing), the callback on the KMS, and after a
failed batch a refund to the batch's predecessor, which is the KMS and not the caller.
`request_kms_root_key` is two: the call, and the MPC contract's own; the KMS registers no callback.
`up_deploy_code` is two as well: the call, and a receipt that replaces the code.
App contracts never call the KMS, nor the KMS them; they are tied by `kms_contract_id` and the registry.

What is hard. Two registrations of one id are both accepted, because nothing is recorded before the
batch runs. The app is alive, and its owner can call it, before the KMS has registered it. Pause and
roles are looked at when a call starts and not in its callback. A batch fails at any of its four actions,
the money having left already. Allowlist entries are strings nobody checks, compared as strings by the
views and as bytes by requests. A request meets the allowlist, the pause switch and the clock of its own
block, with a block time in milliseconds floored to the seconds collateral is dated in. Quote, collateral,
TCB info and event log are data handed in by the requester, in any combination. Roles can be revoked until
nobody can undo anything. Code is replaced in steps that time passes between, on an app whose registration
is still under way, or on the KMS itself with callbacks still to come.

What makes each part correct:

* access control: a pause that nobody is left to undo lasts until the contract's own key appoints somebody;
* factory: one call creates an account; failures leave no trace but the refund; the registry lists
  existing apps of this KMS, each once; deposits are conserved; every call settles;
* app contract: without owner and admin it is frozen;
* upgrades: whoever has read the staging durations can rely on the notice they give;
* attestation: an accepted log holds what the VM measured, and the accepted compose file is what it booted, as far
  as the bytes of an event split into name and payload in one way;
* root keys: the MPC contract is asked only on a current, genuine quote bound to the signer, for a compose
  digest listed at that moment and, under the same condition on bytes, booted by the VM; a VM that follows the
  protocol is served; revoking or pausing stops later requests and leaves the one under way alone;
* configuration: what is published can be traced to its last publication;
* together: pausing everything, or losing the owner, closes every way in and strands nothing.

`PROJECT.json` lists under `hazards` each place in the code where one of these could go wrong.

## 2. The modules

```
AccessControl ── KmsAccess ────┬── AppFactory ──┐      AppRegistry   (abstract registry)
      │                        │                │      KeyGrants     (abstract root-key requests)
      ├─ AppContract ──────────┘                │
Upgradable ┘   └── AppLifecycle                 ├── KmsSystem
Clock ─────────┴───┐                            │
RequestParsing ── Attestation ──┬── RootKey ────┤
                                └ MeasuredBoot  │
                 KmsAccess ───── KmsConfig ─────┘
```

* **AccessControl** - the near-plugins ACL as a record, one operator per `acl_*` method giving the ACLs
  a call can lead to. `acl_transfer_super_admin` adds and then removes a super admin, a composition of
  two operators. Shared by both contracts.
* **Upgradable** - the near-plugins upgrade state as a record, one operator per `up_*` method giving the
  states a call at a time can lead to, and the deployment receipt. Shared by both contracts. `NoticeUntil`
  says from the state alone before when no other than the known code can be deployed.
* **Clock** - the block time in milliseconds, as a variable that moves forward by any amount.
* **KmsAccess** - `acl` and `paused`; `Permitted(roles)` is `#[access_control_any]` ("some account with
  one of the roles calls"), `NotPaused(method)` is `#[pause]`, which also stops on the key `ALL`.
  `acl_init_super_admin` is private to the KMS account and works only while there is no super admin; the
  deployment scripts keep that account's key, so it is an action here.
* **AppContract** - a function `apps` from app accounts to contract states, with one action per method.
  App accounts that the KMS creates hold no access key, so private methods are out of reach there.
  Foreign code, once deployed, does there what it likes (`foreign_code`): it may leave any contract state in the constant
  `Rewrites`, with its own code or the shipped code redeployed over it, or delete the account, after which the id
  can be registered again.
* **AppLifecycle** - the app contract against the clock, from creation to the end, with an observer that
  reads one app's upgrade state once and keeps what it concluded from it (`watch`), until other code has run there.
* **AppFactory** - one registration per `CallIds`; `status` is the receipt it has got to
  (`deploying`, `deployed` or `failed`, `registered` or `rejected`), `refund` the refund receipt. A call that panics is
  no step. Account ids are sequences of labels, so dotted and over-long ids are inputs: `a.b` under
  `kms.near` is no direct subaccount, and the batch's `create_account` fails.
* **AppRegistry** - the abstract registry: claim an account once, publish it once, at the end of the list.
* **RequestParsing** - which strings of a request parse and to what. A hex string is its bytes with a
  spelling, or `BadHex`; a JSON object is a function from field names; an optional value is a set of at
  most one.
* **Attestation** - the checks of `verify_attestation` as operators. Hashes and Intel's signatures are
  injective terms. `secure_time` is one of `"none"`, `"true"`, `"false"` for `Option<bool>`. Event names and payloads
  are byte strings, cut into tokens. `event_digest` hashes them joined by `Separator`, the byte `':'`, and without
  their lengths, as the code does, so a name and a payload that split the same bytes elsewhere have the same digest.
  Digests are bytes too and may hold the separator: of those listed in `SeparatorFirst` it is the first byte.
  `NamesUnsplit` and `ComposesUnsplit` say when the place to split is settled. Event types are numbers of
  fixed width and need no such care. `Kept` is `Iterator::filter` and `Replay` the loop over the digests, both as
  functions of the place they have got to. `Register` and `MeasuredComposes` say what the VM on the other side does at its boot.
* **MeasuredBoot** - a VM that measures events into RTMR3 next to an arbitrary log. `ReplayExact` relates the bytes of
  the two, and, where names hold no separator, the events themselves; `ComposeBound` does so for compose files.
* **RootKey** - the allowlist and the requests. A request names its three strings and its signer, in any
  combination; its attestation is what they parse to. `boot` and `os_image` of a quote are not
  handed in: they record what the VM did, for the properties alone. `QuoteAssumption` ties `boot` to the register a
  genuine quote reports, and `FollowsProtocol` says what an honest VM hands in; neither is code of the KMS.
* **KeyGrants** - the abstract root-key service: while open, a key is asked for on behalf of a digest that
  is approved at that moment, once per request; what was asked for comes to one end.
* **KmsConfig** - the remaining state and its setters. `published` is a history variable: the last info
  set as a whole, and what was refreshed since.
* **KmsSystem** - all of it in one next-state relation, with the code of the KMS (`kms_up`); `Admin` steps
  are what owners and admins decide (also app owners' calls), `Traffic` is users, foreign code and the
  runtime. When other code runs at the KMS account, the KMS's methods and callbacks are gone, while
  receipts at other accounts still run. `replaced` records the app accounts other code was deployed at. Foreign code
  there spends the account's balance, and deleting the account pays out what is left.
* **MC\*** - the instances. **\*_proofs** - the proofs.

Operators named `Bug_X` are the slips the properties are measured against: each stands before the
definition it replaces and is used nowhere else in the specifications (a pause check forgotten, a
transfer left out of the batch, a callback that ignores the result, a setter without its guard...). `PROJECT.json` pairs each with the property
that fails when it takes its definition's place.

## 3. Runs that pass

| Run | Bounds | What it shows |
|---|---|---|
| `app_factory` (MCAppFactory) | 2 calls, 4 ids (two good, one dotted, one too long), deposits below and above the storage cost, `new` with good and panicking arguments, one owner whose role and pauses change at any time, pages of 1 | `CreatedByWinner`, `RegisteredSound`, `DepositConserved`, `PagesFit`, `PauseDrains`, `Settles`, and `ImplementsRegistry` |
| `system` (MCKmsSystem) | 2 registrations of one id with deposits below or above the cost, 1 request, 3 administrative calls of any kind anywhere between the receipts, one foreign code, which may tie the account to another KMS | `ListedRun`, with app owners interfering, replacing the code and giving the account up; `OwnerlessStandsStill`, `PauseAllStops`, `SettlesUnlessUpgraded` |
| `root_key` (MCRootKey) | 5 quotes, 8 collaterals and 5 TCB infos in any combination, 1 request, 4 instants around the first and the last second of the collaterals, all subsets of 4 strings (two spellings of one digest, another, a malformed one) | `KeysOnlyToApproved`, `HonestServed`, `ImplementsGrants` |
| `measured_boot` (MCMeasuredBoot) | boots of up to 2 events out of 4, one compose digest and one event name with the separator, logs of up to 3 entries out of faithful and differently wrong ones | `ReplayExact`, `ComposeBound` |
| `kms_admin` (MCKmsConfig) | 1 account, 3 roles, every ACL, 2 pausable keys, 2 key pairs, 2 quotes | `PauseLatches`, `InfoTraceable` |
| `app_contract` (MCAppLifecycle) | 1 app, 1 account whose roles come and go, one foreign code, 4 instants, staging durations unset, 0 and 2 | `NoticeKept`, `OrphanFrozen` |

Where the code could break it, a run checks the module's type invariant too. Why the bounds are enough: two calls are what a race needs, and
`AppFactory_proofs` covers any number; the registry grows by each call once, so two entries show order,
pagination by ones and duplicates; one request suffices since requests share nothing but the allowlist,
which is arbitrary; a log entry more than events measured is what skipping, repeating and foreign entries
need, and `MeasuredBoot_proofs` covers any lengths; instants 0, 999, 1000 and 2000 lie before, in and after the seconds in which some collateral starts or ends; two durations, one longer than a step of the clock, over four instants let a shortening be staged,
ripen and be applied while code is staged; three administrative calls are an app owner's staging,
deploying and a change on the KMS before or after, or a granting, a change and a revocation, and
`KmsSystem_proofs` covers any number of them. One
account suffices for roles because no guard compares two callers: an operation asks whether somebody with the
role calls. `KmsSystem` is bounded in administrative calls only because its product is large; the
parts are unbounded in their own runs. `Rewrites` holds fresh contract states, with foreign or shipped code, staged or not,
and in `system` tied to another KMS; the proofs take any set of states. It is empty in `app_factory`, where no code is replaced. The `Dao` role grants nothing in the code and is left out of the instances.

Deadlock is checked in `app_factory`, `root_key` and `kms_admin`. It is off where the model
really stops: `measured_boot` at its length bounds, `app_contract` at the last instant with the only account
orphaned, `system` when its administrative calls are used up.

## 4. Fairness

`Settles` and `SettlesUnlessUpgraded` assume weak fairness of receipts and nothing else: the NEAR runtime executes
every receipt it has accepted. The composed system adds that the MPC contract answers or lets its own deadline
pass, for `AnswerIsStored` (section 5). No fairness is assumed of users, owners or the clock;
pausing, revoking and replacing code stay possible at any time, and the properties hold under all of it. In
the composed system the fairness of a callback is that of the KMS's code: once other code runs there, nothing is
assumed of it, which is the one way a registration may not end.

## 5. Where code and documents disagree

Each of these runs checks one sentence of the documentation against the model and ends in a
counterexample.

| Run | Sentence | Code |
|---|---|---|
| `app_disabled_upgrades` | "Permanently disable upgrades" (`app/src/lib.rs:134`) | nothing reads `upgrades_disabled`; staged code is deployed all the same |
| `app_boot_tcb` | "including compose hash, device ID, and TCB status" (`README.md:169`) | `is_app_allowed` reads two of the three |
| `root_key_view_agrees` | "Check if a KMS compose hash is allowed" (`view.rs:120`) | the view compares strings, a request compares decoded bytes |
| `root_key_listed_accepted` | "checks compose hash is in allowlist" (`README.md:390`) | one entry that is no 32-byte hex string makes every request panic |
| `system_os_image` | "Only approved OS image hashes are allowed" (`README.md:266`) | a root-key request never reads the list; the OS is fixed by the embedded measurements instead |
| `system_answer_stored` | "returned via callback to `set_kms_info`" (`README.md:393`) | there is no callback; storing the info is up to the owner |

## 6. What is proved

Every theorem holds for every value of the constants, under the assumptions the modules name, which TLC evaluates
in every run that extends the module. Most are typing facts about constants, or absence values being none of the
values they stand beside. These say more:

* `FiniteAccountsAssumption` (AppFactory): there are finitely many account ids. They are words of bounded length;
  without it the sum of the balances would mean nothing.
* `RewritesAssumption` (AppContract): what foreign code leaves, where other contracts look, is a contract state.
* `SeparatorAssumption` (Attestation): the name `compose-hash` does not hold the separator.
* `EventsAssumption`, `EntriesAssumption` (MeasuredBoot): an event is its name and its payload; these, and those of the
  entries of a log, are finite sequences of bytes. They may hold the separator.
* `LogAssumption`, `StatementsAssumption`, `MeasurementsAssumption` (RootKey): the parser makes a list of the
  event log, of entries with byte strings in them; Intel dates its statements with natural numbers; and the measurements
  compiled into the contract load.
* `QuoteAssumption` (RootKey): what a quote means. A genuine platform reports in RTMR3 what its VM measured, a list of
  events; the image with the expected registers, which is dstack's, measures its compose file. This is the trust that
  remote attestation rests on; the code can check the signature and nothing behind it.
* `HonestAssumption` (RootKey): the inputs of `HonestServed` are those of VMs that follow the protocol, as
  `FollowsProtocol` spells out: the expected image, Intel's collateral, a log with one entry for every measured event
  in any spelling among entries of other registers, and the compose file that was measured. Times and
  the allowlist are not part of it.

```
Lemmas ─┬── AppContract_proofs ──┬── AppLifecycle_proofs
        │                        └── AppFactory_proofs ──┐
        ├── KmsConfig_proofs ────────────────────────────┼── KmsSystem_proofs
        ├── RootKey_proofs ──────────────────────────────┘
        └── MeasuredBoot_proofs
```

`Lemmas` holds what the proofs have in common:

* the ACL: no call of the plugin brings in an account or a role (`AclCallsType`); nobody who administers nothing can
  appoint anybody (`NobodyAppoints`), so that a list of nobody stays one (`EmptyAclStays`);
* induction. `NatInductionSet` is induction over a set of numbers, and `MinimalSubset` finds a least set among
  those with a property, by which finite sets are taken apart. Both speak of sets and not of predicates, so that they
  can be cited with any; the definitions by recursion are approached through them: one lemma says that the
  function exists with its equations (`KeepingExists`, `ReplayingExists`), the next what it comes to;
* sums: a sum over a finite set is a number, is zero when all is zero (`SumZero`), and changes by what is added in one place
  (`SumTakes`, `SumAdd`);
* filters: what `Kept` keeps are the members that qualify, each from a place of its own (`KeptPlaces`), the whole list if
  all do (`KeptAll`), and one member if and only if one place holds it (`OneKept`);
* replays: `ReplayRegisters`, `ReplayInjective` (two lists of digests with one replay are one list; hashes are injective
  terms), `ReplayedPlaces`, and from them `AcceptedReplay` (the entries of a log the replay accepts stand for the events
  measured, byte by byte) and `RecordedReplay` (the converse, for a log with all its digests);
* bytes: `BytesAt` says what stands where when a name and a payload are joined, `SplitAlike` that names of one length make the
  same split, `SplitOnce` that bytes with one separator split once. `ComposeEntry` uses them on the entry of a compose event;
  `ComposeMeasured` and `ComposeOnly` relate the compose file of an accepted log to those measured.

`AppContract_proofs` holds lemmas: what a call can leave of an app (`CallLeaves`, `CallShape`) and what a receipt
can (`ReceiptShape`). The proofs above cite these shapes and not the thirteen methods one by one.

`AppFactory_proofs`:

* `FactoryInvariant`: `FactoryInv` is inductive. `CreatedByWinner` alone is not: nothing in it says
  that the account of a call that won still has a contract, on which the failure of a second batch
  depends (`WonExists`), nor that an account without a contract holds no deposit, on which `balance = deposit`
  depends (`UnclaimedIsEmpty`). `Registered` and `Distinct` need `WonOnce`: a callback may append without
  looking only because no other call has won the account. `Owed` says a refund belongs to a failed batch.
  One lemma per action (`RegisterStep`, `DeployStep`, `UndoneStep`, `RefundStep`, `CallbackStep`, and
  `OutsideStep` for readers and the plugins' calls). The typing lemmas rest on types and `Owed` alone, so that
  `KmsSystem_proofs` can use them too.
* From it `FactoryTypeCorrect`, `CreatedByWinnerCorrect`, `RegisteredSoundCorrect`, `PauseDrainsCorrect`.
* `FactoryImplementsRegistry`: the receipts implement `AppRegistry`. A batch that goes through is a claim,
  a callback that inserts is a publication, everything else stutters.
* `PagesFitCorrect`: a prefix of a list that grows at its end stays one, and the page behind it continues it.
* `DepositConservedCorrect`, with the invariant `DepositInv`, which adds that finitely many calls have been made. A call adds
  its deposit to both sides (`RegisterConserves`); whatever arrives, at an app account or at the KMS, leaves the
  flight (`ArrivalConserves`, and of it `DoneConserves` and `RefundConserves`); a failed batch changes the way and not
  the amount (`OthersConserve`). `Owed` is what makes a refund the return of a deposit that is still in flight.

`AppLifecycle_proofs`:

* `LifeInvariant`. `NoticeKept` speaks of what is deployed and is not inductive. `Secure` adds the two ways
  the notice could break later: code the observer does not know is staged and becomes ready too early, or the
  staging duration becomes too short. It bounds both from the state, the second by `NoticeUntil` itself, which
  time only moves forward (`NoticeGrows`) and no method brings below what it was (`UpCallsSecure`).
  A state foreign code left is no concern of an observer, who counts on nothing from then on.
* From it `LifeTypeCorrect` and `NoticeKeptCorrect`; `OrphanFrozenCorrect` from the shapes of calls and receipts.

`MeasuredBoot_proofs`: `BootInvariant`, that the register is the replay of what was measured; `ReplayExactCorrect` and
`ComposeBoundCorrect` from it and the lemmas on replays, for boots and logs of any length. `AcceptedIsMeasured` compares
the entries with a digest to the events, place by place (`RecordedAt`, `RecordedLength`); `FaithfulIsAccepted` is the other
direction. The compose file is the one measured because exactly one entry claims to be one and every event has its entry,
under its own name where the bytes split in one way.

`KmsConfig_proofs`: `AccessTypeCorrect`; `PauseLatchesCorrect`, because a locked contract has nobody to unpause and,
by `LockStays`, no call of the ACL but the contract's own gives it anybody; `ConfigInvariant`, types with
`InfoTraceable`, inductive because what is published is a `KmsInfo` and never the absent one; from it
`ConfigTypeCorrect` and `InfoTraceableCorrect`.

`RootKey_proofs`:

* `KeyInvariant`: types; that what was accepted had parsed (`AcceptedParses`), without which its parts could not
  be spoken of; and `KeysOnlyToApproved` itself. It stays true because a request keeps its inputs and its time (`AcceptedStays`).
  `VerifiedVouched` reads off a verification what it says of quote and collateral, where `SecondsFloor` turns the
  floored seconds of the check into the milliseconds of the property; `VerifiedBooted` what it says of the boot. The log
  may leave entries unreplayed, so an accepted one shows at most one compose file of the VM; that the VM has measured
  one at all follows from its image (`QuoteAssumption`). What is said of the boot has the condition `Settled`: no name
  of the log holds the separator, or no compose digest that the VM measured does.
* `RootKeyTypeCorrect`, `KeysOnlyToApprovedCorrect`.
* `HonestServedCorrect`, check by check: the honest log replays to the register (`HonestLog`), holds one compose event with
  the right payload (`HonestCompose`), the collateral parses to what Intel signed, with or without a PCK chain of its own
  (`HonestCollateral`, `PckOneSource`), and is valid in whole seconds when it is valid in milliseconds (`SecondsWithin`).
* `RequestsImplementGrants`: an accepted request is a grant, the MPC contract's answer or failure its conclusion,
  and everything the owners do is government, which leaves grants alone.

`KmsSystem_proofs`:

* `SystemInvariant`. `FactoryInv` is false of the composed system: owners change their apps, and foreign code
  rewrites accounts or gives them up, which a second call may then claim. What remains inductive is `AppsInv`: an app that
  exists is claimed and, unless its owner replaced the code, names this KMS (`Tied`); a claimed account runs the shipped
  code or is known as replaced (`ClaimedRun`); what is listed is claimed (`ListedClaimed`). `FactoryStep` reduces the
  next-state relation to the ways a step concerns the factory.
* `ListedRunCorrect`, `SystemTypeCorrect`, `OwnerlessStandsStillCorrect`, `PauseAllStopsCorrect`. They hold
  without the bound on administrative calls meaning anything: `MaxAdminCalls` is any number. Deposits are not conserved here,
  since foreign code spends what its account holds.
* `SystemPagesFit`: the factory's lemmas on pages rest on types and `Owed`, which hold here too, and on what a
  step does to the registry (`RegistryStep`).
* `SystemImplementsRequests`, `SystemImplementsConfig`, `SystemImplementsAccess`: every behaviour of the system is one of
  `RootKey`, of `KmsConfig` and of `KmsAccess`, step by step. What the parts promise therefore holds of the whole:
  `SystemKeysOnlyToApproved`, `SystemHonestServed`, `SystemImplementsGrants`, `SystemInfoTraceable`, `SystemPauseLatches`.

Model-checked only: `Settles` and `SettlesUnlessUpgraded`, which are liveness under fairness and out of the
prover's reach. Every safety invariant, action property and refinement that a run checks is also a theorem.

## 7. Plan

Done: the modules of section 2 and the proofs of section 6.

Next, in this order: the app contract's own properties (`OrphanFrozen`, the notice of new code) for the apps of
the composed system; two requests in `KmsSystem`, at fewer administrative calls; two apps in `MCAppLifecycle`, to
check the shapes of `AppContract_proofs` on more than one account.

## 8. Not modelled

The inside of `dcap_qvl`, of the plugins, of JSON and hex parsing and of the NEAR runtime beyond what the code
relies on; gas, and with it what an allowlist without limit costs a request; one-yocto deposits; events and
logs; `upgrade.rs`, which `lib.rs` does not declare as a module; the `Local` attestation, which the contract
never builds; checks that are commented out (`_verify_local_sgx_digest`, `_verify_mpc_hash`), and with them the
digest and version that `ExpectedMeasurements` holds for them; `worker_public_key`, the derivation path and the
domain id, which are passed through to the MPC contract unread; the mock MPC's table of dummy answers; views that
return a field as it is; the makefile, the shell scripts and the integration tests. Foreign code at an app account is modelled by what
it may leave there, and not by the calls it makes; what other code does at the KMS account is not modelled at all, only
that the KMS's own methods and callbacks are gone. The fixed timestamp of the `test` build is one of the instants of the clock.

What the statements on attestation leave open. The digest of an event does not delimit name and payload, so a verified log
determines the bytes of the measured events and not, in every case, which part of them is the name. `ReplayExact`,
`ComposeBound` and `KeysOnlyToApproved` therefore speak of names and compose files under the conditions given with them;
nothing is claimed of logs outside these conditions beyond the equality of bytes.
