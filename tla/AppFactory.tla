----------------------------- MODULE AppFactory ------------------------------
(***************************************************************************)
(* The app factory of the KMS contract (contracts/kms/src/app.rs and the   *)
(* registry reads of view.rs), with the NEAR receipts that carry a call:   *)
(*                                                                         *)
(*   register_app       runs on the KMS and emits one batch receipt to the *)
(*                      new account (create, transfer, deploy, new) and,   *)
(*                      behind it, a callback receipt;                     *)
(*   ExecuteDeployment  runs the batch at the app account, all or nothing; *)
(*   on_app_contract_deployed  the callback; inserts into registered_apps  *)
(*                      or panics;                                         *)
(*   RefundDeposit      the runtime returns the deposit of a failed batch  *)
(*                      to the batch's predecessor, which is the KMS.      *)
(*                                                                         *)
(* Between any two of these, other calls run.  A call that panics changes  *)
(* nothing and is not a step.                                              *)
(***************************************************************************)
EXTENDS KmsAccess, AppContract, Naturals, Sequences, SequencesExt

CONSTANTS
    CallIds,       \* the register_app calls that are made
    AppIds,        \* the app_id arguments, each an account id
    KmsId,         \* the account id of the KMS; an id is a sequence of labels
    Kms,           \* KmsId as the value of kms_contract_id
    MaxIdLength,   \* the longest legal account id
    Deposits,      \* the attached deposits
    StorageCost,   \* what storing the app contract costs its account
    PageLimit,     \* the limit a client passes to get_registered_apps
    NoCall         \* no call made under this CallId

\* The string is parsed as an account id, which panics if it is too long: ValidId.
get_app_account_id(app_id) == app_id \o KmsId
ValidId(id) == Len(id) <= MaxIdLength

\* The runtime lets an account create its direct subaccounts only.
DirectSubaccount(id) == Len(id) = Len(KmsId) + 1

Call == [account : AppAccounts, args : InitArgs, deposit : Deposits]

ASSUME AppAccountsAssumption ==
    \A id \in AppIds : ValidId(get_app_account_id(id)) => get_app_account_id(id) \in AppAccounts
\* Account ids are words of bounded length over a finite alphabet.
ASSUME FiniteAccountsAssumption == IsFiniteSet(AppAccounts)
ASSUME KmsAssumption == Kms \in KmsIds
ASSUME NoCallAssumption == NoCall \notin Call
ASSUME AmountsAssumption == Deposits \subseteq Nat /\ StorageCost \in Nat /\ PageLimit \in Nat

VARIABLES
    calls,             \* what each register_app call asked for, or NoCall
    status,            \* how far it is
    refund,            \* the refund receipt of its deposit
    registered_apps,   \* the IterableSet of registered apps, in insertion order
    balance,           \* the deposit transferred to each app account
    kms_balance,       \* deposits that came back to the KMS
    seen               \* what a client has collected page by page

callVars == <<calls, status, refund>>
moneyVars == <<balance, kms_balance>>
factoryVars == <<apps, callVars, registered_apps, moneyVars, seen>>

Status == {"none", "deploying", "deployed", "failed", "registered", "rejected"}

FactoryTypeOK ==
    /\ AppTypeOK
    /\ calls \in [CallIds -> Call \cup {NoCall}]
    /\ status \in [CallIds -> Status]
    /\ refund \in [CallIds -> {"none", "due", "paid"}]
    /\ registered_apps \in Seq(AppAccounts)
    /\ balance \in [AppAccounts -> Nat]
    /\ kms_balance \in Nat
    /\ seen \in Seq(AppAccounts)
    /\ \A c \in CallIds : status[c] # "none" => calls[c] \in Call

RegisteredApps == {registered_apps[i] : i \in 1..Len(registered_apps)}

FactoryInit ==
    /\ AppInit
    /\ calls = [c \in CallIds |-> NoCall]
    /\ status = [c \in CallIds |-> "none"]
    /\ refund = [c \in CallIds |-> "none"]
    /\ registered_apps = <<>>
    /\ balance = [a \in AppAccounts |-> 0]
    /\ kms_balance = 0
    /\ seen = <<>>

-----------------------------------------------------------------------------
(* Registration *)

Bug_register_app(c) ==
    /\ status[c] = "none"
    /\ Permitted({"Owner"})
    /\ \E id \in AppIds, args \in InitArgs, d \in Deposits :
          /\ ValidId(get_app_account_id(id))
          /\ calls' = [calls EXCEPT ![c] = [account |-> get_app_account_id(id),
                                            args |-> args, deposit |-> d]]
    /\ status' = [status EXCEPT ![c] = "deploying"]
    /\ UNCHANGED <<refund, apps, registered_apps, moneyVars, seen>>

register_app(c) ==
    /\ status[c] = "none"
    /\ Permitted({"Owner"})
    /\ NotPaused("register_app")
    /\ \E id \in AppIds, args \in InitArgs, d \in Deposits :
          /\ ValidId(get_app_account_id(id))
          /\ calls' = [calls EXCEPT ![c] = [account |-> get_app_account_id(id),
                                            args |-> args, deposit |-> d]]
    /\ status' = [status EXCEPT ![c] = "deploying"]
    /\ UNCHANGED <<refund, apps, registered_apps, moneyVars, seen>>

Bug_BatchSucceeds(call) ==
    /\ DirectSubaccount(call.account)
    /\ call.deposit >= StorageCost
    /\ InitSucceeds(call.args)

\* Whether the batch create_account, transfer, deploy_contract, new goes through.
BatchSucceeds(call) ==
    /\ apps[call.account] = NoApp
    /\ DirectSubaccount(call.account)
    /\ call.deposit >= StorageCost
    /\ InitSucceeds(call.args)

Bug_BatchDone(c) ==
    LET call == calls[c] IN
    /\ BatchSucceeds(call)
    /\ apps' = [apps EXCEPT ![call.account] = new(call.args, Kms)]
    /\ status' = [status EXCEPT ![c] = "deployed"]
    /\ UNCHANGED <<refund, balance>>

BatchDone(c) ==
    LET call == calls[c] IN
    /\ BatchSucceeds(call)
    /\ apps' = [apps EXCEPT ![call.account] = new(call.args, Kms)]
    /\ balance' = [balance EXCEPT ![call.account] = @ + call.deposit]
    /\ status' = [status EXCEPT ![c] = "deployed"]
    /\ UNCHANGED refund

BatchUndone(c) ==
    /\ ~BatchSucceeds(calls[c])
    /\ status' = [status EXCEPT ![c] = "failed"]
    /\ refund' = [refund EXCEPT ![c] = "due"]
    /\ UNCHANGED <<apps, balance>>

ExecuteDeployment(c) ==
    /\ status[c] = "deploying"
    /\ BatchDone(c) \/ BatchUndone(c)
    /\ UNCHANGED <<calls, registered_apps, kms_balance, seen>>

RefundDeposit(c) ==
    /\ refund[c] = "due"
    /\ refund' = [refund EXCEPT ![c] = "paid"]
    /\ kms_balance' = kms_balance + calls[c].deposit
    /\ UNCHANGED <<calls, status, apps, registered_apps, balance, seen>>

\* IterableSet::insert: at the end, unless it is there.
Insert(s, a) == IF a \in {s[i] : i \in 1..Len(s)} THEN s ELSE Append(s, a)

Bug_Callback(c) ==
    /\ status[c] \in {"deployed", "failed"}
    /\ registered_apps' = Insert(registered_apps, calls[c].account)
    /\ status' = [status EXCEPT ![c] = "registered"]
    /\ UNCHANGED <<calls, refund, apps, moneyVars, seen>>

Bug_PausedCallback(c) ==
    /\ status[c] \in {"deployed", "failed"}
    /\ NotPaused("register_app")
    /\ IF status[c] = "deployed"
          THEN /\ registered_apps' = Insert(registered_apps, calls[c].account)
               /\ status' = [status EXCEPT ![c] = "registered"]
          ELSE /\ status' = [status EXCEPT ![c] = "rejected"]
               /\ UNCHANGED registered_apps
    /\ UNCHANGED <<calls, refund, apps, moneyVars, seen>>

\* Neither paused features nor the caller's role are looked at again here.
on_app_contract_deployed(c) ==
    /\ \/ /\ status[c] = "deployed"
          /\ registered_apps' = Insert(registered_apps, calls[c].account)
          /\ status' = [status EXCEPT ![c] = "registered"]
       \/ /\ status[c] = "failed"
          /\ status' = [status EXCEPT ![c] = "rejected"]
          /\ UNCHANGED registered_apps
    /\ UNCHANGED <<calls, refund, apps, moneyVars, seen>>

-----------------------------------------------------------------------------
(* The registry's readers *)

is_app_registered(account) == account \in RegisteredApps

Bug_get_registered_apps(offset, limit) ==
    SubSeq(registered_apps, offset + 2,
           IF offset + limit < Len(registered_apps) THEN offset + limit + 1 ELSE Len(registered_apps))

get_registered_apps(offset, limit) ==
    SubSeq(registered_apps, offset + 1,
           IF offset + limit <= Len(registered_apps) THEN offset + limit ELSE Len(registered_apps))

\* A client asks for the page behind what it has; registrations go on meanwhile.
ReadPage ==
    /\ Len(seen) < Len(registered_apps)
    /\ seen' = seen \o get_registered_apps(Len(seen), PageLimit)
    /\ UNCHANGED <<callVars, apps, registered_apps, moneyVars>>

-----------------------------------------------------------------------------
Receipts(c) == ExecuteDeployment(c) \/ RefundDeposit(c) \/ on_app_contract_deployed(c)

FactoryNext == (\E c \in CallIds : register_app(c) \/ Receipts(c)) \/ ReadPage

registrationVars == <<accessVars, factoryVars>>

RegistrationInit == AccessInit /\ FactoryInit
RegistrationNext == \/ FactoryNext /\ UNCHANGED accessVars
                    \/ AccessNext /\ UNCHANGED factoryVars

RegistrationSpec == RegistrationInit /\ [][RegistrationNext]_registrationVars

\* The runtime executes every receipt it has accepted.
ReceiptsRun == \A c \in CallIds : WF_registrationVars(Receipts(c) /\ UNCHANGED accessVars)
FairRegistrationSpec == RegistrationSpec /\ ReceiptsRun

-----------------------------------------------------------------------------
(* Properties *)

Won(c) == status[c] \in {"deployed", "registered"}

\* Whoever calls concurrently for the same account, it is created by one call,
\* with that call's arguments and deposit; the losers and the failed calls
\* leave no trace in it (the batch of app.rs:44-53 is all or nothing).
CreatedByWinner ==
    /\ \A a \in AppAccounts : apps[a] # NoApp =>
          \E c \in CallIds : /\ Won(c) /\ calls[c].account = a
                            /\ apps[a] = new(calls[c].args, Kms)
                            /\ balance[a] = calls[c].deposit
    /\ \A c, d \in CallIds : Won(c) /\ Won(d) /\ calls[c].account = calls[d].account => c = d

\* The registry lists only app contracts that exist, were initialised for this
\* KMS, and whose creation reported success; each once (app.rs:67-71).
RegisteredSound ==
    /\ \A a \in RegisteredApps :
          /\ apps[a] # NoApp /\ apps[a].kms_contract_id = Kms
          /\ \E c \in CallIds : status[c] = "registered" /\ calls[c].account = a
    /\ \A i, j \in 1..Len(registered_apps) : registered_apps[i] = registered_apps[j] => i = j

\* The accounts that are registered or may still become so.
Pipeline == RegisteredApps \cup {calls[c].account : c \in {d \in CallIds : status[d] \in {"deploying", "deployed"}}}

\* While register_app is paused, or nobody holds Owner, no account enters the
\* pipeline: the batches and callbacks of the calls already made, successful or not,
\* add none (app.rs:16-17).  That they complete all the same is Settles.
PauseDrains ==
    [][~NotPaused("register_app") \/ ~Permitted({"Owner"}) => Pipeline' \subseteq Pipeline]_registrationVars

DepositsOf(S) == SumFunctionOnSet([c \in S |-> calls[c].deposit], S)

\* Every deposit is in flight, on the account it paid for, or back at the KMS
\* (app.rs:46): never with two of them, never lost.
DepositConserved ==
    DepositsOf({c \in CallIds : status[c] # "none"})
      = DepositsOf({c \in CallIds : status[c] = "deploying" \/ refund[c] = "due"})
        + SumFunction(balance) + kms_balance

\* A client that pages through the registry while apps are being registered
\* sees every app once, in order (view.rs:12-19).
PagesFit == IsPrefix(seen, registered_apps)

\* Every call comes to an end, paused or not: its app is listed, or the call is
\* rejected and the deposit is back at the KMS.
Settles ==
    \A c \in CallIds :
        status[c] # "none" ~> \/ status[c] = "registered" /\ is_app_registered(calls[c].account)
                              \/ status[c] = "rejected" /\ refund[c] = "paid"

\* The factory implements the registry it promises.
Registry == INSTANCE AppRegistry WITH claims <- apps, published <- registered_apps
ImplementsRegistry == Registry!Spec
=============================================================================
