-------------------------- MODULE AppFactory_proofs ---------------------------
(***************************************************************************)
(* Proofs about AppFactory, for every set of calls, accounts, arguments and*)
(* deposits.  FactoryInv strengthens what the runs check into an inductive *)
(* invariant: the account of a call that won exists (so a later batch for  *)
(* it fails), and an account without a contract holds no deposit.          *)
(***************************************************************************)
EXTENDS AppFactory, AppContract_proofs

\* Every app comes from a call that won, whose deposit it holds.
Created ==
    \A a \in AppAccounts : apps[a] # NoApp =>
        \E c \in CallIds : /\ Won(c) /\ calls[c].account = a
                           /\ apps[a] = new(calls[c].args, Kms)
                           /\ balance[a] = calls[c].deposit

\* The account of a call that won exists.
WonExists == \A c \in CallIds : Won(c) => apps[calls[c].account] # NoApp

WonOnce == \A c, d \in CallIds : Won(c) /\ Won(d) /\ calls[c].account = calls[d].account => c = d

UnclaimedIsEmpty == \A a \in AppAccounts : apps[a] = NoApp => balance[a] = 0

Registered ==
    \A a \in RegisteredApps :
        \E c \in CallIds : status[c] = "registered" /\ calls[c].account = a

Distinct == \A i, j \in 1..Len(registered_apps) : registered_apps[i] = registered_apps[j] => i = j

\* Only the deposit of a call whose batch failed is sent back.
Owed == \A c \in CallIds : refund[c] # "none" => status[c] \in {"failed", "rejected"}

FactoryInv == FactoryTypeOK /\ Created /\ WonExists /\ WonOnce /\ UnclaimedIsEmpty /\ Registered /\ Distinct
              /\ Owed

-----------------------------------------------------------------------------
(* Types *)

\* What `new` returns is the state of an app contract (app/src/lib.rs:65-98).
LEMMA NewType ==
    ASSUME NEW args \in InitArgs
    PROVE  new(args, Kms) \in AppState /\ new(args, Kms) # NoApp
           /\ new(args, Kms).kms_contract_id = Kms
<1>1. new(args, Kms) \in AppState
  BY CreatedType, KmsAssumption
<1>2. QED
  BY <1>1, NoAppAssumption DEF new

\* The initial state satisfies the invariant.
LEMMA FactoryInvInit == RegistrationInit => FactoryInv
<1> SUFFICES ASSUME RegistrationInit PROVE FactoryInv
  OBVIOUS
<1>1. FactoryTypeOK
  BY DEF RegistrationInit, FactoryInit, AppInit, FactoryTypeOK, AppTypeOK, Status
<1>2. /\ Created /\ WonExists /\ WonOnce /\ UnclaimedIsEmpty
      /\ Registered /\ Distinct /\ Owed
  BY DEF RegistrationInit, FactoryInit, AppInit, Owed, Created, WonExists, WonOnce, UnclaimedIsEmpty,
         Registered, Distinct, Won, RegisteredApps
<1>3. QED
  BY <1>1, <1>2 DEF FactoryInv
-----------------------------------------------------------------------------
(* Every step keeps the types.  Here the invariant is the types and Owed    *)
(* alone, so that these lemmas hold of the composed system too.             *)

\* A call is a Call.
LEMMA RegisterType ==
    ASSUME FactoryTypeOK, NEW c \in CallIds, register_app(c)
    PROVE  FactoryTypeOK'
<1>1. PICK id \in AppIds, args \in InitArgs, d \in Deposits :
         /\ get_app_account_id(id) \in AppAccounts
         /\ calls' = [calls EXCEPT ![c] = [account |-> get_app_account_id(id),
                                          args |-> args, deposit |-> d]]
  BY AppAccountsAssumption DEF register_app
<1>2. /\ status' = [status EXCEPT ![c] = "deploying"]
      /\ UNCHANGED <<refund, apps, registered_apps, balance, kms_balance, seen>>
  BY DEF register_app, moneyVars
<1>3. /\ \A e \in CallIds : e # c => status'[e] = status[e] /\ calls'[e] = calls[e]
      /\ calls'[c] \in Call /\ calls' \in [CallIds -> Call \cup {NoCall}]
  BY <1>1, <1>2 DEF FactoryTypeOK, Call
<1>4. status' \in [CallIds -> Status]
  BY <1>2 DEF FactoryTypeOK, Status
<1>5. QED
  BY <1>2, <1>3, <1>4 DEF FactoryTypeOK, AppTypeOK

\* The batch leaves a contract's state and a sum of money, or a refund.
LEMMA DeploymentType ==
    ASSUME FactoryTypeOK, NEW c \in CallIds, ExecuteDeployment(c)
    PROVE  FactoryTypeOK'
<1>1. calls[c] \in Call /\ calls[c].account \in AppAccounts /\ calls[c].args \in InitArgs
      /\ calls[c].deposit \in Nat /\ UNCHANGED <<calls, registered_apps, kms_balance, seen>>
  BY AmountsAssumption DEF ExecuteDeployment, FactoryTypeOK, Call
<1>2. CASE BatchDone(c)
  <2>1. /\ status' = [status EXCEPT ![c] = "deployed"] /\ UNCHANGED refund
        /\ apps' = [apps EXCEPT ![calls[c].account] = new(calls[c].args, Kms)]
        /\ balance' = [balance EXCEPT ![calls[c].account] = @ + calls[c].deposit]
    BY <1>2 DEF BatchDone
  <2>2. apps' \in [AppAccounts -> AppState \cup {NoApp}]
    BY <1>1, <2>1, NewType DEF FactoryTypeOK, AppTypeOK
  <2>3. balance' \in [AppAccounts -> Nat]
    BY <1>1, <2>1 DEF FactoryTypeOK
  <2>4. status' \in [CallIds -> Status] /\ \A d \in CallIds : status'[d] # "none" => calls'[d] \in Call
    BY <1>1, <2>1 DEF FactoryTypeOK, Status
  <2>5. QED
    BY <1>1, <2>1, <2>2, <2>3, <2>4 DEF FactoryTypeOK, AppTypeOK
<1>3. CASE BatchUndone(c)
  <2>1. /\ status' = [status EXCEPT ![c] = "failed"] /\ refund' = [refund EXCEPT ![c] = "due"]
        /\ UNCHANGED <<apps, balance>>
    BY <1>3 DEF BatchUndone
  <2>2. /\ status' \in [CallIds -> Status] /\ refund' \in [CallIds -> {"none", "due", "paid"}]
        /\ \A d \in CallIds : status'[d] # "none" => calls'[d] \in Call
    BY <1>1, <2>1 DEF FactoryTypeOK, Status
  <2>3. QED
    BY <1>1, <2>1, <2>2 DEF FactoryTypeOK, AppTypeOK
<1>4. QED
  BY <1>2, <1>3 DEF ExecuteDeployment

\* What is refunded was deposited.
LEMMA RefundType ==
    ASSUME FactoryTypeOK, Owed, NEW c \in CallIds, RefundDeposit(c)
    PROVE  FactoryTypeOK'
<1>1. /\ refund[c] = "due" /\ refund' = [refund EXCEPT ![c] = "paid"]
      /\ kms_balance' = kms_balance + calls[c].deposit
      /\ UNCHANGED <<calls, status, apps, registered_apps, balance, seen>>
  BY DEF RefundDeposit
<1>2. calls[c].deposit \in Nat
  BY <1>1, AmountsAssumption DEF FactoryTypeOK, Call, Owed
<1>3. kms_balance' \in Nat /\ refund' \in [CallIds -> {"none", "due", "paid"}]
  BY <1>1, <1>2 DEF FactoryTypeOK
<1>4. QED
  BY <1>1, <1>3 DEF FactoryTypeOK, AppTypeOK

\* The callback lists an app account, or nothing.
LEMMA CallbackType ==
    ASSUME FactoryTypeOK, NEW c \in CallIds, on_app_contract_deployed(c)
    PROVE  FactoryTypeOK'
<1>1. /\ UNCHANGED <<calls, refund, apps, balance, kms_balance, seen>>
      /\ status[c] # "none" /\ calls[c].account \in AppAccounts
  BY DEF on_app_contract_deployed, moneyVars, FactoryTypeOK, Call
<1>2. \/ registered_apps' = registered_apps
      \/ registered_apps' = Append(registered_apps, calls[c].account)
  BY DEF on_app_contract_deployed, Insert
<1>3. registered_apps' \in Seq(AppAccounts)
  <2>1. registered_apps \in Seq(AppAccounts)
    BY DEF FactoryTypeOK
  <2>2. Append(registered_apps, calls[c].account) \in Seq(AppAccounts)
    BY <1>1, <2>1
  <2>3. QED
    BY <1>2, <2>1, <2>2
<1>4. \E x \in Status : status' = [status EXCEPT ![c] = x]
  BY DEF on_app_contract_deployed, Status
<1>5. status' \in [CallIds -> Status] /\ \A d \in CallIds : status'[d] # "none" => calls'[d] \in Call
  BY <1>1, <1>4 DEF FactoryTypeOK
<1>6. QED
  BY <1>1, <1>3, <1>5 DEF FactoryTypeOK, AppTypeOK

-----------------------------------------------------------------------------
(* Every step keeps the invariant *)

\* A step that leaves the list, and the calls it came from, keeps its two parts.
LEMMA ListKept ==
    ASSUME Registered, Distinct, UNCHANGED registered_apps,
           \A e \in CallIds : status[e] = "registered" => status'[e] = "registered" /\ calls'[e] = calls[e]
    PROVE  Registered' /\ Distinct'
<1>1. RegisteredApps' = RegisteredApps
  BY DEF RegisteredApps
<1>2. Registered'
  BY <1>1 DEF Registered
<1>3. Distinct'
  BY DEF Distinct
<1>4. QED
  BY <1>2, <1>3

\* A new call wins nothing yet.
LEMMA RegisterStep ==
    ASSUME FactoryInv, NEW c \in CallIds, register_app(c), UNCHANGED accessVars
    PROVE  FactoryInv'
<1> USE DEF FactoryInv
<1>1. PICK id \in AppIds, args \in InitArgs, d \in Deposits :
         /\ get_app_account_id(id) \in AppAccounts
         /\ calls' = [calls EXCEPT ![c] = [account |-> get_app_account_id(id),
                                          args |-> args, deposit |-> d]]
  BY AppAccountsAssumption DEF register_app
<1>2. /\ status[c] = "none" /\ status' = [status EXCEPT ![c] = "deploying"]
      /\ UNCHANGED <<refund, apps, registered_apps, balance, kms_balance, seen>>
  BY DEF register_app, moneyVars
<1>3. /\ \A e \in CallIds : e # c => status'[e] = status[e] /\ calls'[e] = calls[e]
      /\ status'[c] = "deploying" /\ calls'[c] \in Call
  BY <1>1, <1>2 DEF FactoryTypeOK, Call
<1>4. FactoryTypeOK'
  BY RegisterType
<1>5. \A e \in CallIds : /\ Won(e)' <=> Won(e)
                         /\ Won(e) => e # c
                         /\ status'[e] = "registered" <=> status[e] = "registered"
  BY <1>2, <1>3 DEF Won
<1>6. Created' /\ WonExists' /\ WonOnce' /\ UnclaimedIsEmpty'
  BY <1>2, <1>3, <1>5 DEF Created, WonExists, WonOnce, UnclaimedIsEmpty
<1>7. Registered' /\ Distinct'
  <2>1. \A e \in CallIds : status[e] = "registered" => status'[e] = "registered" /\ calls'[e] = calls[e]
    BY <1>2, <1>3
  <2>2. QED
    BY <1>2, <2>1, ListKept
<1>8. Owed'
  BY <1>2, <1>3 DEF Owed
<1>9. QED
  BY <1>4, <1>6, <1>7, <1>8

\* A batch that succeeds claims an account nobody had; so no other call had won it.
LEMMA DeployStep ==
    ASSUME FactoryInv, NEW c \in CallIds, ExecuteDeployment(c), BatchDone(c), UNCHANGED accessVars
    PROVE  FactoryInv'
<1> USE DEF FactoryInv
<1> DEFINE a == calls[c].account
<1>1. /\ status[c] = "deploying" /\ status' = [status EXCEPT ![c] = "deployed"]
      /\ apps[a] = NoApp
      /\ apps' = [apps EXCEPT ![a] = new(calls[c].args, Kms)]
      /\ balance' = [balance EXCEPT ![a] = balance[a] + calls[c].deposit]
      /\ UNCHANGED <<calls, refund, registered_apps, kms_balance, seen>>
  BY DEF ExecuteDeployment, BatchDone, BatchSucceeds
<1>2. /\ calls[c] \in Call /\ a \in AppAccounts /\ calls[c].args \in InitArgs
      /\ calls[c].deposit \in Nat
  BY <1>1, AmountsAssumption DEF FactoryTypeOK, Call
<1>3. new(calls[c].args, Kms) \in AppState /\ new(calls[c].args, Kms) # NoApp
  BY <1>2, NewType
<1>4. balance[a] = 0
  BY <1>1, <1>2 DEF UnclaimedIsEmpty
<1>5. balance' = [balance EXCEPT ![a] = calls[c].deposit]
  <2>1. balance[a] + calls[c].deposit = calls[c].deposit
    BY <1>2, <1>4
  <2>2. QED
    BY <1>1, <2>1, Zenon
<1>6. FactoryTypeOK'
  BY DeploymentType
<1>7. /\ apps'[a] = new(calls[c].args, Kms) /\ balance'[a] = calls[c].deposit
      /\ \A b \in AppAccounts : b # a => apps'[b] = apps[b] /\ balance'[b] = balance[b]
  BY <1>1, <1>2, <1>5 DEF FactoryTypeOK, AppTypeOK
<1>8. /\ Won(c)' /\ ~Won(c)
      /\ \A d \in CallIds : /\ d # c => (Won(d)' <=> Won(d))
                            /\ Won(d) => calls[d].account # a /\ calls[d].account \in AppAccounts
                            /\ status'[d] = "registered" <=> status[d] = "registered"
  BY <1>1 DEF Won, WonExists, FactoryTypeOK, Call
<1>9. Created'
  <2> SUFFICES ASSUME NEW b \in AppAccounts, apps'[b] # NoApp
               PROVE  \E d \in CallIds : /\ Won(d)' /\ calls'[d].account = b
                                        /\ apps'[b] = new(calls'[d].args, Kms)
                                        /\ balance'[b] = calls'[d].deposit
    BY DEF Created
  <2>1. CASE b = a
    BY <1>1, <1>7, <1>8, <2>1
  <2>2. CASE b # a
    BY <1>1, <1>7, <1>8, <2>2 DEF Created
  <2>3. QED
    BY <2>1, <2>2
<1>10. WonExists' /\ WonOnce' /\ UnclaimedIsEmpty'
  BY <1>1, <1>3, <1>7, <1>8 DEF WonExists, WonOnce, UnclaimedIsEmpty
<1>11. Registered' /\ Distinct'
  BY <1>1, <1>8, ListKept
<1>12. Owed'
  BY <1>1 DEF Owed, FactoryTypeOK
<1>13. QED
  BY <1>6, <1>9, <1>10, <1>11, <1>12

\* A batch that fails leaves no trace but the refund it owes.
LEMMA UndoneStep ==
    ASSUME FactoryInv, NEW c \in CallIds, ExecuteDeployment(c), BatchUndone(c), UNCHANGED accessVars
    PROVE  FactoryInv'
<1> USE DEF FactoryInv
<1>1. /\ status[c] = "deploying" /\ status' = [status EXCEPT ![c] = "failed"]
      /\ refund' = [refund EXCEPT ![c] = "due"]
      /\ UNCHANGED <<apps, balance, calls, registered_apps, kms_balance, seen>>
  BY DEF ExecuteDeployment, BatchUndone
<1>2. FactoryTypeOK'
  BY DeploymentType
<1>3. \A d \in CallIds : /\ Won(d)' <=> Won(d)
                         /\ status'[d] = "registered" <=> status[d] = "registered"
  BY <1>1 DEF Won, FactoryTypeOK
<1>4. Created' /\ WonExists' /\ WonOnce' /\ UnclaimedIsEmpty'
  BY <1>1, <1>3 DEF Created, WonExists, WonOnce, UnclaimedIsEmpty
<1>5. Registered' /\ Distinct'
  BY <1>1, <1>3, ListKept
<1>6. Owed'
  BY <1>1 DEF Owed, FactoryTypeOK
<1>7. QED
  BY <1>2, <1>4, <1>5, <1>6

\* The refund moves a deposit back and touches nothing else.
LEMMA RefundStep ==
    ASSUME FactoryInv, NEW c \in CallIds, RefundDeposit(c), UNCHANGED accessVars
    PROVE  FactoryInv'
<1> USE DEF FactoryInv
<1>1. /\ refund[c] = "due" /\ refund' = [refund EXCEPT ![c] = "paid"]
      /\ kms_balance' = kms_balance + calls[c].deposit
      /\ UNCHANGED <<calls, status, apps, registered_apps, balance, seen>>
  BY DEF RefundDeposit
<1>4. FactoryTypeOK'
  BY RefundType
<1>5. Created' /\ WonExists' /\ WonOnce' /\ UnclaimedIsEmpty'
  BY <1>1 DEF Created, WonExists, WonOnce, UnclaimedIsEmpty, Won
<1>6. Registered' /\ Distinct'
  BY <1>1, ListKept
<1>7. Owed'
  BY <1>1 DEF Owed, FactoryTypeOK
<1>8. QED
  BY <1>4, <1>5, <1>6, <1>7

\* IterableSet::insert adds the account and nothing else.
LEMMA InsertAdds ==
    ASSUME NEW S, NEW s \in Seq(S), NEW a \in S, a \notin {s[i] : i \in 1..Len(s)}
    PROVE  /\ Insert(s, a) = Append(s, a)
           /\ {Insert(s, a)[i] : i \in 1..Len(Insert(s, a))} = {s[i] : i \in 1..Len(s)} \cup {a}
<1>1. Insert(s, a) = Append(s, a)
  BY DEF Insert
<1>2. /\ Len(s) \in Nat /\ Len(Append(s, a)) = Len(s) + 1 /\ Append(s, a)[Len(s) + 1] = a
      /\ \A i \in 1..Len(s) : Append(s, a)[i] = s[i]
  OBVIOUS
<1>3. 1..Len(Append(s, a)) = 1..Len(s) \cup {Len(s) + 1}
  BY <1>2
<1>4. QED
  BY <1>1, <1>2, <1>3

\* So an account that was not listed is listed last.
LEMMA ListGrows ==
    ASSUME FactoryTypeOK, NEW a \in AppAccounts, a \notin RegisteredApps,
           registered_apps' = Insert(registered_apps, a)
    PROVE  /\ registered_apps' = Append(registered_apps, a)
           /\ RegisteredApps' = RegisteredApps \cup {a}
<1>1. registered_apps \in Seq(AppAccounts) /\ a \notin {registered_apps[i] : i \in 1..Len(registered_apps)}
  BY DEF FactoryTypeOK, RegisteredApps
<1>2. /\ Insert(registered_apps, a) = Append(registered_apps, a)
      /\ {Insert(registered_apps, a)[i] : i \in 1..Len(Insert(registered_apps, a))} = RegisteredApps \cup {a}
  BY <1>1, InsertAdds DEF RegisteredApps
<1>3. RegisteredApps' = {registered_apps'[i] : i \in 1..Len(registered_apps')}
  BY DEF RegisteredApps
<1>4. QED
  BY <1>2, <1>3

\* And a list of distinct accounts stays one.
LEMMA DistinctGrows ==
    ASSUME FactoryTypeOK, Distinct, NEW a \in AppAccounts, a \notin RegisteredApps,
           registered_apps' = Append(registered_apps, a)
    PROVE  Distinct'
<1>1. /\ Len(registered_apps) \in Nat /\ Len(registered_apps') = Len(registered_apps) + 1
      /\ registered_apps'[Len(registered_apps) + 1] = a
      /\ \A i \in 1..Len(registered_apps) : registered_apps'[i] = registered_apps[i]
  BY DEF FactoryTypeOK
<1>2. \A i \in 1..Len(registered_apps) : registered_apps[i] # a
  BY DEF RegisteredApps
<1>3. SUFFICES ASSUME NEW i \in 1..Len(registered_apps'), NEW j \in 1..Len(registered_apps'),
                      registered_apps'[i] = registered_apps'[j]
               PROVE  i = j
  BY DEF Distinct
<1>4. /\ i \in 1..Len(registered_apps) \/ i = Len(registered_apps) + 1
      /\ j \in 1..Len(registered_apps) \/ j = Len(registered_apps) + 1
  BY <1>1
<1>5. QED
  BY <1>1, <1>2, <1>3, <1>4 DEF Distinct

\* The callback of a successful batch appends the account, which no earlier
\* callback had appended: another call would have won it too.
LEMMA CallbackStep ==
    ASSUME FactoryInv, NEW c \in CallIds, on_app_contract_deployed(c), UNCHANGED accessVars
    PROVE  FactoryInv'
<1> USE DEF FactoryInv
<1> DEFINE a == calls[c].account
<1>1. UNCHANGED <<calls, refund, apps, balance, kms_balance, seen>>
  BY DEF on_app_contract_deployed, moneyVars
<1>2. CASE status[c] = "deployed"
  <2>1. /\ registered_apps' = Insert(registered_apps, a)
        /\ status' = [status EXCEPT ![c] = "registered"]
    BY <1>2 DEF on_app_contract_deployed
  <2>2. a \in AppAccounts
    BY <1>2 DEF FactoryTypeOK, Call
  <2>3. a \notin RegisteredApps
    BY <1>2 DEF Registered, WonOnce, Won
  <2>4. registered_apps' = Append(registered_apps, a) /\ RegisteredApps' = RegisteredApps \cup {a}
    BY <2>1, <2>2, <2>3, ListGrows
  <2>5. \A d \in CallIds : /\ Won(d)' <=> Won(d)
                           /\ status'[d] = "registered" <=> status[d] = "registered" \/ d = c
    BY <1>2, <2>1 DEF Won, FactoryTypeOK
  <2>6. FactoryTypeOK'
    BY CallbackType
  <2>7. Created' /\ WonExists' /\ WonOnce' /\ UnclaimedIsEmpty'
    BY <1>1, <2>5 DEF Created, WonExists, WonOnce, UnclaimedIsEmpty
  <2>8. Registered'
    BY <1>1, <2>4, <2>5 DEF Registered
  <2>9. Distinct'
    BY <2>2, <2>3, <2>4, DistinctGrows
  <2>10. Owed'
    BY <1>1, <1>2, <2>1 DEF Owed, FactoryTypeOK
  <2>11. QED
    BY <2>6, <2>7, <2>8, <2>9, <2>10
<1>3. CASE status[c] = "failed"
  <2>1. status' = [status EXCEPT ![c] = "rejected"] /\ UNCHANGED registered_apps
    BY <1>3 DEF on_app_contract_deployed
  <2>2. \A d \in CallIds : /\ Won(d)' <=> Won(d)
                           /\ status'[d] = "registered" <=> status[d] = "registered"
    BY <1>3, <2>1 DEF Won, FactoryTypeOK
  <2>3. FactoryTypeOK'
    BY CallbackType
  <2>4. Created' /\ WonExists' /\ WonOnce' /\ UnclaimedIsEmpty'
    BY <1>1, <2>2 DEF Created, WonExists, WonOnce, UnclaimedIsEmpty
  <2>5. Registered' /\ Distinct'
    BY <1>1, <2>1, <2>2, ListKept
  <2>6. Owed'
    BY <1>1, <1>3, <2>1 DEF Owed, FactoryTypeOK
  <2>7. QED
    BY <2>3, <2>4, <2>5, <2>6
<1>4. QED
  BY <1>2, <1>3 DEF on_app_contract_deployed

\* A client's page, and the calls of the two plugins, leave the registry alone.
LEMMA OutsideStep ==
    ASSUME FactoryInv, UNCHANGED <<callVars, apps, registered_apps, moneyVars>>,
           seen' \in Seq(AppAccounts)
    PROVE  FactoryInv'
<1> USE DEF FactoryInv
<1>1. UNCHANGED <<calls, status, refund, apps, registered_apps, balance, kms_balance>>
  BY DEF callVars, moneyVars
<1>2. FactoryTypeOK'
  BY <1>1 DEF FactoryTypeOK, AppTypeOK
<1>3. Created' /\ WonExists' /\ WonOnce' /\ UnclaimedIsEmpty' /\ Owed'
  BY <1>1 DEF Created, WonExists, WonOnce, UnclaimedIsEmpty, Won, Owed
<1>4. Registered' /\ Distinct'
  BY <1>1, ListKept
<1>5. QED
  BY <1>2, <1>3, <1>4

\* A page holds registered accounts only.
LEMMA PageType ==
    ASSUME FactoryTypeOK, ReadPage
    PROVE  seen' \in Seq(AppAccounts)
<1> DEFINE last == IF Len(seen) + PageLimit <= Len(registered_apps) THEN Len(seen) + PageLimit
                                                                   ELSE Len(registered_apps)
<1>1. last \in Nat /\ last <= Len(registered_apps)
  BY AmountsAssumption DEF FactoryTypeOK
<1>2. SubSeq(registered_apps, Len(seen) + 1, last) \in Seq(AppAccounts)
  BY <1>1 DEF FactoryTypeOK
<1>3. QED
  BY <1>2 DEF ReadPage, get_registered_apps, FactoryTypeOK

\* Every step keeps the invariant.
LEMMA FactoryInvNext == FactoryInv /\ [RegistrationNext]_registrationVars => FactoryInv'
<1> SUFFICES ASSUME FactoryInv, [RegistrationNext]_registrationVars
             PROVE  FactoryInv'
  OBVIOUS
<1>1. CASE FactoryNext /\ UNCHANGED accessVars
  <2>1. ASSUME NEW c \in CallIds, register_app(c)
        PROVE  FactoryInv'
    BY <1>1, <2>1, RegisterStep
  <2>2. ASSUME NEW c \in CallIds, ExecuteDeployment(c)
        PROVE  FactoryInv'
    BY <1>1, <2>2, DeployStep, UndoneStep DEF ExecuteDeployment
  <2>3. ASSUME NEW c \in CallIds, RefundDeposit(c)
        PROVE  FactoryInv'
    BY <1>1, <2>3, RefundStep
  <2>4. ASSUME NEW c \in CallIds, on_app_contract_deployed(c)
        PROVE  FactoryInv'
    BY <1>1, <2>4, CallbackStep
  <2>5. CASE ReadPage
    <3>1. seen' \in Seq(AppAccounts)
      BY <1>1, <2>5, PageType DEF FactoryInv
    <3>2. QED
      BY <2>5, <3>1, OutsideStep DEF ReadPage
  <2>6. QED
    BY <1>1, <2>1, <2>2, <2>3, <2>4, <2>5 DEF FactoryNext, Receipts
<1>2. CASE AccessNext /\ UNCHANGED factoryVars
  BY <1>2, OutsideStep DEF FactoryInv, factoryVars, FactoryTypeOK
<1>3. CASE UNCHANGED registrationVars
  BY <1>3, OutsideStep
     DEF FactoryInv, registrationVars, factoryVars, FactoryTypeOK
<1>4. QED
  BY <1>1, <1>2, <1>3 DEF RegistrationNext

-----------------------------------------------------------------------------
(* What follows *)

\* The inductive invariant of the factory.
THEOREM FactoryInvariant == RegistrationSpec => []FactoryInv
<1>1. QED
  BY FactoryInvInit, FactoryInvNext, PTL DEF RegistrationSpec

\* The factory's state, and every app state in it, is always well typed.
THEOREM FactoryTypeCorrect == RegistrationSpec => []FactoryTypeOK
<1>1. FactoryInv => FactoryTypeOK
  BY DEF FactoryInv
<1>2. QED
  BY <1>1, FactoryInvariant, PTL

\* However many calls race for an account, one creates it (app.rs:44-53).
THEOREM CreatedByWinnerCorrect == RegistrationSpec => []CreatedByWinner
<1>1. FactoryInv => CreatedByWinner
  BY DEF FactoryInv, CreatedByWinner, Created, WonOnce
<1>2. QED
  BY <1>1, FactoryInvariant, PTL

\* The registry lists existing apps of this KMS, each once (app.rs:67-71).
THEOREM RegisteredSoundCorrect == RegistrationSpec => []RegisteredSound
<1>1. FactoryInv => RegisteredSound
  <2> SUFFICES ASSUME FactoryInv PROVE RegisteredSound
    OBVIOUS
  <2>1. ASSUME NEW a \in RegisteredApps
        PROVE  /\ apps[a] # NoApp /\ apps[a].kms_contract_id = Kms
               /\ \E c \in CallIds : status[c] = "registered" /\ calls[c].account = a
    <3>1. PICK c \in CallIds : status[c] = "registered" /\ calls[c].account = a
      BY DEF FactoryInv, Registered
    <3>2. apps[a] # NoApp /\ a \in AppAccounts
      BY <3>1 DEF FactoryInv, WonExists, Won, FactoryTypeOK, Call
    <3>3. PICK d \in CallIds : Won(d) /\ apps[a] = new(calls[d].args, Kms)
      BY <3>2 DEF FactoryInv, Created
    <3>4. calls[d].args \in InitArgs
      BY <3>3 DEF Won, FactoryInv, FactoryTypeOK, Call
    <3>5. QED
      BY <3>1, <3>2, <3>3, <3>4, NewType
  <2>2. QED
    BY <2>1 DEF FactoryInv, Distinct, RegisteredSound
<1>2. QED
  BY <1>1, FactoryInvariant, PTL

\* What is under way only drains: a receipt or a callback brings in no account.
LEMMA PipelineDrains ==
    ASSUME FactoryTypeOK, NEW c \in CallIds, Receipts(c)
    PROVE  Pipeline' \subseteq Pipeline
<1>1. CASE ExecuteDeployment(c)
  <2>1. /\ status[c] = "deploying" /\ UNCHANGED <<calls, registered_apps>>
        /\ \A d \in CallIds : d # c => status'[d] = status[d]
    BY <1>1 DEF ExecuteDeployment, BatchDone, BatchUndone, FactoryTypeOK
  <2>2. \A d \in CallIds : status'[d] \in {"deploying", "deployed"}
                           => status[d] \in {"deploying", "deployed"} /\ calls'[d] = calls[d]
    BY <2>1
  <2>3. RegisteredApps' = RegisteredApps
    BY <2>1 DEF RegisteredApps
  <2>4. QED
    BY <2>2, <2>3 DEF Pipeline
<1>2. CASE on_app_contract_deployed(c)
  <2>1. /\ UNCHANGED calls
        /\ \A d \in CallIds : status'[d] \in {"deploying", "deployed"}
                               => status[d] \in {"deploying", "deployed"}
    BY <1>2 DEF on_app_contract_deployed, FactoryTypeOK
  <2>2. \/ RegisteredApps' \subseteq RegisteredApps \cup {calls[c].account} /\ status[c] = "deployed"
        \/ RegisteredApps' = RegisteredApps
    <3>1. CASE status[c] = "deployed" /\ calls[c].account \notin RegisteredApps
      BY <1>2, <3>1, ListGrows DEF on_app_contract_deployed, FactoryTypeOK, Call
    <3>2. CASE status[c] = "failed" \/ calls[c].account \in RegisteredApps
      BY <1>2, <3>2 DEF on_app_contract_deployed, Insert, RegisteredApps
    <3>3. QED
      BY <1>2, <3>1, <3>2 DEF on_app_contract_deployed
  <2>3. QED
    BY <2>1, <2>2 DEF Pipeline
<1>3. CASE RefundDeposit(c)
  BY <1>3 DEF RefundDeposit, Pipeline, RegisteredApps
<1>4. QED
  BY <1>1, <1>2, <1>3 DEF Receipts

\* While register_app is paused or has no Owner to call it, the pipeline only
\* drains: no step but register_app adds an account to it (app.rs:16-17).
THEOREM PauseDrainsCorrect == RegistrationSpec => PauseDrains
<1>1. FactoryInv /\ [RegistrationNext]_registrationVars
        => [~NotPaused("register_app") \/ ~Permitted({"Owner"})
              => Pipeline' \subseteq Pipeline]_registrationVars
  <2> SUFFICES ASSUME FactoryInv, RegistrationNext,
                      ~NotPaused("register_app") \/ ~Permitted({"Owner"})
               PROVE  Pipeline' \subseteq Pipeline
    BY DEF registrationVars
  <2> USE DEF FactoryInv
  <2>1. ASSUME NEW c \in CallIds, Receipts(c)
        PROVE  Pipeline' \subseteq Pipeline
    BY <2>1, PipelineDrains
  <2>2. CASE UNCHANGED <<callVars, registered_apps>>
    BY <2>2 DEF Pipeline, RegisteredApps, callVars
  <2>3. QED
    BY <2>1, <2>2
       DEF RegistrationNext, FactoryNext, register_app, ReadPage, factoryVars
<1>2. QED
  BY <1>1, FactoryInvariant, PTL DEF RegistrationSpec, PauseDrains

\* The factory implements the registry it promises: a batch that goes through is
\* a claim, a callback that inserts is a publication, every other step a stutter.
THEOREM FactoryImplementsRegistry == RegistrationSpec => ImplementsRegistry
<1> DEFINE abstractVars == <<apps, registered_apps>>
<1>1. RegistrationInit => Registry!Init
  BY DEF RegistrationInit, FactoryInit, AppInit, Registry!Init
<1>2. FactoryInv /\ [RegistrationNext]_registrationVars => [Registry!Next]_abstractVars
  <2> SUFFICES ASSUME FactoryInv, [RegistrationNext]_registrationVars
               PROVE  Registry!Next \/ UNCHANGED abstractVars
    OBVIOUS
  <2> USE DEF FactoryInv
  <2>1. ASSUME NEW c \in CallIds, ExecuteDeployment(c), BatchDone(c)
        PROVE  Registry!Next
    <3> DEFINE a == calls[c].account
    <3>1. /\ apps[a] = NoApp /\ apps' = [apps EXCEPT ![a] = new(calls[c].args, Kms)]
          /\ UNCHANGED registered_apps
      BY <2>1 DEF ExecuteDeployment, BatchDone, BatchSucceeds
    <3>2. a \in AppAccounts /\ calls[c].args \in InitArgs
      BY <2>1 DEF ExecuteDeployment, FactoryTypeOK, Call
    <3>3. new(calls[c].args, Kms) \in AppState
      BY <3>2, NewType
    <3>4. apps'[a] = new(calls[c].args, Kms)
      BY <3>1, <3>2 DEF FactoryTypeOK, AppTypeOK
    <3>5. Registry!Claim(a)
      BY <3>1, <3>3, <3>4 DEF Registry!Claim
    <3>6. QED
      BY <3>2, <3>5 DEF Registry!Next
  <2>2. ASSUME NEW c \in CallIds, on_app_contract_deployed(c), status[c] = "deployed"
        PROVE  Registry!Next \/ UNCHANGED abstractVars
    <3> DEFINE a == calls[c].account
    <3>1. registered_apps' = Insert(registered_apps, a) /\ UNCHANGED apps
      BY <2>2 DEF on_app_contract_deployed
    <3>2. a \in AppAccounts /\ apps[a] # NoApp
      BY <2>2 DEF FactoryTypeOK, Call, WonExists, Won
    <3>3. CASE a \in RegisteredApps
      BY <3>1, <3>3 DEF Insert, RegisteredApps
    <3>4. CASE a \notin RegisteredApps
      BY <3>1, <3>2, <3>4 DEF Insert, RegisteredApps, Registry!Publish, Registry!Published, Registry!Next
    <3>5. QED
      BY <3>3, <3>4
  <2>3. QED
    BY <2>1, <2>2
       DEF RegistrationNext, FactoryNext, Receipts, register_app, RefundDeposit, ReadPage,
           ExecuteDeployment, BatchUndone, on_app_contract_deployed, factoryVars, registrationVars
<1>3. QED
  BY <1>1, <1>2, FactoryInvariant, PTL DEF RegistrationSpec, ImplementsRegistry, Registry!Spec

-----------------------------------------------------------------------------
(* The reader *)

\* A prefix, place by place.
LEMMA PrefixByPlace ==
    ASSUME NEW S, NEW s \in Seq(S), NEW t \in Seq(S)
    PROVE  IsPrefix(s, t) <=> Len(s) <= Len(t) /\ \A i \in 1..Len(s) : s[i] = t[i]
<1>1. Len(s) \in Nat /\ Len(t) \in Nat
  OBVIOUS
<1>2. /\ Len(SubSeq(s, 1, Len(s))) = Len(s)
      /\ \A i \in 1..Len(s) : SubSeq(s, 1, Len(s))[i] = s[i]
      /\ SubSeq(s, 1, Len(s)) \in Seq(S)
  BY <1>1
<1>3. CASE Len(s) <= Len(t)
  <2>1. /\ Len(SubSeq(t, 1, Len(s))) = Len(s)
        /\ \A i \in 1..Len(s) : SubSeq(t, 1, Len(s))[i] = t[i]
        /\ SubSeq(t, 1, Len(s)) \in Seq(S)
    BY <1>1, <1>3
  <2>2. ASSUME \A i \in 1..Len(s) : s[i] = t[i]
        PROVE  SubSeq(s, 1, Len(s)) = SubSeq(t, 1, Len(s))
    BY <1>2, <2>1, <2>2
  <2>3. QED
    BY <1>2, <1>3, <2>1, <2>2 DEF IsPrefix
<1>4. QED
  BY <1>3 DEF IsPrefix

\* The page behind a prefix of the list continues it (view.rs:12-19).
LEMMA PageContinues ==
    ASSUME FactoryTypeOK, PagesFit, ReadPage
    PROVE  PagesFit'
<1> DEFINE n == Len(seen)
           last == IF n + PageLimit <= Len(registered_apps) THEN n + PageLimit ELSE Len(registered_apps)
           page == SubSeq(registered_apps, n + 1, last)
<1>1. /\ seen \in Seq(AppAccounts) /\ registered_apps \in Seq(AppAccounts)
      /\ n \in Nat /\ last \in Nat /\ n <= last /\ last <= Len(registered_apps)
  BY AmountsAssumption DEF FactoryTypeOK, ReadPage
<1>2. \A i \in 1..n : seen[i] = registered_apps[i]
  BY <1>1, PrefixByPlace DEF PagesFit
<1>3. /\ page \in Seq(AppAccounts) /\ Len(page) = last - n
      /\ \A j \in 1..(last - n) : page[j] = registered_apps[n + j]
  BY <1>1
<1>4. seen' = seen \o page /\ registered_apps' = registered_apps
  BY DEF ReadPage, get_registered_apps
<1>5. /\ seen' \in Seq(AppAccounts) /\ Len(seen') = last
      /\ \A i \in 1..n : seen'[i] = seen[i]
      /\ \A i \in (n + 1)..last : seen'[i] = page[i - n]
  BY <1>1, <1>3, <1>4
<1>6. \A i \in 1..last : seen'[i] = registered_apps[i]
  <2>1. SUFFICES ASSUME NEW i \in 1..last PROVE seen'[i] = registered_apps[i]
    OBVIOUS
  <2>2. CASE i <= n
    BY <1>1, <1>2, <1>5, <2>2
  <2>3. CASE n < i
    <3>1. i \in (n + 1)..last /\ i - n \in 1..(last - n) /\ n + (i - n) = i
      BY <1>1, <2>3
    <3>2. QED
      BY <1>3, <1>5, <3>1
  <2>4. QED
    BY <1>1, <2>2, <2>3
<1>7. QED
  BY <1>1, <1>4, <1>5, <1>6, PrefixByPlace DEF PagesFit

\* A registration leaves every prefix of the list one.
LEMMA GrowthKeepsPages ==
    ASSUME FactoryTypeOK, PagesFit, NEW a \in AppAccounts, UNCHANGED seen,
           registered_apps' = Append(registered_apps, a)
    PROVE  PagesFit'
<1>1. /\ seen \in Seq(AppAccounts) /\ registered_apps \in Seq(AppAccounts)
      /\ registered_apps' \in Seq(AppAccounts) /\ Len(registered_apps') = Len(registered_apps) + 1
      /\ \A i \in 1..Len(registered_apps) : registered_apps'[i] = registered_apps[i]
      /\ Len(seen) \in Nat /\ Len(registered_apps) \in Nat
  BY DEF FactoryTypeOK
<1>2. Len(seen) <= Len(registered_apps) /\ \A i \in 1..Len(seen) : seen[i] = registered_apps[i]
  BY <1>1, PrefixByPlace DEF PagesFit
<1>3. /\ seen' = seen /\ Len(seen) <= Len(registered_apps')
      /\ \A i \in 1..Len(seen) : seen[i] = registered_apps'[i]
  BY <1>1, <1>2
<1>4. IsPrefix(seen, registered_apps')
  BY <1>1, <1>3, PrefixByPlace
<1>5. QED
  BY <1>3, <1>4 DEF PagesFit

\* A client that pages while apps are being registered sees every app once, in
\* order: what it has is a prefix of the list, which grows at its end (view.rs:12-19).
THEOREM PagesFitCorrect == RegistrationSpec => []PagesFit
<1>1. RegistrationInit => PagesFit
  <2> SUFFICES ASSUME RegistrationInit PROVE PagesFit
    OBVIOUS
  <2>1. seen = <<>> /\ registered_apps = <<>>
    BY DEF RegistrationInit, FactoryInit
  <2>2. seen \in Seq(AppAccounts) /\ Len(seen) <= Len(registered_apps)
    BY <2>1
  <2>3. IsPrefix(seen, registered_apps)
    BY <2>1, <2>2 DEF IsPrefix
  <2>4. QED
    BY <2>3 DEF PagesFit
<1>2. FactoryInv /\ PagesFit /\ [RegistrationNext]_registrationVars => PagesFit'
  <2> SUFFICES ASSUME FactoryInv, PagesFit, [RegistrationNext]_registrationVars
               PROVE  PagesFit'
    OBVIOUS
  <2> USE DEF FactoryInv
  <2>1. CASE UNCHANGED <<registered_apps, seen>>
    BY <2>1 DEF PagesFit
  <2>2. CASE ReadPage
    BY <2>2, PageContinues
  <2>3. ASSUME NEW c \in CallIds, on_app_contract_deployed(c), status[c] = "deployed"
        PROVE  PagesFit'
    <3> DEFINE a == calls[c].account
    <3>1. registered_apps' = Insert(registered_apps, a) /\ UNCHANGED seen
      BY <2>3 DEF on_app_contract_deployed
    <3>2. a \in AppAccounts
      BY <2>3 DEF FactoryTypeOK, Call
    <3>3. CASE a \in RegisteredApps
      BY <2>1, <3>1, <3>3 DEF Insert, RegisteredApps
    <3>4. CASE a \notin RegisteredApps
      BY <3>1, <3>2, <3>4, ListGrows, GrowthKeepsPages
    <3>5. QED
      BY <3>3, <3>4
  <2>4. QED
    BY <2>1, <2>2, <2>3
       DEF RegistrationNext, FactoryNext, Receipts, registrationVars, factoryVars, register_app,
           ExecuteDeployment, RefundDeposit, on_app_contract_deployed
<1>3. QED
  BY <1>1, <1>2, FactoryInvariant, PTL DEF RegistrationSpec

-----------------------------------------------------------------------------
(* Deposits *)

Started == {c \in CallIds : status[c] # "none"}
InFlight == {c \in CallIds : status[c] = "deploying" \/ refund[c] = "due"}

\* The deposits of the calls in S, with `made` the calls.
Amount(S, made) == SumFunctionOnSet([c \in S |-> made[c].deposit], S)

\* Only finitely many calls have been made, so what they brought can be added up.
DepositInv == IsFiniteSet(Started) /\ DepositConserved

\* A call more is its deposit more.
LEMMA AmountWith ==
    ASSUME NEW S, IsFiniteSet(S), NEW c, c \notin S, NEW made,
           \A d \in S \cup {c} : made[d].deposit \in Nat
    PROVE  /\ Amount(S \cup {c}, made) = made[c].deposit + Amount(S, made)
           /\ Amount(S, made) \in Nat
<1> DEFINE T == S \cup {c}
           f == [d \in T |-> made[d].deposit]
           e == [d \in S |-> made[d].deposit]
<1>1. \A d \in S \cup {c} : f[d] \in Nat
  OBVIOUS
<1>2. f[c] = made[c].deposit /\ \A d \in S : f[d] = e[d] /\ e[d] \in Nat
  OBVIOUS
<1>3. Amount(T, made) = SumFunctionOnSet(f, T) /\ Amount(S, made) = SumFunctionOnSet(e, S)
  BY DEF Amount
<1> HIDE DEF f, e
<1>4. SumFunctionOnSet(f, S \cup {c}) = f[c] + SumFunctionOnSet(f, S)
  BY <1>1, SumWith
<1>5. SumFunctionOnSet(f, S) = SumFunctionOnSet(e, S)
  BY <1>2, SumSame
<1>6. SumFunctionOnSet(e, S) \in Nat
  BY <1>2, SumTakes
<1>7. QED
  BY <1>2, <1>3, <1>4, <1>5, <1>6

\* The deposit of a call that leaves the set leaves the sum.
LEMMA AmountWithout ==
    ASSUME NEW S, IsFiniteSet(S), NEW c \in S, NEW made, \A d \in S : made[d].deposit \in Nat
    PROVE  /\ Amount(S, made) = made[c].deposit + Amount(S \ {c}, made)
           /\ Amount(S \ {c}, made) \in Nat
<1> DEFINE T == S \ {c}
<1>1. IsFiniteSet(T) /\ T \cup {c} = S /\ c \notin T
  BY FS_RemoveElement
<1>2. c \notin T /\ \A d \in T \cup {c} : made[d].deposit \in Nat
  BY <1>1
<1> HIDE DEF T
<1>3. Amount(T \cup {c}, made) = made[c].deposit + Amount(T, made) /\ Amount(T, made) \in Nat
  BY <1>1, <1>2, AmountWith
<1>4. QED
  BY <1>1, <1>3 DEF T

\* The calls in flight are calls that were made, with natural deposits.
LEMMA FlightMade ==
    ASSUME FactoryTypeOK, Owed
    PROVE  /\ InFlight \subseteq Started
           /\ \A c \in Started : calls[c] \in Call /\ calls[c].deposit \in Nat
  BY AmountsAssumption DEF FactoryTypeOK, Owed, InFlight, Started, Call

\* DepositConserved, as a balance of amounts.
LEMMA Balance ==
    DepositConserved <=> Amount(Started, calls) = Amount(InFlight, calls) + SumFunction(balance) + kms_balance
  BY DEF DepositConserved, DepositsOf, Amount, Started, InFlight

\* What the app accounts hold is a number.
LEMMA BalanceNat == ASSUME FactoryTypeOK PROVE SumFunction(balance) \in Nat
<1>1. DOMAIN balance = AppAccounts /\ \A a \in AppAccounts : balance[a] \in Nat
  BY DEF FactoryTypeOK
<1>2. SumFunctionOnSet(balance, AppAccounts) \in Nat
  BY <1>1, FiniteAccountsAssumption, SumTakes
<1>3. QED
  BY <1>1, <1>2 DEF SumFunction

\* A call brings its deposit and is in flight with it (app.rs:44-46).
LEMMA RegisterConserves ==
    ASSUME FactoryTypeOK, Owed, DepositInv, NEW c \in CallIds, register_app(c)
    PROVE  DepositInv'
<1>1. /\ status[c] = "none" /\ status' = [status EXCEPT ![c] = "deploying"]
      /\ UNCHANGED <<refund, balance, kms_balance>>
      /\ calls'[c].deposit \in Nat /\ \A d \in CallIds \ {c} : calls'[d] = calls[d]
  BY AmountsAssumption DEF register_app, moneyVars, FactoryTypeOK
<1>2. /\ c \notin Started /\ c \notin InFlight
      /\ Started' = Started \cup {c} /\ InFlight' = InFlight \cup {c}
  BY <1>1 DEF Started, InFlight, FactoryTypeOK, Owed
<1>3. /\ IsFiniteSet(Started) /\ IsFiniteSet(InFlight) /\ InFlight \subseteq Started
      /\ \A d \in Started : calls'[d] = calls[d] /\ calls'[d].deposit \in Nat
  BY <1>1, <1>2, FlightMade, FS_Subset DEF DepositInv, Started
<1>4. /\ Amount(Started', calls') = calls'[c].deposit + Amount(Started, calls')
      /\ Amount(Started, calls') \in Nat
  BY <1>1, <1>2, <1>3, AmountWith
<1>5. /\ Amount(InFlight', calls') = calls'[c].deposit + Amount(InFlight, calls')
      /\ Amount(InFlight, calls') \in Nat
  <2>1. \A d \in InFlight \cup {c} : calls'[d].deposit \in Nat
    BY <1>1, <1>3
  <2>2. QED
    BY <1>2, <1>3, <2>1, AmountWith
<1>6. Amount(Started, calls') = Amount(Started, calls) /\ Amount(InFlight, calls') = Amount(InFlight, calls)
  <2>1. [d \in Started |-> calls'[d].deposit] = [d \in Started |-> calls[d].deposit]
    BY <1>3
  <2>2. [d \in InFlight |-> calls'[d].deposit] = [d \in InFlight |-> calls[d].deposit]
    BY <1>3
  <2>3. QED
    BY <2>1, <2>2 DEF Amount
<1>7. SumFunction(balance) \in Nat /\ kms_balance \in Nat
  BY BalanceNat DEF FactoryTypeOK
<1>8. Amount(Started, calls) = Amount(InFlight, calls) + SumFunction(balance) + kms_balance
  BY Balance DEF DepositInv
<1>9. Amount(Started', calls') = Amount(InFlight', calls') + SumFunction(balance') + kms_balance'
  <2>1. balance' = balance /\ kms_balance' = kms_balance /\ calls'[c].deposit \in Nat
    BY <1>1
  <2>2. QED
    BY <1>4, <1>5, <1>6, <1>7, <1>8, <2>1
<1>10. DepositConserved'
  BY <1>9 DEF DepositConserved, DepositsOf, Amount, Started, InFlight
<1>11. IsFiniteSet(Started')
  BY <1>2, <1>3, FS_AddElement
<1>12. QED
  BY <1>10, <1>11 DEF DepositInv

\* A step that makes no call leaves the deposits balanced if what leaves the flight
\* arrives, at an app account or at the KMS.
LEMMA ArrivalConserves ==
    ASSUME FactoryTypeOK, FactoryTypeOK', Owed, DepositInv, NEW c \in InFlight,
           UNCHANGED calls, Started' = Started, InFlight' = InFlight \ {c},
           SumFunction(balance') + kms_balance'
             = SumFunction(balance) + kms_balance + calls[c].deposit
    PROVE  DepositInv'
<1>1. /\ IsFiniteSet(InFlight) /\ InFlight \subseteq Started
      /\ \A d \in Started : calls[d].deposit \in Nat
  BY FlightMade, FS_Subset DEF DepositInv
<1>2. /\ Amount(InFlight, calls) = calls[c].deposit + Amount(InFlight \ {c}, calls)
      /\ Amount(InFlight \ {c}, calls) \in Nat
  BY <1>1, AmountWithout
<1>3. /\ SumFunction(balance) \in Nat /\ kms_balance \in Nat /\ calls[c].deposit \in Nat
  BY <1>1, BalanceNat DEF FactoryTypeOK
<1>4. SumFunction(balance') \in Nat /\ kms_balance' \in Nat
  <2>1. DOMAIN balance' = AppAccounts /\ \A a \in AppAccounts : balance'[a] \in Nat
    BY DEF FactoryTypeOK
  <2>2. SumFunctionOnSet(balance', AppAccounts) \in Nat
    BY <2>1, FiniteAccountsAssumption, SumTakes
  <2>3. QED
    BY <2>1, <2>2 DEF SumFunction, FactoryTypeOK
<1>5. Amount(Started, calls) = Amount(InFlight, calls) + SumFunction(balance) + kms_balance
  BY Balance DEF DepositInv
<1>6. Amount(Started, calls) = Amount(InFlight \ {c}, calls) + SumFunction(balance') + kms_balance'
  BY <1>2, <1>3, <1>4, <1>5
<1>7. DepositConserved'
  BY <1>6 DEF DepositConserved, DepositsOf, Amount, Started, InFlight
<1>8. QED
  BY <1>7 DEF DepositInv

\* A batch that goes through brings its deposit to the account it creates.
LEMMA DoneConserves ==
    ASSUME FactoryTypeOK, Owed, DepositInv, NEW c \in CallIds, ExecuteDeployment(c), BatchDone(c)
    PROVE  DepositInv'
<1> DEFINE a == calls[c].account
<1>1. /\ status[c] = "deploying" /\ status' = [status EXCEPT ![c] = "deployed"]
      /\ balance' = [balance EXCEPT ![a] = @ + calls[c].deposit]
      /\ UNCHANGED <<calls, refund, kms_balance>>
  BY DEF ExecuteDeployment, BatchDone
<1>2. a \in AppAccounts /\ calls[c].deposit \in Nat /\ refund[c] = "none"
  BY <1>1, AmountsAssumption DEF FactoryTypeOK, Call, Owed
<1>3. c \in InFlight /\ Started' = Started /\ InFlight' = InFlight \ {c}
  BY <1>1, <1>2 DEF Started, InFlight, FactoryTypeOK
<1>4. SumFunction(balance') = SumFunction(balance) + calls[c].deposit
  <2> DEFINE d == calls[c].deposit
  <2>1. balance \in [AppAccounts -> Nat] /\ a \in AppAccounts /\ d \in Nat
    BY <1>2 DEF FactoryTypeOK
  <2>2. balance' = [balance EXCEPT ![a] = @ + d]
    BY <1>1
  <2> HIDE DEF a, d
  <2>3. SumFunction([balance EXCEPT ![a] = @ + d]) = SumFunction(balance) + d
    BY <2>1, FiniteAccountsAssumption, SumAdd
  <2>4. SumFunction(balance') = SumFunction(balance) + d
    BY <2>2, <2>3
  <2>5. QED
    BY <2>4 DEF d
<1>5. SumFunction(balance) \in Nat /\ kms_balance \in Nat
  BY BalanceNat DEF FactoryTypeOK
<1>6. SumFunction(balance') + kms_balance' = SumFunction(balance) + kms_balance + calls[c].deposit
  BY <1>1, <1>2, <1>4, <1>5
<1>7. FactoryTypeOK'
  BY DeploymentType
<1>8. QED
  BY <1>1, <1>3, <1>6, <1>7, ArrivalConserves

\* A refund brings the deposit back to the KMS.
LEMMA RefundConserves ==
    ASSUME FactoryTypeOK, Owed, DepositInv, NEW c \in CallIds, RefundDeposit(c)
    PROVE  DepositInv'
<1>1. /\ refund[c] = "due" /\ refund' = [refund EXCEPT ![c] = "paid"]
      /\ kms_balance' = kms_balance + calls[c].deposit
      /\ UNCHANGED <<calls, status, balance>>
  BY DEF RefundDeposit
<1>2. status[c] \in {"failed", "rejected"}
  BY <1>1 DEF Owed
<1>3. c \in InFlight /\ Started' = Started /\ InFlight' = InFlight \ {c}
  BY <1>1, <1>2 DEF Started, InFlight, FactoryTypeOK
<1>4. SumFunction(balance) \in Nat /\ kms_balance \in Nat /\ calls[c].deposit \in Nat
  BY <1>3, BalanceNat, FlightMade DEF FactoryTypeOK
<1>5. SumFunction(balance') + kms_balance' = SumFunction(balance) + kms_balance + calls[c].deposit
  BY <1>1, <1>4
<1>6. FactoryTypeOK'
  BY RefundType
<1>7. QED
  BY <1>1, <1>3, <1>5, <1>6, ArrivalConserves

\* A batch that fails, a callback, a page and whatever else moves no money: what was
\* in flight is still.
LEMMA OthersConserve ==
    ASSUME DepositInv, UNCHANGED <<calls, balance, kms_balance>>,
           Started' = Started, InFlight' = InFlight
    PROVE  DepositInv'
<1>1. Amount(Started, calls) = Amount(InFlight, calls) + SumFunction(balance) + kms_balance
  BY Balance DEF DepositInv
<1>2. DepositConserved'
  BY <1>1 DEF DepositConserved, DepositsOf, Amount, Started, InFlight
<1>3. QED
  BY <1>2 DEF DepositInv

\* Receipts conserve the deposits.
LEMMA ReceiptsConserve ==
    ASSUME FactoryTypeOK, Owed, DepositInv, NEW c \in CallIds, Receipts(c)
    PROVE  DepositInv'
<1>1. CASE ExecuteDeployment(c) /\ BatchUndone(c)
  <2>1. /\ status[c] = "deploying" /\ status' = [status EXCEPT ![c] = "failed"]
        /\ refund' = [refund EXCEPT ![c] = "due"] /\ UNCHANGED <<calls, balance, kms_balance>>
    BY <1>1 DEF ExecuteDeployment, BatchUndone
  <2>2. Started' = Started /\ InFlight' = InFlight
    BY <2>1 DEF Started, InFlight, FactoryTypeOK
  <2>3. QED
    BY <2>1, <2>2, OthersConserve
<1>2. CASE on_app_contract_deployed(c)
  <2>1. \E s \in {"registered", "rejected"} :
           status[c] \in {"deployed", "failed"} /\ status' = [status EXCEPT ![c] = s]
    BY <1>2 DEF on_app_contract_deployed
  <2>2. UNCHANGED <<calls, refund, balance, kms_balance>>
    BY <1>2 DEF on_app_contract_deployed, moneyVars
  <2>3. Started' = Started /\ InFlight' = InFlight
    BY <2>1, <2>2 DEF Started, InFlight, FactoryTypeOK
  <2>4. QED
    BY <2>2, <2>3, OthersConserve
<1>3. QED
  BY <1>1, <1>2, DoneConserves, RefundConserves DEF Receipts, ExecuteDeployment

\* Nothing has been brought at first.
LEMMA DepositInvInit == FactoryInit => DepositInv
<1> SUFFICES ASSUME FactoryInit PROVE DepositInv
  OBVIOUS
<1>1. Started = {} /\ InFlight = {} /\ kms_balance = 0 /\ balance = [a \in AppAccounts |-> 0]
  BY DEF FactoryInit, Started, InFlight
<1>2. Amount({}, calls) = 0
  <2> DEFINE f == [c \in {} |-> calls[c].deposit]
  <2>1. \A c \in {} : f[c] = 0
    OBVIOUS
  <2>2. SumFunctionOnSet(f, {}) = 0
    <3> HIDE DEF f
    <3>1. QED
      BY FS_EmptySet, SumZero
  <2>3. QED
    BY <2>2 DEF Amount
<1>3. SumFunction(balance) = 0
  <2>1. DOMAIN balance = AppAccounts /\ \A a \in AppAccounts : balance[a] = 0
    BY <1>1
  <2>2. SumFunctionOnSet(balance, AppAccounts) = 0
    BY <2>1, FiniteAccountsAssumption, SumZero
  <2>3. QED
    BY <2>1, <2>2 DEF SumFunction
<1>4. DepositConserved
  BY <1>1, <1>2, <1>3, Balance
<1>5. QED
  BY <1>1, <1>4, FS_EmptySet DEF DepositInv

\* Every deposit is in flight, on the account it paid for, or back at the KMS,
\* however many calls are made and in whatever order their receipts run: none is
\* lost and none counted twice (app.rs:44-53).
THEOREM DepositConservedCorrect == RegistrationSpec => []DepositConserved
<1>1. RegistrationInit => DepositInv
  BY DepositInvInit DEF RegistrationInit
<1>2. FactoryInv /\ DepositInv /\ [RegistrationNext]_registrationVars => DepositInv'
  <2> SUFFICES ASSUME FactoryInv, DepositInv, [RegistrationNext]_registrationVars
               PROVE  DepositInv'
    OBVIOUS
  <2> USE DEF FactoryInv
  <2>1. ASSUME NEW c \in CallIds, register_app(c)
        PROVE  DepositInv'
    BY <2>1, RegisterConserves
  <2>2. ASSUME NEW c \in CallIds, Receipts(c)
        PROVE  DepositInv'
    BY <2>2, ReceiptsConserve
  <2>3. CASE UNCHANGED <<callVars, moneyVars>>
    BY <2>3, OthersConserve DEF callVars, moneyVars, Started, InFlight
  <2>4. QED
    BY <2>1, <2>2, <2>3
       DEF RegistrationNext, FactoryNext, ReadPage, factoryVars, registrationVars
<1>3. DepositInv => DepositConserved
  BY DEF DepositInv
<1>4. QED
  BY <1>1, <1>2, <1>3, FactoryInvariant, PTL DEF RegistrationSpec
=============================================================================
