----------------------------- MODULE AppRegistry -----------------------------
(***************************************************************************)
(* What the app factory of the KMS promises: an account is claimed at most *)
(* once, for good, with the state its first successful creator gave it;    *)
(* claimed accounts are published one at a time, each once, and the        *)
(* published list only grows at its end.                                   *)
(***************************************************************************)
EXTENDS Naturals, Sequences

CONSTANTS AppAccounts, AppState, NoApp

VARIABLES claims,      \* the claim on each account: an app's state or NoApp
          published    \* the accounts a client can list, oldest first

Published == {published[i] : i \in 1..Len(published)}

Init == claims = [a \in AppAccounts |-> NoApp] /\ published = <<>>

Claim(a) ==
    /\ claims[a] = NoApp
    /\ claims'[a] \in AppState
    /\ claims' = [claims EXCEPT ![a] = claims'[a]]
    /\ UNCHANGED published

Publish(a) ==
    /\ claims[a] # NoApp
    /\ a \notin Published
    /\ published' = Append(published, a)
    /\ UNCHANGED claims

Next == \E a \in AppAccounts : Claim(a) \/ Publish(a)

Spec == Init /\ [][Next]_<<claims, published>>
=============================================================================
