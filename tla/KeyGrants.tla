------------------------------ MODULE KeyGrants ------------------------------
(***************************************************************************)
(* What the KMS promises about root keys: while requests are open, a key   *)
(* is asked for on behalf of a compose digest that is approved at that     *)
(* moment, for each request once; what was asked for comes to one end and  *)
(* is not touched by later approvals, revocations or closings.             *)
(***************************************************************************)
CONSTANTS RequestIds, NoGrant

VARIABLES approved,    \* the approved compose digests
          open,        \* whether requests are taken
          grants       \* the digest each request is granted for, and its end

Init == open = TRUE /\ approved = {} /\ grants = [r \in RequestIds |-> NoGrant]

Govern == UNCHANGED grants

Grant(r) ==
    /\ open = TRUE
    /\ grants[r] = NoGrant
    /\ \E d \in approved : grants' = [grants EXCEPT ![r] = [digest |-> d, end |-> "sent"]]
    /\ UNCHANGED <<approved, open>>

Conclude(r) ==
    /\ grants[r] # NoGrant /\ grants[r].end = "sent"
    /\ \E end \in {"answered", "failed"} : grants' = [grants EXCEPT ![r].end = end]
    /\ UNCHANGED <<approved, open>>

Next == Govern \/ \E r \in RequestIds : Grant(r) \/ Conclude(r)

Spec == Init /\ [][Next]_<<approved, open, grants>>
=============================================================================
