------------------------------ MODULE Upgradable ------------------------------
(***************************************************************************)
(* The Upgradable plugin of near-plugins, modelled from its use in the KMS *)
(* and the app contract.  Code is staged, becomes ready a staging duration *)
(* later, and is deployed by a receipt of its own.  The duration is changed*)
(* in two steps too, the second not before the current duration is over;   *)
(* until it is initialised it counts as zero.                              *)
(*                                                                         *)
(* One operator per method: the states a call at time t can lead to.  Both *)
(* contracts hand all five groups of methods to Role::Owner.               *)
(***************************************************************************)
EXTENDS Naturals

CONSTANTS
    Shipped,      \* the contract's own code
    Codes,        \* other code, of which nothing is known
    NoCode,
    Durations,    \* staging durations in milliseconds
    NoDuration

ASSUME CodeAssumption == Shipped \notin Codes /\ NoCode \notin Codes
ASSUME DurationsAssumption == Durations \subseteq Nat /\ NoDuration \notin Nat

Upgrade ==
    [code : Codes \cup {Shipped},
     staged : Codes \cup {NoCode}, ready : Nat,
     duration : Durations \cup {NoDuration},
     next : Durations \cup {NoDuration}, next_ready : Nat,
     deploying : SUBSET Codes]      \* deployment receipts under way

\* Neither constructor initialises the staging duration.
InitialUpgrade ==
    [code |-> Shipped, staged |-> NoCode, ready |-> 0, duration |-> NoDuration,
     next |-> NoDuration, next_ready |-> 0, deploying |-> {}]

Delay(up) == IF up.duration = NoDuration THEN 0 ELSE up.duration

\* Staging empty code withdraws what is staged.
up_stage_code(up, t) ==
    {[up EXCEPT !.staged = c, !.ready = t + Delay(up)] : c \in Codes}
    \cup {[up EXCEPT !.staged = NoCode, !.ready = 0]}

Bug_up_deploy_code(up, t) ==
    {[up EXCEPT !.deploying = @ \cup {c}] : c \in {x \in {up.staged} : up.ready <= t}}

\* The staged code stays staged.
up_deploy_code(up, t) ==
    {[up EXCEPT !.deploying = @ \cup {c}] : c \in {x \in {up.staged} \ {NoCode} : up.ready <= t}}

up_init_staging_duration(up) ==
    {[up EXCEPT !.duration = d] : d \in {x \in Durations : up.duration = NoDuration}}

up_stage_update_staging_duration(up, t) ==
    {[up EXCEPT !.next = d, !.next_ready = t + Delay(up)] :
        d \in {x \in Durations : up.duration # NoDuration}}

Bug_up_apply_update_staging_duration(up, t) ==
    {[up EXCEPT !.duration = d] : d \in {up.next} \ {NoDuration}}

\* The staged update stays, and may be applied again.
up_apply_update_staging_duration(up, t) ==
    {[up EXCEPT !.duration = d] : d \in {x \in {up.next} \ {NoDuration} : up.next_ready <= t}}

UpCalls(up, t) ==
    up_stage_code(up, t) \cup up_deploy_code(up, t) \cup up_init_staging_duration(up)
    \cup up_stage_update_staging_duration(up, t) \cup up_apply_update_staging_duration(up, t)

\* The deployment receipt replaces the code, or is undone together with the
\* function call that up_deploy_code may append to it.
DeployReceipt(up) ==
    UNION {{[up EXCEPT !.code = c, !.deploying = @ \ {c}],
            [up EXCEPT !.deploying = @ \ {c}]} : c \in up.deploying}

-----------------------------------------------------------------------------
(* What somebody who reads the contract's state at time t can rely on.     *)

KnownCodes(up) == up.deploying \cup ({up.staged} \ {NoCode})

\* No code but the known ones can be deployed before this time: it takes the
\* current duration, or the staged one from the moment it may be applied.
NoticeUntil(up, t) ==
    LET later == t + Delay(up)
        sooner == (IF t < up.next_ready THEN up.next_ready ELSE t) + up.next
    IN  IF up.next # NoDuration /\ sooner < later THEN sooner ELSE later
=============================================================================
