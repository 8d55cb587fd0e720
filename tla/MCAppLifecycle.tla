---------------------------- MODULE MCAppLifecycle ---------------------------
(***************************************************************************)
(* One app and one account, whose roles come and go; staging durations are *)
(* unset, zero or two, over four instants.  Other code leaves a fresh      *)
(* contract there, with its own code or the shipped one, staged or not.    *)
(***************************************************************************)
EXTENDS AppLifecycle

MCInitArgs ==
    {[owner_id |-> o, disable_upgrades |-> d, allow_any_device |-> FALSE,
      initial_device_id |-> dev, initial_compose_hash |-> {}] :
        o \in Accounts, d \in BOOLEAN, dev \in {{}, {""}}}

MCRewrites ==
    {[new(args, kms) EXCEPT !.up.code = c, !.up.staged = s] :
        args \in {x \in MCInitArgs : x.disable_upgrades /\ x.initial_device_id = {}},
        kms \in KmsIds, c \in Codes \cup {Shipped}, s \in Codes \cup {NoCode}}
=============================================================================
