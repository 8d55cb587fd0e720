---------------------------- MODULE MCAppFactory -----------------------------
(***************************************************************************)
(* Two calls of register_app by one owner: for one account or for two,     *)
(* with two good arguments or one `new` panics on, enough deposit or too   *)
(* little, an app_id that is a direct subaccount, a dotted one and one too *)
(* long.                                                                   *)
(***************************************************************************)
EXTENDS AppFactory

MCKmsId == <<"kms", "near">>
MCAppIds == {<<"a">>, <<"b">>, <<"x", "a">>, <<"l", "o", "n", "g">>}
MCAppAccounts == {id \o MCKmsId : id \in MCAppIds}

MCInitArgs ==
    {[owner_id |-> OwnerId, disable_upgrades |-> FALSE, allow_any_device |-> FALSE,
      initial_device_id |-> dev, initial_compose_hash |-> {"h"}] : dev \in {{}, {"d"}, {""}}}
=============================================================================
