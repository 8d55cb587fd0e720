----------------------------- MODULE MCKmsSystem -----------------------------
(***************************************************************************)
(* Two registrations of one id, one VM and one root-key request, among     *)
(* MaxAdminCalls calls of owners.  Foreign code at the app account leaves  *)
(* the shipped contract, or its own code, tied to another KMS.             *)
(***************************************************************************)
EXTENDS KmsSystem

MCKmsId == <<"kms", "near">>
MCAppIds == {<<"a">>}
MCAppAccounts == {<<"a", "kms", "near">>}
MCInitArgs ==
    {[owner_id |-> OwnerId, disable_upgrades |-> FALSE, allow_any_device |-> FALSE,
      initial_device_id |-> {"d"}, initial_compose_hash |-> {}]}

MCRewrites ==
    {[new(args, kms) EXCEPT !.up.code = c] :
        args \in MCInitArgs, kms \in KmsIds \ {Kms}, c \in Codes \cup {Shipped}}

MCEmbedded == [r \in {"mrtd"} |-> encode(<<"sha384", r>>)]
MCKeyPairs == {<<"k1", "c1">>}

Compose == [parses |-> TRUE, docker_compose_file |-> [file |-> "kms"],
            config |-> [manifest_version |-> 2, runner |-> "docker-compose", kms_enabled |-> TRUE,
                        public_logs |-> TRUE, public_sysinfo |-> TRUE, secure_time |-> "none"]]
Boot == << [event |-> COMPOSE_HASH_EVENT, payload |-> sha256(Compose)] >>
BootDigest == DigestOf(Boot[1])
Alice == [curve |-> "ed25519", bytes |-> <<"raw", "alice">>]

MCQuoteHexes ==
    [q |-> encode([genuine |-> TRUE, platform |-> "p", pck_certificate_chain |-> {"p"}, is_td10 |-> TRUE,
                   report |-> [report_data |-> to_bytes(Alice), rt_mr3 |-> Replay(<<BootDigest>>),
                               registers |-> [r \in {"mrtd"} |-> <<"sha384", r>>]],
                   boot |-> Boot, os_image |-> "os"])]

MCCollaterals ==
    [c |-> [f \in TextFields \cup HexFields |->
              CASE f = "tcb_info" -> [platform |-> "p", issued |-> 0, next_update |-> 1,
                                      status |-> "UpToDate", advisory_ids |-> {}]
                [] f = "tcb_info_signature" ->
                     encode(IntelSigns([platform |-> "p", issued |-> 0, next_update |-> 1,
                                        status |-> "UpToDate", advisory_ids |-> {}]))
                [] f = "qe_identity_signature" -> encode(IntelSigns("qe"))
                [] f = "qe_identity" -> "qe"
                [] f \in {"root_ca_crl", "pck_crl"} -> encode(<<"raw", "crl">>)
                [] OTHER -> "chain"]]

MCTcbInfos ==
    [t |-> [rtmr3 |-> encode(Replay(<<BootDigest>>)),
            event_log |-> << [imr |-> 3, event_type |-> DSTACK_EVENT_TYPE,
                              digest |-> encode(BootDigest), event |-> COMPOSE_HASH_EVENT,
                              event_payload |-> encode(sha256(Compose))] >>,
            registers |-> MCEmbedded, app_compose |-> Compose,
            compose_hash |-> encode(sha256(Compose))]]

MCPublicKeys == {Alice}
MCHashStrings == {encode(sha256([file |-> "kms"]))}
=============================================================================
