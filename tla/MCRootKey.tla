------------------------------ MODULE MCRootKey ------------------------------
(***************************************************************************)
(* Two compose files, with a VM for each, one's digest with the separator; *)
(* a third VM's quote is bound to another key.  Any quote may come with any*)
(* collateral (good for the first second, for two or for the second, with  *)
(* an open advisory, unsigned, lacking a field, not hex where it should be,*)
(* not JSON) and any TCB info (a log as measured, one with entries of other*)
(* registers, one with a digest that does not decode, one for the other    *)
(* compose file).                                                          *)
(***************************************************************************)
EXTENDS RootKey

Registers == {"mrtd", "rtmr0", "rtmr1", "rtmr2"}
MCEmbedded == [r \in Registers |-> encode(<<"sha384", r>>)]

File(name) == [file |-> name]
Compose(file) ==
    [parses |-> TRUE, docker_compose_file |-> File(file),
     config |-> [manifest_version |-> 2, runner |-> "docker-compose", kms_enabled |-> TRUE,
                 public_logs |-> TRUE, public_sysinfo |-> TRUE, secure_time |-> "none"]]

MCSeparatorFirst == {Compose("other")}

Boot(file) == << [event |-> <<"app-id">>, payload |-> <<"raw", "id">>],
                 [event |-> COMPOSE_HASH_EVENT, payload |-> sha256(Compose(file))] >>

LogOf(boot) == [i \in 1..Len(boot) |->
                  [imr |-> 3, event_type |-> DSTACK_EVENT_TYPE, digest |-> encode(DigestOf(boot[i])),
                   event |-> boot[i].event, event_payload |-> encode(boot[i].payload)]]

Alice == [curve |-> "ed25519", bytes |-> <<"raw", "alice">>]
Bob == [curve |-> "ed25519", bytes |-> <<"raw", "bob">>]
MCPublicKeys == {Alice}

Upper(bytes) == [bytes |-> bytes, lower |-> FALSE]

Quote(file, key) ==
    [genuine |-> TRUE, platform |-> "p", pck_certificate_chain |-> {"p"}, is_td10 |-> TRUE,
     report |-> [report_data |-> to_bytes(key), rt_mr3 |-> Register(Boot(file)),
                 registers |-> [r \in Registers |-> <<"sha384", r>>]],
     boot |-> Boot(file)]

MCQuoteHexes ==
    [kms |-> encode(Quote("kms", Alice)), other |-> Upper(Quote("other", Alice)),
     bob |-> encode(Quote("other", Bob)),
     fake |-> encode([Quote("kms", Alice) EXCEPT !.genuine = FALSE]), garbled |-> BadHex]

Statement(issued, next_update, advisories) ==
    [platform |-> "p", issued |-> issued, next_update |-> next_update, status |-> "UpToDate",
     advisory_ids |-> advisories]

Collateral(statement, pck) ==
    [tcb_info_issuer_chain |-> "c", tcb_info |-> statement,
     tcb_info_signature |-> encode(IntelSigns(statement)), qe_identity_issuer_chain |-> "c",
     qe_identity |-> "qe", qe_identity_signature |-> encode(IntelSigns("qe")),
     pck_crl_issuer_chain |-> "c", root_ca_crl |-> encode(<<"raw", "crl">>),
     pck_crl |-> encode(<<"raw", "crl">>), pck_certificate_chain |-> pck]

GoodCollateral == Collateral(Statement(0, 1, {}), "")
MCCollaterals ==
    [good |-> GoodCollateral, short |-> Collateral(Statement(0, 0, {}), "p"),
     late |-> Collateral(Statement(1, 1, {}), "p"),
     advisory |-> Collateral(Statement(0, 1, {"INTEL-SA"}), "p"),
     forged |-> [GoodCollateral EXCEPT !.tcb_info_signature = encode(<<"raw", "forged">>)],
     not_hex |-> [GoodCollateral EXCEPT !.pck_crl = BadHex],
     lacking |-> [f \in DOMAIN GoodCollateral \ {"qe_identity"} |-> GoodCollateral[f]],
     garbled |-> NotJson]

TcbInfo(file, claimed, log) ==
    [rtmr3 |-> encode(Register(Boot(file))), event_log |-> log,
     registers |-> MCEmbedded, app_compose |-> Compose(claimed),
     compose_hash |-> encode(sha256(Compose(claimed)))]

Foreign == [LogOf(Boot("other"))[2] EXCEPT !.imr = 0]
MCTcbInfos ==
    [n \in {"kms", "other", "swapped", "skipped", "garbled"} |->
        CASE n = "kms"     -> TcbInfo("kms", "kms", LogOf(Boot("kms")))
          [] n = "other"   -> TcbInfo("other", "other", <<Foreign>> \o LogOf(Boot("other")))
          [] n = "swapped" -> TcbInfo("other", "kms", LogOf(Boot("kms")))
          [] n = "skipped" -> TcbInfo("kms", "other", << [LogOf(Boot("kms"))[2] EXCEPT !.digest = BadHex] >>
                                                       \o LogOf(Boot("other")))
          [] n = "garbled" -> NotJson]

MCHonestInputs ==
    {[quote |-> "kms", collateral |-> "short", tcb_info |-> "kms", key |-> Alice],
     [quote |-> "kms", collateral |-> "late", tcb_info |-> "kms", key |-> Alice],
     [quote |-> "other", collateral |-> "good", tcb_info |-> "other", key |-> Alice]}

MCHashStrings == {encode(sha256(File("kms"))), Upper(sha256(File("kms"))),
                  Upper(sha256(File("other"))), BadHex}
=============================================================================
