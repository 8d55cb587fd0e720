----------------------------- MODULE Attestation -----------------------------
(***************************************************************************)
(* Attestation verification (contracts/kms/src/attestation): a pure        *)
(* function of the attestation, the expected report data, the time and the *)
(* approved compose digests.                                               *)
(*                                                                         *)
(* Hashes and signatures are injective terms.  Event names and payloads    *)
(* are byte strings, cut into tokens.  Any of them may hold the ':' that   *)
(* joins the two in an event digest: a digest that holds it somewhere is   *)
(* represented by one that begins with it.                                 *)
(***************************************************************************)
EXTENDS RequestParsing, Naturals, Sequences, SequencesExt

CONSTANTS
    EmbeddedTcbInfo,   \* the registers of assets/tcb_info.json: hex strings, by name
    Separator,         \* the byte ':'
    SeparatorFirst     \* what hashes to a digest that begins with that byte

DSTACK_EVENT_TYPE == 134217729
RTMR3_INDEX == 3
COMPOSE_HASH_EVENT == <<"compose-hash">>
EXPECTED_QUOTE_STATUS == "UpToDate"

ASSUME SeparatorAssumption == Separator # "compose-hash"

sha256(x) == <<IF x \in SeparatorFirst THEN Separator ELSE "byte", <<"sha256", x>>>>

\* DockerComposeHash::try_from_hex succeeds: a string of 32 bytes.
IsHash32(hex) == Decodes(hex) /\ hex.bytes[2][1] = "sha256"

\* The report data binds the signer's key, without its curve byte.
to_bytes(public_key) == <<1, <<"sha3_384", public_key.bytes>>>>

-----------------------------------------------------------------------------
(* RTMR3 and the event log *)

\* The name, ':' and the payload, without their lengths.
EventBytes(event, payload) == event \o <<Separator>> \o payload

event_digest(event_type, event, payload) == <<"sha384", event_type, EventBytes(event, payload)>>

\* Iterator::filter: the members of s that are in W, in order.
Kept(s, W) ==
    LET kept[i \in 0..Len(s)] ==
          IF i = 0 THEN <<>> ELSE IF s[i] \in W THEN Append(kept[i - 1], s[i]) ELSE kept[i - 1]
    IN  kept[Len(s)]

Rtmr3Events(event_log) == Kept(event_log, {e \in Range(event_log) : e.imr = RTMR3_INDEX})
WithDigest(events) == Kept(events, {e \in Range(events) : Decodes(e.digest)})

Zero48 == <<>>
extend(register, digest) == <<"sha384", register, digest>>
Replay(digests) ==
    LET register[i \in 0..Len(digests)] ==
          IF i = 0 THEN Zero48 ELSE extend(register[i - 1], digests[i])
    IN  register[Len(digests)]

Bug_verify_event_log_rtmr3(event_log, expected_digest) ==
    LET rtmr3 == Rtmr3Events(event_log)
        replayed == WithDigest(rtmr3)
    IN  /\ \A i \in 1..Len(rtmr3) : rtmr3[i].event_type = DSTACK_EVENT_TYPE
        /\ Replay([i \in 1..Len(replayed) |-> replayed[i].digest.bytes]) = expected_digest

\* Events of the log whose digest does not decode are skipped.
verify_event_log_rtmr3(event_log, expected_digest) ==
    LET rtmr3 == Rtmr3Events(event_log)
        replayed == WithDigest(rtmr3)
    IN  /\ \A i \in 1..Len(rtmr3) : rtmr3[i].event_type = DSTACK_EVENT_TYPE
        /\ \A i \in 1..Len(replayed) :
              LET e == replayed[i] IN
              /\ Decodes(e.event_payload)
              /\ e.digest.bytes = event_digest(e.event_type, e.event, e.event_payload.bytes)
        /\ Replay([i \in 1..Len(replayed) |-> replayed[i].digest.bytes]) = expected_digest

\* What a VM does at its boot: it measures events, each [event, payload], into RTMR3.
DigestOf(e) == event_digest(DSTACK_EVENT_TYPE, e.event, e.payload)
Register(boot) == Replay([i \in 1..Len(boot) |-> DigestOf(boot[i])])
MeasuredComposes(boot) == Kept(boot, {e \in Range(boot) : e.event = COMPOSE_HASH_EVENT})

\* The entry is what a correct logger writes for the event, in any spelling.
Records(entry, e) ==
    /\ entry.event_type = DSTACK_EVENT_TYPE /\ entry.event = e.event
    /\ Decodes(entry.event_payload) /\ entry.event_payload.bytes = e.payload
    /\ Decodes(entry.digest) /\ entry.digest.bytes = DigestOf(e)

\* The entry stands for the event in a replay: its digest is that of the event's
\* bytes, wherever it splits them into name and payload.
Replays(entry, e) ==
    /\ entry.event_type = DSTACK_EVENT_TYPE
    /\ Decodes(entry.event_payload) /\ Decodes(entry.digest) /\ entry.digest.bytes = DigestOf(e)
    /\ EventBytes(entry.event, entry.event_payload.bytes) = EventBytes(e.event, e.payload)

\* Where bytes split is settled when there is only one place to split them.
Unsplit(bytes) == \A i \in 1..Len(bytes) : bytes[i] # Separator
NamesUnsplit(events) == \A i \in 1..Len(events) : Unsplit(events[i].event)
ComposesUnsplit(boot) ==
    \A i \in 1..Len(boot) : boot[i].event = COMPOSE_HASH_EVENT => Unsplit(boot[i].payload)
Unambiguous(events, boot) == NamesUnsplit(events) \/ ComposesUnsplit(boot)

IsBytes(s) == Len(s) \in Nat /\ s = [i \in 1..Len(s) |-> s[i]]
IsEvent(e) == IsBytes(e.event) /\ IsBytes(e.payload)
IsEntry(entry) ==
    IsBytes(entry.event) /\ (Decodes(entry.event_payload) => IsBytes(entry.event_payload.bytes))

Bug_verify_rtmr3(report, tcb_info) == tcb_info.rtmr3 = encode(report.rt_mr3)

verify_rtmr3(report, tcb_info) ==
    /\ tcb_info.rtmr3 = encode(report.rt_mr3)
    /\ verify_event_log_rtmr3(tcb_info.event_log, report.rt_mr3)

\* decode_rtmr: a register is 48 bytes, a SHA-384 value.
IsHash48(hex) == Decodes(hex) /\ hex.bytes[1] = "sha384"

MeasurementsLoad == \A r \in DOMAIN EmbeddedTcbInfo : IsHash48(EmbeddedTcbInfo[r])
from_embedded_tcb_info == [r \in DOMAIN EmbeddedTcbInfo |-> EmbeddedTcbInfo[r].bytes]

verify_static_rtmrs(report, tcb_info, expected) ==
    /\ report.registers = expected
    /\ tcb_info.registers = [r \in DOMAIN expected |-> encode(expected[r])]

-----------------------------------------------------------------------------
(* The app compose file; app_compose is the parsed JSON text, and `config` *)
(* its settings.                                                           *)

validate_app_compose_config(config) ==
    /\ config.manifest_version = 2
    /\ config.runner = "docker-compose"
    /\ config.kms_enabled /\ config.public_logs /\ config.public_sysinfo
    /\ config.secure_time # "false"

\* sha256 gives 32 bytes, so equality covers the length check of the payload.
validate_app_compose_payload(payload, app_compose) ==
    Decodes(payload) /\ payload.bytes = sha256(app_compose)

ComposeEvents(event_log) ==
    Kept(event_log, {e \in Range(event_log) : e.event = COMPOSE_HASH_EVENT /\ e.imr = RTMR3_INDEX})

Bug_verify_app_compose(tcb_info) ==
    LET events == ComposeEvents(tcb_info.event_log)
    IN  /\ tcb_info.app_compose.parses
        /\ events # <<>>
        /\ events[1].event_payload = tcb_info.compose_hash
        /\ validate_app_compose_config(tcb_info.app_compose.config)
        /\ validate_app_compose_payload(events[1].event_payload, tcb_info.app_compose)

verify_app_compose(tcb_info) ==
    LET events == ComposeEvents(tcb_info.event_log)
    IN  /\ tcb_info.app_compose.parses
        /\ Len(events) = 1
        /\ events[1].event_payload = tcb_info.compose_hash
        /\ validate_app_compose_config(tcb_info.app_compose.config)
        /\ validate_app_compose_payload(events[1].event_payload, tcb_info.app_compose)

LauncherDigest(tcb_info) == sha256(tcb_info.app_compose.docker_compose_file)

verify_launcher_compose_hash(tcb_info, allowed) ==
    tcb_info.app_compose.parses /\ LauncherDigest(tcb_info) \in allowed

-----------------------------------------------------------------------------
(* The quote, and the collateral it is judged by                           *)

IntelSigns(statement) == <<"intel", statement>>

\* The certificate of the platform that signed: the collateral's, or the quote's own.
PckCertificate(quote, collateral) ==
    IF collateral.pck_certificate_chain = {} THEN quote.pck_certificate_chain
                                             ELSE collateral.pck_certificate_chain

\* dcap_qvl::verify::verify: a quote a genuine platform signed, and statements of
\* Intel about that platform that are valid at the time.
DcapVerifies(quote, collateral, timestamp) ==
    /\ quote.genuine /\ PckCertificate(quote, collateral) = {quote.platform}
    /\ collateral.tcb_info_signature = IntelSigns(collateral.tcb_info)
    /\ collateral.qe_identity_signature = IntelSigns(collateral.qe_identity)
    /\ collateral.tcb_info.platform = quote.platform
    /\ collateral.tcb_info.issued <= timestamp /\ timestamp <= collateral.tcb_info.next_update

\* The status of the verified report is the collateral's word on the platform.
verify_tcb_status(collateral) ==
    collateral.tcb_info.status = EXPECTED_QUOTE_STATUS /\ collateral.tcb_info.advisory_ids = {}

verify_report_data(expected, report) == expected = report.report_data

Bug_verify(attestation, expected_report_data, timestamp, allowed) ==
    LET quote == attestation.quote
        collateral == attestation.collateral
        tcb_info == attestation.tcb_info
    IN  /\ MeasurementsLoad
        /\ DcapVerifies(quote, collateral, timestamp)
        /\ quote.is_td10
        /\ verify_tcb_status(collateral)
        /\ verify_report_data(expected_report_data, quote.report)
        /\ verify_static_rtmrs(quote.report, tcb_info, from_embedded_tcb_info)
        /\ verify_app_compose(tcb_info)
        /\ verify_launcher_compose_hash(tcb_info, allowed)

verify(attestation, expected_report_data, timestamp, allowed) ==
    LET quote == attestation.quote
        collateral == attestation.collateral
        tcb_info == attestation.tcb_info
    IN  /\ MeasurementsLoad
        /\ DcapVerifies(quote, collateral, timestamp)
        /\ quote.is_td10
        /\ verify_tcb_status(collateral)
        /\ verify_report_data(expected_report_data, quote.report)
        /\ verify_static_rtmrs(quote.report, tcb_info, from_embedded_tcb_info)
        /\ verify_rtmr3(quote.report, tcb_info)
        /\ verify_app_compose(tcb_info)
        /\ verify_launcher_compose_hash(tcb_info, allowed)
=============================================================================
