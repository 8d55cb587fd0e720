------------------------------- MODULE RootKey -------------------------------
(***************************************************************************)
(* Requests for the KMS root key (request_kms_root_key and the compose-hash*)
(* allowlist of contracts/kms/src/lib.rs, with the MPC contract it calls). *)
(* The requester hands in a quote, collateral and TCB info of its choice.  *)
(* The request is verified in the receipt that runs it; if it is accepted, *)
(* a call to the MPC contract goes out and its result goes to the requester*)
(* while the KMS has no callback and keeps nothing of it.  Requests that   *)
(* panic change nothing and are not steps.                                 *)
(*                                                                         *)
(* `boot` of a quote is not handed in: it records, for the properties, the *)
(* events its VM measured.                                                 *)
(***************************************************************************)
EXTENDS KmsAccess, Attestation, Clock

CONSTANTS
    RequestIds,      \* the requests that are made
    QuoteHexes,      \* the strings a request may hand in, by name: quotes in hex, ...
    Collaterals,     \* ... collateral, ...
    TcbInfos,        \* ... and TCB info
    PublicKeys,      \* the keys a request may be signed with
    HonestInputs,    \* what VMs that follow the protocol hand in
    HashStrings,     \* the strings the owner may put in the allowlist
    NoRequest, NoGrant

\* A request's strings, by name, and its signer.
Input == [quote : DOMAIN QuoteHexes, collateral : DOMAIN Collaterals, tcb_info : DOMAIN TcbInfos,
          key : PublicKeys]

Accepted == [input : Input, time : Instants]

ASSUME NoRequestAssumption == NoRequest \notin Accepted
ASSUME NoGrantAssumption ==
    \A n \in DOMAIN TcbInfos :
        TcbInfos[n] # NotJson => NoGrant # [digest |-> LauncherDigest(TcbInfos[n]), end |-> "sent"]
\* Intel dates its statements.
ASSUME StatementsAssumption ==
    \A n \in DOMAIN Collaterals : CollateralParses(Collaterals[n]) =>
        LET statement == try_from_json(Collaterals[n]).tcb_info
        IN  statement.issued \in Nat /\ statement.next_update \in Nat

\* The strings of a TcbInfo are parsed into a list of entries.
ASSUME LogAssumption ==
    \A n \in DOMAIN TcbInfos :
        TcbInfos[n] # NotJson
            => LET log == TcbInfos[n].event_log
               IN  log \in Seq(Range(log)) /\ \A k \in 1..Len(log) : IsEntry(log[k])

\* assets/tcb_info.json, compiled in, holds registers.
ASSUME MeasurementsAssumption == MeasurementsLoad

\* A genuine platform reports what its VM measured, and the image with the expected
\* registers is dstack's, which measures its compose file.
ASSUME QuoteAssumption ==
    \A n \in DOMAIN QuoteHexes :
        LET quote == QuoteHexes[n].bytes
        IN  Decodes(QuoteHexes[n]) /\ quote.genuine
            => /\ quote.boot \in Seq(Range(quote.boot))
               /\ \A k \in 1..Len(quote.boot) : IsEvent(quote.boot[k])
               /\ quote.report.rt_mr3 = Register(quote.boot)
               /\ quote.report.registers = from_embedded_tcb_info => MeasuredComposes(quote.boot) # <<>>

\* Intel's collateral for an up-to-date platform, whose PCK certificate comes with it or
\* with the quote; an empty chain is none.
Certifies(collateral, quote) ==
    /\ \A f \in TextFields \cup HexFields : f \in DOMAIN collateral /\ collateral[f] # NotString
    /\ \A f \in HexFields : Decodes(collateral[f])
    /\ collateral.tcb_info_signature.bytes = IntelSigns(collateral.tcb_info)
    /\ collateral.qe_identity_signature.bytes = IntelSigns(collateral.qe_identity)
    /\ collateral.tcb_info.platform = quote.platform
    /\ collateral.tcb_info.status = "UpToDate" /\ collateral.tcb_info.advisory_ids = {}
    /\ (get_str(collateral, "pck_certificate_chain") \ {""}) \cup quote.pck_certificate_chain = {quote.platform}

\* The guest's log of the VM's boot: an entry for RTMR3 for every event, in order and
\* in any spelling, among entries of other registers.
Logs(tcb_info, boot) ==
    LET rtmr3 == Rtmr3Events(tcb_info.event_log)
    IN  /\ Len(rtmr3) = Len(boot)
        /\ \A k \in 1..Len(boot) :
              /\ Records(rtmr3[k], boot[k])
              /\ boot[k].event = COMPOSE_HASH_EVENT => rtmr3[k].event_payload = tcb_info.compose_hash

\* The VM runs the expected image with one compose file and presents both as they are.
FollowsProtocol(i) ==
    LET quote == QuoteHexes[i.quote].bytes
        tcb_info == TcbInfos[i.tcb_info]
        composes == MeasuredComposes(quote.boot)
    IN  /\ Decodes(QuoteHexes[i.quote]) /\ quote.genuine /\ quote.is_td10
        /\ quote.report.registers = from_embedded_tcb_info
        /\ quote.report.report_data = to_bytes(i.key)
        /\ Collaterals[i.collateral] # NotJson /\ Certifies(Collaterals[i.collateral], quote)
        /\ tcb_info # NotJson /\ Logs(tcb_info, quote.boot)
        /\ tcb_info.rtmr3 = encode(quote.report.rt_mr3)
        /\ tcb_info.registers = [r \in DOMAIN EmbeddedTcbInfo |-> encode(EmbeddedTcbInfo[r].bytes)]
        /\ tcb_info.app_compose.parses /\ validate_app_compose_config(tcb_info.app_compose.config)
        /\ Len(composes) = 1 /\ composes[1].payload = sha256(tcb_info.app_compose)

ASSUME HonestAssumption == \A i \in HonestInputs : i \in Input /\ FollowsProtocol(i)

VARIABLES
    kms_allowed_compose_hashes,   \* the allowlist, of strings
    requests,                     \* what was accepted and when, or NoRequest
    progress                      \* how far each request is

rootKeyVars == <<kms_allowed_compose_hashes, now, requests, progress>>

RootKeyTypeOK ==
    /\ kms_allowed_compose_hashes \subseteq HashStrings
    /\ now \in Instants
    /\ requests \in [RequestIds -> Accepted \cup {NoRequest}]
    /\ progress \in [RequestIds -> {"none", "sent", "answered", "failed"}]
    /\ \A r \in RequestIds : progress[r] # "none" => requests[r] \in Accepted

RootKeyInit ==
    /\ ClockInit
    /\ kms_allowed_compose_hashes = {}
    /\ requests = [r \in RequestIds |-> NoRequest]
    /\ progress = [r \in RequestIds |-> "none"]

-----------------------------------------------------------------------------
(* The allowlist.  The strings are neither checked nor normalised.         *)

add_kms_compose_hash(h) ==
    /\ Permitted({"Owner"})
    /\ kms_allowed_compose_hashes' = kms_allowed_compose_hashes \cup {h}
    /\ UNCHANGED <<now, requests, progress>>

remove_kms_compose_hash(h) ==
    /\ Permitted({"Owner"})
    /\ kms_allowed_compose_hashes' = kms_allowed_compose_hashes \ {h}
    /\ UNCHANGED <<now, requests, progress>>

is_kms_compose_hash_allowed(h) == h \in kms_allowed_compose_hashes

-----------------------------------------------------------------------------
(* A request *)

AllowedDigests == {h.bytes : h \in {x \in kms_allowed_compose_hashes : Decodes(x)}}

Parses(i) == RequestParses(QuoteHexes[i.quote], Collaterals[i.collateral], TcbInfos[i.tcb_info])

DstackAttestation(i) == [quote |-> QuoteHexes[i.quote].bytes,
                         collateral |-> try_from_json(Collaterals[i.collateral]),
                         tcb_info |-> TcbInfos[i.tcb_info]]

Parsed == {[input |-> i, attestation |-> DstackAttestation(i)] : i \in {j \in Input : Parses(j)}}

timestamp_s == now \div 1000

\* Every entry is converted first; one that does not convert panics the call.
Accepts(attestation, public_key) ==
    /\ \A h \in kms_allowed_compose_hashes : IsHash32(h)
    /\ verify(attestation, to_bytes(public_key), timestamp_s, AllowedDigests)

Bug_request_kms_root_key(r) ==
    /\ progress[r] = "none"
    /\ \E p \in Parsed :
          /\ Accepts(p.attestation, p.input.key)
          /\ requests' = [requests EXCEPT ![r] = [input |-> p.input, time |-> now]]
    /\ progress' = [progress EXCEPT ![r] = "sent"]
    /\ UNCHANGED <<kms_allowed_compose_hashes, now>>

request_kms_root_key(r) ==
    /\ progress[r] = "none"
    /\ NotPaused("request_kms_root_key")
    /\ \E p \in Parsed :
          /\ Accepts(p.attestation, p.input.key)
          /\ requests' = [requests EXCEPT ![r] = [input |-> p.input, time |-> now]]
    /\ progress' = [progress EXCEPT ![r] = "sent"]
    /\ UNCHANGED <<kms_allowed_compose_hashes, now>>

\* The MPC contract derives the key, ...
request_app_private_key(r) ==
    /\ progress[r] = "sent"
    /\ progress' = [progress EXCEPT ![r] = "answered"]
    /\ UNCHANGED <<kms_allowed_compose_hashes, now, requests>>

\* ... or fails: it is out of service, or its own deadline passes.
MpcFails(r) ==
    /\ progress[r] = "sent"
    /\ progress' = [progress EXCEPT ![r] = "failed"]
    /\ UNCHANGED <<kms_allowed_compose_hashes, now, requests>>

Mpc(r) == request_app_private_key(r) \/ MpcFails(r)

RootKeyNext ==
    \/ \E h \in HashStrings : add_kms_compose_hash(h) \/ remove_kms_compose_hash(h)
    \/ \E r \in RequestIds : request_kms_root_key(r) \/ Mpc(r)
    \/ Tick /\ UNCHANGED <<kms_allowed_compose_hashes, requests, progress>>

keyVars == <<accessVars, rootKeyVars>>

KeyInit == AccessInit /\ RootKeyInit
KeyNext == \/ RootKeyNext /\ UNCHANGED accessVars
           \/ AccessNext /\ UNCHANGED rootKeyVars

KeySpec == KeyInit /\ [][KeyNext]_keyVars

-----------------------------------------------------------------------------
(* Properties *)

Digest(i) == LauncherDigest(TcbInfos[i.tcb_info])

\* The quote is of a genuine platform that Intel, in a signed statement valid to
\* the second when the request ran, called up to date, and is bound to the signer.
Vouched(r) ==
    LET time == requests[r].time
        attestation == DstackAttestation(requests[r].input)
        quote == attestation.quote
        statement == attestation.collateral.tcb_info
    IN  /\ quote.genuine /\ quote.report.report_data = to_bytes(requests[r].input.key)
        /\ statement.platform = quote.platform /\ statement.status = "UpToDate"
        /\ attestation.collateral.tcb_info_signature = IntelSigns(statement)
        /\ 1000 * statement.issued <= time /\ time < 1000 * (statement.next_update + 1)

\* The compose file handed in is the one its VM measured.
Booted(r) ==
    LET attestation == DstackAttestation(requests[r].input)
        composes == MeasuredComposes(attestation.quote.boot)
    IN  Len(composes) = 1 /\ composes[1].payload = sha256(attestation.tcb_info.app_compose)

\* The digests of the VM's compose events tell what was measured.
Settled(r) ==
    LET attestation == DstackAttestation(requests[r].input)
    IN  Unambiguous(Rtmr3Events(attestation.tcb_info.event_log), attestation.quote.boot)

\* The MPC contract is asked only for a VM that is vouched for when the request
\* runs and that booted the one compose file it presents, unless both a compose
\* digest it measured and a name of its log hold the separator (lib.rs:160-207).
KeysOnlyToApproved ==
    \A r \in RequestIds : progress[r] # "none" => Vouched(r) /\ (Settled(r) => Booted(r))

\* A VM that follows the protocol is served: with any spelling of its digest among
\* well-formed entries, and collateral whose seconds of validity include now, the
\* last one to its end, its request is accepted (lib.rs:163-207).
HonestServed ==
    \A i \in HonestInputs :
        LET statement == Collaterals[i.collateral].tcb_info
        IN  /\ \A h \in kms_allowed_compose_hashes : IsHash32(h)
            /\ \E h \in kms_allowed_compose_hashes : h.bytes = Digest(i)
            /\ 1000 * statement.issued <= now /\ now < 1000 * (statement.next_update + 1)
            => Parses(i) /\ Accepts(DstackAttestation(i), i.key)

\* Requests implement the grants the KMS promises: one goes out only while the
\* method is open and for a digest listed at that moment, in some spelling; it
\* ends once, and nothing the owners do meanwhile changes it (lib.rs:153, 189-224).
Grants == INSTANCE KeyGrants WITH
    approved <- AllowedDigests,
    open <- NotPaused("request_kms_root_key"),
    grants <- [r \in RequestIds |->
                 IF progress[r] = "none" THEN NoGrant
                 ELSE [digest |-> Digest(requests[r].input), end |-> progress[r]]]
ImplementsGrants == Grants!Spec

\* "Check if a KMS compose hash is allowed" (view.rs:120): the view says of a
\* digest what a request with it would meet.
ViewAgrees ==
    \A h \in HashStrings :
        IsHash32(h) => (is_kms_compose_hash_allowed(encode(h.bytes)) <=> h.bytes \in AllowedDigests)

\* README.md:390, "KMS contract checks compose hash is in allowlist": a valid
\* attestation with a listed compose hash is accepted.
ListedIsAccepted ==
    \A i \in HonestInputs :
        LET listed == {h.bytes : h \in {x \in kms_allowed_compose_hashes : IsHash32(x)}}
            attestation == DstackAttestation(i)
        IN  verify(attestation, to_bytes(i.key), timestamp_s, listed) => Accepts(attestation, i.key)
=============================================================================
