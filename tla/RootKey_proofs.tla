---------------------------- MODULE RootKey_proofs ---------------------------
(***************************************************************************)
(* Proofs about RootKey, for every set of requests, inputs, allowlist      *)
(* strings and instants, and event logs and boots of every length.  KeyInv *)
(* adds that what was accepted had parsed, so that what Intel and the      *)
(* platform put into it can be relied on.                                  *)
(***************************************************************************)
EXTENDS RootKey, Lemmas

\* What was accepted had parsed.
AcceptedParses == \A r \in RequestIds : progress[r] # "none" => Parses(requests[r].input)

KeyInv == RootKeyTypeOK /\ AcceptedParses /\ KeysOnlyToApproved

-----------------------------------------------------------------------------
(* Verification *)

\* The seconds a time in milliseconds is floored to, and back (lib.rs:185).
LEMMA SecondsFloor ==
    ASSUME NEW time \in Nat, NEW first \in Nat, NEW last \in Nat,
           first <= time \div 1000, time \div 1000 <= last
    PROVE  1000 * first <= time /\ time < 1000 * (last + 1)
  BY SMT

\* What an accepted attestation says of its quote and collateral
\* (attestation.rs:118-214).
LEMMA VerifiedVouched ==
    ASSUME NEW attestation, NEW expected, NEW timestamp, NEW allowed,
           verify(attestation, expected, timestamp, allowed)
    PROVE  LET quote == attestation.quote
               statement == attestation.collateral.tcb_info
           IN  /\ quote.genuine /\ quote.report.report_data = expected
               /\ statement.platform = quote.platform /\ statement.status = "UpToDate"
               /\ attestation.collateral.tcb_info_signature = IntelSigns(statement)
               /\ statement.issued <= timestamp /\ timestamp <= statement.next_update
  BY DEF verify, DcapVerifies, verify_tcb_status, verify_report_data, EXPECTED_QUOTE_STATUS

\* The compose file of an accepted attestation is the one its VM booted, if its
\* bytes split in one way (attestation.rs:218-259, 328-357).
LEMMA VerifiedBooted ==
    ASSUME NEW i \in Input, Parses(i), NEW expected, NEW timestamp, NEW allowed,
           verify(DstackAttestation(i), expected, timestamp, allowed),
           Unambiguous(Rtmr3Events(DstackAttestation(i).tcb_info.event_log), DstackAttestation(i).quote.boot)
    PROVE  LET attestation == DstackAttestation(i)
               composes == MeasuredComposes(attestation.quote.boot)
           IN  /\ Len(composes) = 1
               /\ composes[1].payload = sha256(attestation.tcb_info.app_compose)
<1> DEFINE quote == DstackAttestation(i).quote
           tcb_info == DstackAttestation(i).tcb_info
<1>1. /\ i.quote \in DOMAIN QuoteHexes /\ quote = QuoteHexes[i.quote].bytes /\ Decodes(QuoteHexes[i.quote])
      /\ i.tcb_info \in DOMAIN TcbInfos /\ tcb_info = TcbInfos[i.tcb_info] /\ tcb_info # NotJson
  BY DEF Input, Parses, RequestParses, DstackAttestation
<1>2. /\ quote.genuine /\ quote.report.registers = from_embedded_tcb_info
      /\ verify_event_log_rtmr3(tcb_info.event_log, quote.report.rt_mr3)
      /\ verify_app_compose(tcb_info)
  BY DEF verify, DcapVerifies, verify_static_rtmrs, verify_rtmr3
<1>0. Unambiguous(Rtmr3Events(tcb_info.event_log), quote.boot)
  OBVIOUS
<1> HIDE DEF quote, tcb_info
<1>3. /\ quote.boot \in Seq(Range(quote.boot)) /\ quote.report.rt_mr3 = Register(quote.boot)
      /\ MeasuredComposes(quote.boot) # <<>> /\ \A k \in 1..Len(quote.boot) : IsEvent(quote.boot[k])
  BY <1>1, <1>2, QuoteAssumption
<1>4. /\ tcb_info.event_log \in Seq(Range(tcb_info.event_log))
      /\ \A k \in 1..Len(tcb_info.event_log) : IsEntry(tcb_info.event_log[k])
  BY <1>1, LogAssumption
<1>5. verify_event_log_rtmr3(tcb_info.event_log, Register(quote.boot))
  BY <1>2, <1>3
<1>6. /\ Len(MeasuredComposes(quote.boot)) = 1
      /\ MeasuredComposes(quote.boot)[1].payload = sha256(tcb_info.app_compose)
  <2>1. Typed(tcb_info.event_log, quote.boot)
    BY <1>3, <1>4 DEF Typed
  <2>2. QED
    BY <1>0, <1>2, <1>3, <1>4, <1>5, <2>1, ComposeOnly
<1>7. QED
  BY <1>6 DEF quote, tcb_info

\* An accepted attestation's digest is approved (attestation.rs:409-424).
LEMMA VerifiedApproved ==
    ASSUME NEW attestation, NEW expected, NEW timestamp, NEW allowed,
           verify(attestation, expected, timestamp, allowed)
    PROVE  LauncherDigest(attestation.tcb_info) \in allowed
  BY DEF verify, verify_launcher_compose_hash

-----------------------------------------------------------------------------
(* The invariant *)

\* Nothing is allowed or requested at first.
LEMMA KeyInvInit == KeyInit => KeyInv
<1> SUFFICES ASSUME KeyInit PROVE KeyInv
  OBVIOUS
<1>1. RootKeyTypeOK /\ AcceptedParses /\ KeysOnlyToApproved
  BY DEF KeyInit, RootKeyInit, ClockInit, RootKeyTypeOK, AcceptedParses, KeysOnlyToApproved
<1>2. QED
  BY <1>1 DEF KeyInv

\* A request is accepted for an input that parses (lib.rs:163-177, 199-207).
LEMMA RequestInput ==
    ASSUME NEW r \in RequestIds, request_kms_root_key(r)
    PROVE  \E i \in Input : /\ Parses(i) /\ Accepts(DstackAttestation(i), i.key)
                            /\ requests' = [requests EXCEPT ![r] = [input |-> i, time |-> now]]
<1>1. PICK p \in Parsed : /\ Accepts(p.attestation, p.input.key)
                         /\ requests' = [requests EXCEPT ![r] = [input |-> p.input, time |-> now]]
  BY DEF request_kms_root_key
<1>2. PICK i \in {j \in Input : Parses(j)} : p = [input |-> i, attestation |-> DstackAttestation(i)]
  BY DEF Parsed
<1>3. p.input = i /\ p.attestation = DstackAttestation(i)
  BY <1>2
<1>4. QED
  BY <1>1, <1>2, <1>3

\* A request that is accepted is well typed, parses, and is vouched for
\* (lib.rs:153-223).
LEMMA RequestStep ==
    ASSUME KeyInv, NEW r \in RequestIds, request_kms_root_key(r)
    PROVE  (RootKeyTypeOK /\ AcceptedParses /\ KeysOnlyToApproved)'
<1> USE DEF KeyInv
<1>1. PICK i \in Input : /\ Parses(i) /\ Accepts(DstackAttestation(i), i.key)
                         /\ requests' = [requests EXCEPT ![r] = [input |-> i, time |-> now]]
  BY RequestInput
<1>2. /\ progress' = [progress EXCEPT ![r] = "sent"]
      /\ UNCHANGED <<kms_allowed_compose_hashes, now>>
  BY DEF request_kms_root_key
<1>3. now \in Nat /\ [input |-> i, time |-> now] \in Accepted
  BY InstantsAssumption DEF RootKeyTypeOK, Accepted
<1>4. RootKeyTypeOK'
  BY <1>1, <1>2, <1>3 DEF RootKeyTypeOK
<1>5. requests'[r] = [input |-> i, time |-> now]
      /\ \A q \in RequestIds \ {r} : requests'[q] = requests[q] /\ progress'[q] = progress[q]
  BY <1>1, <1>2 DEF RootKeyTypeOK
<1>6. AcceptedParses'
  BY <1>1, <1>5 DEF AcceptedParses, Parses
<1>7. verify(DstackAttestation(i), to_bytes(i.key), now \div 1000, AllowedDigests)
  BY <1>1 DEF Accepts, timestamp_s
<1>8. Vouched(r)'
  <2> DEFINE attestation == DstackAttestation(i)
             statement == attestation.collateral.tcb_info
  <2>1. statement.issued \in Nat /\ statement.next_update \in Nat
    BY <1>1, StatementsAssumption DEF Parses, RequestParses, DstackAttestation, Input
  <2>2. statement.issued <= now \div 1000 /\ now \div 1000 <= statement.next_update
    BY <1>7, VerifiedVouched
  <2>3. 1000 * statement.issued <= now /\ now < 1000 * (statement.next_update + 1)
    BY <1>3, <2>1, <2>2, SecondsFloor
  <2>4. QED
    BY <1>5, <1>7, <2>3, VerifiedVouched DEF Vouched
<1>9. (Settled(r) => Booted(r))'
  <2>1. Unambiguous(Rtmr3Events(DstackAttestation(i).tcb_info.event_log), DstackAttestation(i).quote.boot)
        => /\ Len(MeasuredComposes(DstackAttestation(i).quote.boot)) = 1
           /\ MeasuredComposes(DstackAttestation(i).quote.boot)[1].payload
                = sha256(DstackAttestation(i).tcb_info.app_compose)
    BY <1>1, <1>7, VerifiedBooted
  <2>2. QED
    BY <1>5, <2>1 DEF Booted, Settled
<1>10. KeysOnlyToApproved'
  <2>1. SUFFICES ASSUME NEW q \in RequestIds \ {r}, progress'[q] # "none"
                 PROVE  (Vouched(q) /\ (Settled(q) => Booted(q)))'
    BY <1>8, <1>9 DEF KeysOnlyToApproved
  <2>2. requests'[q] = requests[q] /\ progress[q] # "none"
    BY <1>5, <2>1
  <2>3. Vouched(q) /\ (Settled(q) => Booted(q))
    BY <2>1, <2>2 DEF KeysOnlyToApproved
  <2>4. QED
    <3>1. Vouched(q)'
      BY <2>2, <2>3 DEF Vouched
    <3>2. (Settled(q) => Booted(q))'
      BY <2>2, <2>3 DEF Settled, Booted
    <3>3. QED
      BY <3>1, <3>2
<1>11. QED
  BY <1>4, <1>6, <1>10

\* What was accepted stays vouched for and booted, since a request keeps its inputs
\* and its time.
LEMMA AcceptedStays ==
    ASSUME KeyInv, UNCHANGED requests,
           \A q \in RequestIds : progress'[q] # "none" => progress[q] # "none"
    PROVE  (AcceptedParses /\ KeysOnlyToApproved)'
<1>1. \A q \in RequestIds : requests'[q] = requests[q]
  OBVIOUS
<1>2. AcceptedParses'
  BY <1>1 DEF KeyInv, AcceptedParses, Parses
<1>3. SUFFICES ASSUME NEW q \in RequestIds, progress'[q] # "none"
               PROVE  (Vouched(q) /\ (Settled(q) => Booted(q)))'
  BY <1>2 DEF KeysOnlyToApproved
<1>4. Vouched(q) /\ (Settled(q) => Booted(q))
  BY <1>3 DEF KeyInv, KeysOnlyToApproved
<1>5. Vouched(q)'
  BY <1>1, <1>4 DEF Vouched
<1>6. (Settled(q) => Booted(q))'
  BY <1>1, <1>4 DEF Settled, Booted
<1>7. QED
  BY <1>5, <1>6

\* The end of a request changes nothing that was accepted.
LEMMA MpcStep ==
    ASSUME KeyInv, NEW r \in RequestIds, Mpc(r)
    PROVE  (RootKeyTypeOK /\ AcceptedParses /\ KeysOnlyToApproved)'
<1> USE DEF KeyInv
<1>1. PICK end \in {"answered", "failed"} :
         /\ progress[r] = "sent" /\ progress' = [progress EXCEPT ![r] = end]
         /\ UNCHANGED <<kms_allowed_compose_hashes, now, requests>>
  BY DEF Mpc, request_app_private_key, MpcFails
<1>2. \A q \in RequestIds : progress'[q] # "none" => progress[q] # "none"
  BY <1>1 DEF RootKeyTypeOK
<1>3. RootKeyTypeOK'
  BY <1>1 DEF RootKeyTypeOK
<1>4. AcceptedParses' /\ KeysOnlyToApproved'
  BY <1>1, <1>2, AcceptedStays
<1>5. QED
  BY <1>3, <1>4

\* Calls of the owner and the clock leave the requests alone.
LEMMA GovernStep ==
    ASSUME KeyInv, UNCHANGED <<requests, progress>>,
           kms_allowed_compose_hashes' \subseteq HashStrings, now' \in Instants
    PROVE  (RootKeyTypeOK /\ AcceptedParses /\ KeysOnlyToApproved)'
<1>1. RootKeyTypeOK'
  BY DEF KeyInv, RootKeyTypeOK
<1>2. (AcceptedParses /\ KeysOnlyToApproved)'
  BY AcceptedStays
<1>3. QED
  BY <1>1, <1>2

\* Every step keeps the invariant.
LEMMA KeyInvNext == KeyInv /\ [KeyNext]_keyVars => KeyInv'
<1> SUFFICES ASSUME KeyInv, [KeyNext]_keyVars PROVE KeyInv'
  OBVIOUS
<1>1. CASE \E h \in HashStrings : add_kms_compose_hash(h) \/ remove_kms_compose_hash(h)
  BY <1>1, GovernStep DEF KeyInv, RootKeyTypeOK, add_kms_compose_hash, remove_kms_compose_hash
<1>2. CASE \E r \in RequestIds : request_kms_root_key(r) \/ Mpc(r)
  BY <1>2, RequestStep, MpcStep DEF KeyInv
<1>3. CASE Tick /\ UNCHANGED <<kms_allowed_compose_hashes, requests, progress>>
  BY <1>3, GovernStep DEF KeyInv, RootKeyTypeOK, Tick
<1>4. CASE UNCHANGED rootKeyVars
  BY <1>4, GovernStep DEF KeyInv, RootKeyTypeOK, rootKeyVars
<1>5. QED
  BY <1>1, <1>2, <1>3, <1>4 DEF KeyNext, RootKeyNext, keyVars

\* The invariant holds of every behaviour.
THEOREM KeyInvariant == KeySpec => []KeyInv
<1>1. QED
  BY KeyInvInit, KeyInvNext, PTL DEF KeySpec

\* The allowlist and the requests are well typed.
THEOREM RootKeyTypeCorrect == KeySpec => []RootKeyTypeOK
<1>1. KeyInv => RootKeyTypeOK
  BY DEF KeyInv
<1>2. QED
  BY <1>1, KeyInvariant, PTL

\* A key is asked for only on a quote of a genuine, current platform, bound to the
\* signer, with statements of Intel valid in the millisecond the request ran, and, as
\* far as the bytes of its events split in one way, for a VM that measured the one
\* compose file it presents (lib.rs:160-207).
THEOREM KeysOnlyToApprovedCorrect == KeySpec => []KeysOnlyToApproved
<1>1. KeyInv => KeysOnlyToApproved
  BY DEF KeyInv
<1>2. QED
  BY <1>1, KeyInvariant, PTL

-----------------------------------------------------------------------------
(* VMs that follow the protocol *)

\* The guest's log is accepted: its digests all decode and replay to the register
\* (attestation.rs:218-259).
LEMMA HonestLog ==
    ASSUME NEW S, NEW log \in Seq(S), NEW T, NEW boot \in Seq(T),
           NEW tcb_info, tcb_info.event_log = log, Logs(tcb_info, boot)
    PROVE  verify_event_log_rtmr3(log, Register(boot))
<1> DEFINE t == Rtmr3Events(log)
           W == {e \in Range(t) : Decodes(e.digest)}
<1>1. Len(t) = Len(boot) /\ \A k \in 1..Len(boot) : Records(t[k], boot[k])
  BY DEF Logs
<1>2. t \in Seq(S)
  <2> DEFINE V == {e \in Range(log) : e.imr = RTMR3_INDEX}
  <2>1. t = Kept(log, V)
    BY DEF Rtmr3Events
  <2> HIDE DEF t, V
  <2>2. QED
    BY <2>1, KeptPlaces
<1>3. WithDigest(t) = Kept(t, W)
  BY DEF WithDigest
<1>4. \A k \in 1..Len(t) : t[k] \in W
  BY <1>1, <1>2 DEF Range, Records
<1> HIDE DEF t, W
<1>5. WithDigest(t) = t
  BY <1>2, <1>3, <1>4, KeptAll
<1>6. \A k \in 1..Len(t) : t[k].event_type = DSTACK_EVENT_TYPE
  BY <1>1 DEF Records
<1>7. \A k \in 1..Len(boot) : Replays(t[k], boot[k])
  BY <1>1 DEF Records, Replays
<1>8. QED
  BY <1>1, <1>5, <1>6, <1>7, RecordedReplay DEF t

\* Of the log, just the entry of the one compose file measured is a compose-hash
\* entry of RTMR3, and its payload that file's digest (attestation.rs:328-375).
LEMMA HonestCompose ==
    ASSUME NEW S, NEW log \in Seq(S), NEW T, NEW boot \in Seq(T),
           NEW tcb_info, tcb_info.event_log = log, Logs(tcb_info, boot),
           Len(MeasuredComposes(boot)) = 1,
           MeasuredComposes(boot)[1].payload = sha256(tcb_info.app_compose)
    PROVE  LET events == ComposeEvents(log)
           IN  /\ Len(events) = 1 /\ events[1].event_payload = tcb_info.compose_hash
               /\ validate_app_compose_payload(events[1].event_payload, tcb_info.app_compose)
<1> DEFINE t == Rtmr3Events(log)
           V == {e \in Range(log) : e.imr = RTMR3_INDEX}
           X == {e \in Range(log) : e.event = COMPOSE_HASH_EVENT /\ e.imr = RTMR3_INDEX}
           W == {e \in Range(boot) : e.event = COMPOSE_HASH_EVENT}
<1>1. /\ Len(t) = Len(boot)
      /\ \A k \in 1..Len(boot) :
            /\ Records(t[k], boot[k])
            /\ boot[k].event = COMPOSE_HASH_EVENT => t[k].event_payload = tcb_info.compose_hash
  BY DEF Logs
<1>2. /\ t = Kept(log, V) /\ ComposeEvents(log) = Kept(log, X) /\ MeasuredComposes(boot) = Kept(boot, W)
      /\ \A i \in 1..Len(log) : log[i] \in X <=> log[i].event = COMPOSE_HASH_EVENT /\ log[i] \in V
      /\ \A i \in 1..Len(boot) : boot[i] \in W <=> boot[i].event = COMPOSE_HASH_EVENT
  BY DEF Rtmr3Events, ComposeEvents, MeasuredComposes, Range
<1> HIDE DEF t, V, X, W
<1>3. PICK c \in 1..Len(boot) : /\ MeasuredComposes(boot)[1] = boot[c] /\ boot[c] \in W
                               /\ \A j \in 1..Len(boot) : boot[j] \in W => j = c
  BY <1>2, OneKept
<1>4. Places(t, log, V, Len(log)) # {}
  BY <1>2, KeptPlaces
<1>5. PICK p \in [1..Len(t) -> 1..Len(log)] :
        /\ \A k \in 1..Len(t) : t[k] = log[p[k]] /\ log[p[k]] \in V
        /\ \A j, k \in 1..Len(t) : p[j] = p[k] => j = k
        /\ \A i \in 1..Len(log) : log[i] \in V => \E k \in 1..Len(t) : p[k] = i
  BY <1>4 DEF Places
<1>6. /\ p[c] \in 1..Len(log) /\ log[p[c]] = t[c] /\ log[p[c]] \in V
      /\ Records(t[c], boot[c]) /\ boot[c].event = COMPOSE_HASH_EVENT
      /\ t[c].event_payload = tcb_info.compose_hash
  BY <1>1, <1>2, <1>3, <1>5
<1>7. log[p[c]] \in X
  BY <1>2, <1>6 DEF Records
<1>8. ASSUME NEW i \in 1..Len(log), log[i] \in X PROVE i = p[c]
  <2>1. PICK k \in 1..Len(t) : p[k] = i
    BY <1>2, <1>5, <1>8
  <2>2. t[k] = log[i] /\ Records(t[k], boot[k]) /\ k \in 1..Len(boot)
    BY <1>1, <1>5, <2>1
  <2>3. boot[k] \in W
    BY <1>2, <1>8, <2>2 DEF Records
  <2>4. QED
    BY <1>3, <2>1, <2>2, <2>3
<1>9. Len(ComposeEvents(log)) = 1 /\ ComposeEvents(log)[1] = t[c]
  BY <1>2, <1>6, <1>7, <1>8, OneKept
<1>10. validate_app_compose_payload(t[c].event_payload, tcb_info.app_compose)
  BY <1>3, <1>6 DEF Records, validate_app_compose_payload
<1>11. QED
  BY <1>6, <1>9, <1>10

\* A time within seconds, the last one to its end, is floored to one of them
\* (lib.rs:185).
LEMMA SecondsWithin ==
    ASSUME NEW time \in Nat, NEW first \in Nat, NEW last \in Nat,
           1000 * first <= time, time < 1000 * (last + 1)
    PROVE  first <= time \div 1000 /\ time \div 1000 <= last
  BY SMT

\* Of two chains that together name one platform, the first that is not empty does.
LEMMA PckOneSource ==
    ASSUME NEW C, NEW Q, NEW platform, C \cup Q = {platform}
    PROVE  (IF C = {} THEN Q ELSE C) = {platform}
  OBVIOUS

\* Intel's collateral parses into what it says (collateral.rs).
LEMMA HonestCollateral ==
    ASSUME NEW v, v # NotJson, NEW quote, Certifies(v, quote)
    PROVE  /\ CollateralParses(v)
           /\ try_from_json(v).tcb_info = v.tcb_info /\ try_from_json(v).qe_identity = v.qe_identity
           /\ try_from_json(v).tcb_info_signature = v.tcb_info_signature.bytes
           /\ try_from_json(v).qe_identity_signature = v.qe_identity_signature.bytes
           /\ try_from_json(v).pck_certificate_chain = pck_certificate_chain(v)
<1>1. \A f \in TextFields \cup HexFields : f \in DOMAIN v /\ v[f] # NotString
  BY DEF Certifies
<1>2. \A f \in TextFields \cup HexFields : get_str(v, f) = {v[f]}
  BY <1>1 DEF get_str
<1>3. \A f \in HexFields : get_hex(v, f) = {v[f].bytes}
  BY <1>2 DEF get_hex, Certifies
<1>4. \A f \in TextFields \cup HexFields : Field(v, f) = {IF f \in HexFields THEN v[f].bytes ELSE v[f]}
  BY <1>2, <1>3 DEF Field
<1>5. CollateralParses(v)
  BY <1>4 DEF CollateralParses
<1>6. \A f \in TextFields \cup HexFields :
         (CHOOSE x \in Field(v, f) : TRUE) = IF f \in HexFields THEN v[f].bytes ELSE v[f]
  BY <1>4
<1>7. /\ {"tcb_info", "qe_identity", "tcb_info_signature", "qe_identity_signature"}
           \subseteq TextFields \cup HexFields
      /\ "pck_certificate_chain" \notin TextFields \cup HexFields
      /\ {"tcb_info_signature", "qe_identity_signature"} \subseteq HexFields
      /\ "tcb_info" \notin HexFields /\ "qe_identity" \notin HexFields
  BY DEF TextFields, HexFields
<1>8. /\ \A f \in TextFields \cup HexFields :
            try_from_json(v)[f] = IF f \in HexFields THEN v[f].bytes ELSE v[f]
      /\ try_from_json(v)["pck_certificate_chain"] = pck_certificate_chain(v)
  BY <1>6, <1>7 DEF try_from_json
<1>9. QED
  BY <1>5, <1>7, <1>8

\* What a VM that follows the protocol hands in parses and is accepted by every check
\* of verification but that of the list (attestation.rs:118-214).
LEMMA HonestVerified ==
    ASSUME NEW i \in HonestInputs, NEW timestamp, NEW allowed, Digest(i) \in allowed,
           Collaterals[i.collateral].tcb_info.issued <= timestamp,
           timestamp <= Collaterals[i.collateral].tcb_info.next_update
    PROVE  Parses(i) /\ verify(DstackAttestation(i), to_bytes(i.key), timestamp, allowed)
<1> DEFINE quote == QuoteHexes[i.quote].bytes
           v == Collaterals[i.collateral]
           tcb_info == TcbInfos[i.tcb_info]
           collateral == try_from_json(v)
           attestation == DstackAttestation(i)
<1>1. i \in Input /\ FollowsProtocol(i)
  BY HonestAssumption
<1>2. /\ i.quote \in DOMAIN QuoteHexes /\ i.tcb_info \in DOMAIN TcbInfos
      /\ attestation.quote = quote /\ attestation.tcb_info = tcb_info
      /\ attestation.collateral = collateral
  BY <1>1 DEF Input, DstackAttestation
<1>3. /\ Decodes(QuoteHexes[i.quote]) /\ quote.genuine /\ quote.is_td10
      /\ quote.report.registers = from_embedded_tcb_info
      /\ quote.report.report_data = to_bytes(i.key)
      /\ v # NotJson /\ Certifies(v, quote)
      /\ tcb_info # NotJson /\ Logs(tcb_info, quote.boot)
      /\ tcb_info.rtmr3 = encode(quote.report.rt_mr3)
      /\ tcb_info.registers = [r \in DOMAIN EmbeddedTcbInfo |-> encode(EmbeddedTcbInfo[r].bytes)]
      /\ tcb_info.app_compose.parses /\ validate_app_compose_config(tcb_info.app_compose.config)
      /\ Len(MeasuredComposes(quote.boot)) = 1
      /\ MeasuredComposes(quote.boot)[1].payload = sha256(tcb_info.app_compose)
  BY <1>1 DEF FollowsProtocol
<1>4. Digest(i) = LauncherDigest(tcb_info)
  BY DEF Digest
<1>5. v.tcb_info.issued <= timestamp /\ timestamp <= v.tcb_info.next_update
  OBVIOUS
<1> HIDE DEF quote, v, tcb_info, collateral, attestation
<1>6. quote.boot \in Seq(Range(quote.boot)) /\ quote.report.rt_mr3 = Register(quote.boot)
  BY <1>2, <1>3, QuoteAssumption DEF quote
<1>7. tcb_info.event_log \in Seq(Range(tcb_info.event_log))
  BY <1>2, <1>3, LogAssumption DEF tcb_info
<1>8. /\ CollateralParses(v)
      /\ collateral.tcb_info = v.tcb_info /\ collateral.qe_identity = v.qe_identity
      /\ collateral.tcb_info_signature = v.tcb_info_signature.bytes
      /\ collateral.qe_identity_signature = v.qe_identity_signature.bytes
      /\ collateral.pck_certificate_chain = pck_certificate_chain(v)
  BY <1>3, HonestCollateral DEF collateral
<1>9. Parses(i)
  BY <1>3, <1>8 DEF Parses, RequestParses, v, tcb_info
<1>10. DcapVerifies(quote, collateral, timestamp)
  <2>1. PckCertificate(quote, collateral) = {quote.platform}
    <3>1. collateral.pck_certificate_chain \cup quote.pck_certificate_chain = {quote.platform}
      BY <1>3, <1>8 DEF Certifies, pck_certificate_chain
    <3>2. QED
      BY <3>1, PckOneSource DEF PckCertificate
  <2>2. QED
    BY <1>3, <1>5, <1>8, <2>1 DEF DcapVerifies, Certifies
<1>11. verify_tcb_status(collateral)
  BY <1>3, <1>8 DEF verify_tcb_status, EXPECTED_QUOTE_STATUS, Certifies
<1>12. verify_static_rtmrs(quote.report, tcb_info, from_embedded_tcb_info)
  BY <1>3 DEF verify_static_rtmrs, from_embedded_tcb_info
<1>13. verify_rtmr3(quote.report, tcb_info)
  BY <1>3, <1>6, <1>7, HonestLog DEF verify_rtmr3
<1>14. verify_app_compose(tcb_info)
  BY <1>3, <1>6, <1>7, HonestCompose DEF verify_app_compose
<1>15. verify_launcher_compose_hash(tcb_info, allowed)
  BY <1>3, <1>4 DEF verify_launcher_compose_hash
<1>16. verify(attestation, to_bytes(i.key), timestamp, allowed)
  BY <1>2, <1>3, <1>10, <1>11, <1>12, <1>13, <1>14, <1>15, MeasurementsAssumption
     DEF verify, verify_report_data
<1>17. QED
  BY <1>9, <1>16 DEF attestation

\* A VM that follows the protocol is served, whatever its log holds of other
\* registers and however its digests are spelt (lib.rs:163-207).
THEOREM HonestServedCorrect == KeySpec => []HonestServed
<1>1. RootKeyTypeOK => HonestServed
  <2> SUFFICES ASSUME RootKeyTypeOK, NEW i \in HonestInputs,
                      \A h \in kms_allowed_compose_hashes : IsHash32(h),
                      NEW h \in kms_allowed_compose_hashes, h.bytes = Digest(i),
                      1000 * Collaterals[i.collateral].tcb_info.issued <= now,
                      now < 1000 * (Collaterals[i.collateral].tcb_info.next_update + 1)
               PROVE  Parses(i) /\ Accepts(DstackAttestation(i), i.key)
    BY DEF HonestServed
  <2> DEFINE v == Collaterals[i.collateral]
             first == v.tcb_info.issued
             last == v.tcb_info.next_update
  <2>1. Digest(i) \in AllowedDigests
    BY DEF AllowedDigests, IsHash32
  <2>2. first \in Nat /\ last \in Nat /\ now \in Nat
    <3>1. /\ i.collateral \in DOMAIN Collaterals /\ v # NotJson
          /\ \E quote : Certifies(v, quote)
      BY HonestAssumption DEF Input, FollowsProtocol
    <3>2. CollateralParses(v) /\ try_from_json(v).tcb_info = v.tcb_info
      BY <3>1, HonestCollateral
    <3>3. QED
      BY <3>1, <3>2, StatementsAssumption, InstantsAssumption DEF RootKeyTypeOK
  <2>3. first <= now \div 1000 /\ now \div 1000 <= last
    <3> HIDE DEF first, last
    <3>1. 1000 * first <= now /\ now < 1000 * (last + 1)
      BY DEF first, last
    <3>2. QED
      BY <2>2, <3>1, SecondsWithin
  <2>4. Parses(i) /\ verify(DstackAttestation(i), to_bytes(i.key), now \div 1000, AllowedDigests)
    BY <2>1, <2>3, HonestVerified
  <2>5. QED
    BY <2>4 DEF Accepts, timestamp_s
<1>2. QED
  BY <1>1, RootKeyTypeCorrect, PTL

-----------------------------------------------------------------------------
(* Refinement *)

\* A request that was accepted is a grant, so not the absent one.
LEMMA SentIsGrant ==
    ASSUME KeyInv, NEW r \in RequestIds, progress[r] = "sent"
    PROVE  NoGrant # [digest |-> Digest(requests[r].input), end |-> progress[r]]
<1>1. requests[r].input \in Input /\ Parses(requests[r].input)
  BY DEF KeyInv, RootKeyTypeOK, AcceptedParses, Accepted
<1>2. QED
  BY <1>1, NoGrantAssumption DEF Parses, RequestParses, Input, Digest

\* Requests implement the grants: an accepted request is a grant for a digest that
\* is approved while the method is open, the MPC contract's answer or failure is its
\* end, and whatever the owners do leaves it alone.
THEOREM RequestsImplementGrants == KeySpec => ImplementsGrants
<1> DEFINE approved == AllowedDigests
           open == NotPaused("request_kms_root_key")
           grants == [r \in RequestIds |->
                        IF progress[r] = "none" THEN NoGrant
                        ELSE [digest |-> Digest(requests[r].input), end |-> progress[r]]]
<1>1. KeyInit => Grants!Init
  BY DEF KeyInit, AccessInit, RootKeyInit, Grants!Init, NotPaused, AllowedDigests
<1>2. KeyInv /\ [KeyNext]_keyVars => [Grants!Next]_<<approved, open, grants>>
  <2> SUFFICES ASSUME KeyInv, [KeyNext]_keyVars
               PROVE  [Grants!Next]_<<approved, open, grants>>
    OBVIOUS
  <2>1. CASE UNCHANGED <<requests, progress>>
    <3>1. grants' = grants
      BY <2>1 DEF Digest
    <3>2. QED
      BY <3>1 DEF Grants!Next, Grants!Govern
  <2>2. ASSUME NEW r \in RequestIds, request_kms_root_key(r), UNCHANGED accessVars
        PROVE  Grants!Grant(r)
    <3>1. PICK i \in Input : /\ Parses(i) /\ Accepts(DstackAttestation(i), i.key)
                             /\ requests' = [requests EXCEPT ![r] = [input |-> i, time |-> now]]
      BY <2>2, RequestInput
    <3>2. /\ progress[r] = "none" /\ open
          /\ progress' = [progress EXCEPT ![r] = "sent"]
      BY <2>2 DEF request_kms_root_key
    <3>3. Digest(i) \in approved
      BY <3>1, VerifiedApproved DEF Accepts, Digest, DstackAttestation
    <3>4. grants' = [grants EXCEPT ![r] = [digest |-> Digest(i), end |-> "sent"]]
      BY <3>1, <3>2 DEF KeyInv, RootKeyTypeOK, Digest
    <3>5. UNCHANGED <<approved, open>>
      BY <2>2 DEF request_kms_root_key, AllowedDigests, NotPaused, accessVars
    <3>6. QED
      BY <3>2, <3>3, <3>4, <3>5 DEF Grants!Grant
  <2>3. ASSUME NEW r \in RequestIds, Mpc(r), UNCHANGED accessVars
        PROVE  Grants!Conclude(r)
    <3>1. PICK end \in {"answered", "failed"} :
             /\ progress[r] = "sent" /\ progress' = [progress EXCEPT ![r] = end]
             /\ UNCHANGED <<kms_allowed_compose_hashes, now, requests>>
      BY <2>3 DEF Mpc, request_app_private_key, MpcFails
    <3>2. grants[r] # NoGrant /\ grants[r].end = "sent"
      BY <3>1, SentIsGrant
    <3>3. grants' = [grants EXCEPT ![r].end = end]
      BY <3>1 DEF KeyInv, RootKeyTypeOK, Digest
    <3>4. UNCHANGED <<approved, open>>
      BY <2>3, <3>1 DEF AllowedDigests, NotPaused, accessVars
    <3>5. QED
      BY <3>2, <3>3, <3>4 DEF Grants!Conclude
  <2>4. QED
    BY <2>1, <2>2, <2>3 DEF KeyNext, RootKeyNext, keyVars, rootKeyVars, Grants!Next,
       add_kms_compose_hash, remove_kms_compose_hash
<1>3. QED
  BY <1>1, <1>2, KeyInvariant, PTL DEF KeySpec, ImplementsGrants, Grants!Spec
=============================================================================
