-------------------------- MODULE MeasuredBoot_proofs --------------------------
(***************************************************************************)
(* Proofs about MeasuredBoot, for every set of events, entries and compose *)
(* files and boots and logs of every length.  BootInv says what ties the   *)
(* state together: the register is that of the events measured so far.     *)
(***************************************************************************)
EXTENDS MeasuredBoot, Lemmas

BootInv ==
    /\ measured \in Seq(Events) /\ event_log \in Seq(Entries)
    /\ rt_mr3 = Register(measured)

\* Measuring an event extends its digest onto the register of those before it.
LEMMA RegisterExtends ==
    ASSUME NEW S, NEW boot \in Seq(S), NEW e \in S
    PROVE  Register(Append(boot, e)) = extend(Register(boot), DigestOf(e))
<1> DEFINE n == Len(boot)
           a == [i \in 1..n |-> DigestOf(boot[i])]
           b == [i \in 1..(n + 1) |-> DigestOf(Append(boot, e)[i])]
<1>1. /\ n \in Nat /\ Len(Append(boot, e)) = n + 1 /\ Append(boot, e)[n + 1] = e
      /\ \A i \in 1..n : Append(boot, e)[i] = boot[i]
  OBVIOUS
<1>2. Len(a) = n /\ Len(b) = n + 1
  BY <1>1
<1>3. b[n + 1] = DigestOf(e) /\ \A i \in 1..n : b[i] = a[i]
  BY <1>1
<1>4. Register(boot) = Replay(a) /\ Register(Append(boot, e)) = Replay(b)
  BY <1>1 DEF Register
<1> HIDE DEF n, a, b
<1>5. PICK g : /\ Replay(a) = g[n] /\ g[0] = Zero48
               /\ \A i \in 0..n : i # 0 => g[i] = extend(g[i - 1], a[i])
  BY <1>1, <1>2, ReplayRegisters
<1>6. PICK h : /\ Replay(b) = h[n + 1] /\ h[0] = Zero48
               /\ \A i \in 0..(n + 1) : i # 0 => h[i] = extend(h[i - 1], b[i])
  BY <1>1, <1>2, ReplayRegisters
<1> DEFINE P == {i \in Nat : i <= n => g[i] = h[i]}
<1>7. 0 \in P
  BY <1>5, <1>6
<1>8. ASSUME NEW i \in Nat, i \in P PROVE i + 1 \in P
  <2> SUFFICES ASSUME i + 1 <= n PROVE g[i + 1] = h[i + 1]
    OBVIOUS
  <2>1. /\ i + 1 \in 0..n /\ i + 1 \in 0..(n + 1) /\ i + 1 \in 1..n
        /\ i + 1 # 0 /\ i + 1 - 1 = i /\ g[i] = h[i]
    BY <1>1, <1>8
  <2> HIDE DEF P
  <2>2. g[i + 1] = extend(g[i], a[i + 1]) /\ h[i + 1] = extend(h[i], b[i + 1])
    BY <1>5, <1>6, <2>1
  <2>3. QED
    BY <1>3, <2>1, <2>2
<1>9. g[n] = h[n]
  <2>1. Nat \subseteq P
    <3> HIDE DEF P
    <3>1. QED
      BY <1>7, <1>8, NatInductionSet
  <2>2. QED
    BY <1>1, <2>1
<1>10. h[n + 1] = extend(h[n], b[n + 1])
  <2>1. n + 1 \in 0..(n + 1) /\ n + 1 # 0 /\ n + 1 - 1 = n
    BY <1>1
  <2>2. \A i \in 0..(n + 1) : i # 0 => h[i] = extend(h[i - 1], b[i])
    BY <1>6
  <2> HIDE DEF P
  <2>3. n \in Nat /\ n + 1 - 1 = n
    BY <1>1
  <2>4. h[n + 1] = extend(h[n + 1 - 1], b[n + 1])
    BY <2>1, <2>2, <2>3
  <2>5. QED
    BY <2>3, <2>4
<1>11. QED
  BY <1>3, <1>4, <1>5, <1>6, <1>9, <1>10

\* Nothing is measured at first.
LEMMA BootInvInit == BootInit => BootInv
<1> SUFFICES ASSUME BootInit PROVE BootInv
  OBVIOUS
<1> DEFINE a == [i \in 1..Len(measured) |-> DigestOf(measured[i])]
<1>1. measured = <<>> /\ event_log = <<>> /\ rt_mr3 = Zero48
  BY DEF BootInit
<1>2. Len(a) = 0
  BY <1>1
<1>3. Register(measured) = Replay(a)
  BY DEF Register
<1> HIDE DEF a
<1>4. Replay(a) = Zero48
  BY <1>2, ReplayRegisters
<1>5. QED
  BY <1>1, <1>3, <1>4 DEF BootInv

\* Every step keeps the register that of the events measured.
LEMMA BootInvNext == BootInv /\ [BootNext]_bootVars => BootInv'
<1> SUFFICES ASSUME BootInv, [BootNext]_bootVars PROVE BootInv'
  OBVIOUS
<1>1. ASSUME NEW e \in Events, Measure(e) PROVE BootInv'
  <2>1. measured' = Append(measured, e) /\ rt_mr3' = extend(rt_mr3, DigestOf(e)) /\ event_log' = event_log
    BY <1>1 DEF Measure
  <2>2. measured' \in Seq(Events) /\ rt_mr3' = Register(measured')
    BY <2>1, RegisterExtends DEF BootInv
  <2>3. QED
    BY <2>1, <2>2 DEF BootInv
<1>2. ASSUME NEW entry \in Entries, Log(entry) PROVE BootInv'
  BY <1>2 DEF BootInv, Log
<1>3. CASE UNCHANGED bootVars
  BY <1>3 DEF BootInv, bootVars
<1>4. QED
  BY <1>1, <1>2, <1>3 DEF BootNext

\* The register is always that of the events measured.
THEOREM BootInvariant == BootSpec => []BootInv
<1>1. QED
  BY BootInvInit, BootInvNext, PTL DEF BootSpec

-----------------------------------------------------------------------------
(* What follows *)

\* What is logged and what is measured are byte strings.
LEMMA BootTyped == BootInv => Typed(event_log, measured)
<1>1. QED
  BY EventsAssumption, EntriesAssumption DEF BootInv, Typed

\* Entries that decode are recorded as they are.
LEMMA RecordedAt ==
    ASSUME NEW k \in 1..Len(WithDigest(Rtmr3Entries)), Decodes(WithDigest(Rtmr3Entries)[k].event_payload)
    PROVE  LET entry == WithDigest(Rtmr3Entries)[k]
           IN  /\ Recorded[k] = [event |-> entry.event, payload |-> entry.event_payload.bytes]
               /\ AllBytes(Recorded)[k] = EventBytes(entry.event, entry.event_payload.bytes)
<1> DEFINE r == WithDigest(Rtmr3Entries)
<1>1. Recorded[k] = [event |-> r[k].event, payload |-> r[k].event_payload.bytes]
  BY DEF Recorded
<1>2. Recorded = [i \in 1..Len(r) |-> Recorded[i]]
  BY DEF Recorded
<1> HIDE DEF r
<1>3. k \in 1..Len(Recorded)
  BY <1>2 DEF r
<1>4. AllBytes(Recorded)[k] = EventBytes(Recorded[k].event, Recorded[k].payload)
  BY <1>3 DEF AllBytes
<1>5. QED
  BY <1>1, <1>4 DEF r

LEMMA RecordedLength ==
    ASSUME BootInv
    PROVE  LET r == WithDigest(Rtmr3Entries)
           IN  /\ r \in Seq(Entries) /\ Len(r) \in Nat /\ Len(Recorded) = Len(r)
               /\ \A k \in 1..Len(r) : \E i \in 1..Len(event_log) : r[k] = event_log[i]
<1>1. /\ WithDigest(Rtmr3Entries) \in Seq(Entries)
      /\ \E q : ReplayedAt(q, WithDigest(Rtmr3Entries), event_log)
  BY ReplayedPlaces DEF BootInv, Rtmr3Entries
<1>2. Len(Recorded) = Len(WithDigest(Rtmr3Entries))
  BY <1>1 DEF Recorded
<1>3. QED
  BY <1>1, <1>2 DEF ReplayedAt

\* What an accepted log claims has the bytes of what was measured, and is what was
\* measured if no name holds the separator.
LEMMA AcceptedIsMeasured ==
    ASSUME BootInv, verify_event_log_rtmr3(event_log, rt_mr3)
    PROVE  /\ AllBytes(Recorded) = AllBytes(measured)
           /\ NamesUnsplit(Recorded) /\ NamesUnsplit(measured) => Recorded = measured
<1> DEFINE r == WithDigest(Rtmr3Entries)
<1>1. Len(r) = Len(measured) /\ \A k \in 1..Len(measured) : Replays(r[k], measured[k])
  BY AcceptedReplay DEF BootInv, Rtmr3Entries
<1>2. /\ Len(r) \in Nat /\ Len(Recorded) = Len(r)
      /\ \A k \in 1..Len(r) : \E i \in 1..Len(event_log) : r[k] = event_log[i]
  BY RecordedLength
<1>3. ASSUME NEW k \in 1..Len(r)
      PROVE  /\ Recorded[k] = [event |-> r[k].event, payload |-> r[k].event_payload.bytes]
             /\ AllBytes(Recorded)[k] = EventBytes(r[k].event, r[k].event_payload.bytes)
  <2>1. Decodes(r[k].event_payload)
    <3> HIDE DEF r
    <3>1. QED
      BY <1>1 DEF Replays
  <2>2. QED
    BY <2>1, RecordedAt
<1> HIDE DEF r
<1>4. ASSUME NEW k \in 1..Len(r) PROVE AllBytes(Recorded)[k] = AllBytes(measured)[k]
  <2>1. EventBytes(r[k].event, r[k].event_payload.bytes) = EventBytes(measured[k].event, measured[k].payload)
    BY <1>1 DEF Replays
  <2>2. AllBytes(measured)[k] = EventBytes(measured[k].event, measured[k].payload)
    BY <1>1 DEF AllBytes
  <2>3. QED
    BY <1>3, <2>1, <2>2
<1>5. /\ AllBytes(Recorded) = [k \in 1..Len(r) |-> AllBytes(Recorded)[k]]
      /\ AllBytes(measured) = [k \in 1..Len(r) |-> AllBytes(measured)[k]]
  BY <1>1, <1>2 DEF AllBytes
<1>6. AllBytes(Recorded) = AllBytes(measured)
  BY <1>4, <1>5
<1>7. ASSUME NamesUnsplit(Recorded), NamesUnsplit(measured), NEW k \in 1..Len(r)
      PROVE  Recorded[k] = measured[k]
  <2> DEFINE e == measured[k]
             n == r[k].event
             p == r[k].event_payload.bytes
  <2>1. e \in Events /\ e = [event |-> e.event, payload |-> e.payload] /\ IsEvent(e)
    BY <1>1, EventsAssumption DEF BootInv
  <2>2. Replays(r[k], e)
    BY <1>1
  <2>3. IsBytes(n) /\ IsBytes(p)
    <3>1. PICK i \in 1..Len(event_log) : r[k] = event_log[i]
      BY <1>2
    <3>2. IsEntry(r[k])
      BY <3>1, BootTyped DEF Typed
    <3>3. QED
      BY <2>2, <3>2 DEF IsEntry, Replays
  <2>4. Unsplit(n) /\ Unsplit(e.event)
    <3>1. k \in 1..Len(Recorded) /\ k \in 1..Len(measured)
      BY <1>1, <1>2
    <3>2. Unsplit(Recorded[k].event) /\ Unsplit(measured[k].event)
      BY <1>7, <3>1 DEF NamesUnsplit
    <3>3. Recorded[k].event = n
      <4>1. Recorded[k] = [event |-> n, payload |-> p]
        BY <1>3
      <4> HIDE DEF n, p
      <4>2. QED
        BY <4>1
    <3>4. QED
      BY <3>2, <3>3
  <2>5. EventBytes(n, p) = EventBytes(e.event, e.payload)
    BY <2>2 DEF Replays
  <2>6. Recorded[k] = [event |-> n, payload |-> p]
    BY <1>3
  <2> HIDE DEF e, n, p
  <2>7. n = e.event /\ p = e.payload
    BY <2>1, <2>3, <2>4, <2>5, SplitOnce DEF IsEvent
  <2>8. Recorded[k] = e
    BY <2>1, <2>6, <2>7
  <2>9. QED
    BY <2>8 DEF e
<1>8. Recorded = [k \in 1..Len(r) |-> Recorded[k]] /\ measured = [k \in 1..Len(r) |-> measured[k]]
  <2>1. measured = [k \in 1..Len(r) |-> measured[k]]
    BY <1>1 DEF BootInv
  <2>2. Recorded = [k \in 1..Len(r) |-> Recorded[k]]
    BY DEF Recorded, r
  <2>3. QED
    BY <2>1, <2>2
<1>9. QED
  BY <1>6, <1>7, <1>8

\* A faithful log with the bytes of what was measured is accepted.
LEMMA FaithfulIsAccepted ==
    ASSUME BootInv, \A i \in 1..Len(Rtmr3Entries) : Faithful(Rtmr3Entries[i]),
           AllBytes(Recorded) = AllBytes(measured)
    PROVE  verify_event_log_rtmr3(event_log, rt_mr3)
<1> DEFINE t == Rtmr3Events(event_log)
           r == WithDigest(t)
<1>1. \A k \in 1..Len(r) : \E m \in 1..Len(t) : t[m] = r[k]
  BY ReplayedPlaces DEF BootInv
<1>2. \A i \in 1..Len(t) : Faithful(t[i])
  BY DEF Rtmr3Entries
<1>3. Len(r) \in Nat /\ Len(Recorded) = Len(r)
  BY RecordedLength DEF Rtmr3Entries
<1>4. r = WithDigest(Rtmr3Entries)
  BY DEF Rtmr3Entries
<1> HIDE DEF t, r
<1>5. \A k \in 1..Len(r) : Faithful(r[k])
  BY <1>1, <1>2
<1>6. Len(measured) = Len(r)
  <2>1. Len(AllBytes(Recorded)) = Len(Recorded)
    BY <1>3 DEF AllBytes
  <2>2. Len(AllBytes(measured)) = Len(measured)
    BY DEF AllBytes, BootInv
  <2>3. QED
    BY <1>3, <2>1, <2>2
<1>7. ASSUME NEW k \in 1..Len(measured) PROVE Replays(r[k], measured[k])
  <2>1. Faithful(r[k]) /\ k \in 1..Len(WithDigest(Rtmr3Entries))
    BY <1>4, <1>5, <1>6
  <2>2. AllBytes(Recorded)[k] = EventBytes(r[k].event, r[k].event_payload.bytes)
    BY <1>4, <2>1, RecordedAt DEF Faithful
  <2>3. AllBytes(measured)[k] = EventBytes(measured[k].event, measured[k].payload)
    BY DEF AllBytes
  <2>4. QED
    BY <2>1, <2>2, <2>3 DEF Faithful, Replays, DigestOf, event_digest
<1>8. \A i \in 1..Len(t) : t[i].event_type = DSTACK_EVENT_TYPE
  BY <1>2 DEF Faithful
<1>9. QED
  BY <1>6, <1>7, <1>8, RecordedReplay DEF BootInv, t, r

\* Replaying a log accepts the faithful logs of the bytes the VM measured and none
\* with other bytes, for boots and logs of every length (attestation.rs:218-259).
THEOREM ReplayExactCorrect == BootSpec => []ReplayExact
<1>1. BootInv => ReplayExact
  BY AcceptedIsMeasured, FaithfulIsAccepted DEF ReplayExact
<1>2. QED
  BY <1>1, BootInvariant, PTL

\* The compose file that is accepted with a log whose digests decode was measured,
\* and is the only one, as far as the event bytes split in one way
\* (attestation.rs:328-357).
THEOREM ComposeBoundCorrect == BootSpec => []ComposeBound
<1>1. BootInv => ComposeBound
  <2> SUFFICES ASSUME BootInv, NEW compose \in Composes,
                      verify_rtmr3(Report, TcbInfo(compose)), verify_app_compose(TcbInfo(compose))
               PROVE  LET boots == MeasuredComposes(measured)
                      IN  /\ /\ \A i \in 1..Len(Rtmr3Entries) : Decodes(Rtmr3Entries[i].digest)
                             /\ NamesUnsplit(measured)
                             => \E i \in 1..Len(boots) : boots[i].payload = sha256(compose)
                          /\ boots # <<>> /\ Unambiguous(Rtmr3Entries, measured)
                             => Len(boots) = 1 /\ boots[1].payload = sha256(compose)
    BY DEF ComposeBound
  <2>1. TcbInfo(compose).event_log = event_log /\ TcbInfo(compose).app_compose = compose
        /\ Report.rt_mr3 = Register(measured)
    BY DEF TcbInfo, Report, BootInv
  <2>2. verify_event_log_rtmr3(event_log, Register(measured))
    BY <2>1 DEF verify_rtmr3
  <2>3. event_log \in Seq(Entries) /\ measured \in Seq(Events) /\ Typed(event_log, measured)
    BY BootTyped DEF BootInv
  <2>4. ASSUME \A i \in 1..Len(Rtmr3Entries) : Decodes(Rtmr3Entries[i].digest), NamesUnsplit(measured)
        PROVE  \E i \in 1..Len(MeasuredComposes(measured)) :
                  MeasuredComposes(measured)[i].payload = sha256(compose)
    <3>1. \A i \in 1..Len(event_log) :
             event_log[i].imr = RTMR3_INDEX => \E m \in 1..Len(Rtmr3Entries) : Rtmr3Entries[m] = event_log[i]
      BY ReplayedPlaces DEF BootInv, Rtmr3Entries
    <3>2. \A i \in 1..Len(event_log) : event_log[i].imr = RTMR3_INDEX => Decodes(event_log[i].digest)
      BY <2>4, <3>1
    <3>3. QED
      BY <2>1, <2>2, <2>3, <2>4, <3>2, ComposeMeasured
  <2>5. ASSUME MeasuredComposes(measured) # <<>>, Unambiguous(Rtmr3Entries, measured)
        PROVE  /\ Len(MeasuredComposes(measured)) = 1
               /\ MeasuredComposes(measured)[1].payload = sha256(compose)
    BY <2>1, <2>2, <2>3, <2>5, ComposeOnly DEF Rtmr3Entries
  <2>6. QED
    BY <2>4, <2>5
<1>2. QED
  BY <1>1, BootInvariant, PTL
=============================================================================
