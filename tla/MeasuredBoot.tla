---------------------------- MODULE MeasuredBoot -----------------------------
(***************************************************************************)
(* What verification of the event log means.  A confidential VM measures   *)
(* the events of its boot into RTMR3; an event log is handed in next to    *)
(* the quote.  The log is data: it may be complete or not, hold entries of *)
(* other registers, be spelt in either case, or not decode.  The module    *)
(* relates the verdicts of Attestation on the log to the events measured.  *)
(***************************************************************************)
EXTENDS Attestation

CONSTANTS
    Events,        \* [event, payload]: what a VM may measure
    Entries,       \* the entries a log may hold
    Composes,      \* the app compose files
    MaxMeasured, MaxLogged

ASSUME EventsAssumption ==
    \A e \in Events : IsEvent(e) /\ e = [event |-> e.event, payload |-> e.payload]
ASSUME EntriesAssumption == \A entry \in Entries : IsEntry(entry)

VARIABLES
    measured,      \* the events measured so far
    rt_mr3,        \* the register, as the quote reports it
    event_log      \* the log that is handed in

bootVars == <<measured, rt_mr3, event_log>>

BootInit == measured = <<>> /\ rt_mr3 = Zero48 /\ event_log = <<>>

Measure(e) ==
    /\ Len(measured) < MaxMeasured
    /\ measured' = Append(measured, e)
    /\ rt_mr3' = extend(rt_mr3, DigestOf(e))
    /\ UNCHANGED event_log

Log(entry) ==
    /\ Len(event_log) < MaxLogged
    /\ event_log' = Append(event_log, entry)
    /\ UNCHANGED <<measured, rt_mr3>>

BootNext == (\E e \in Events : Measure(e)) \/ (\E entry \in Entries : Log(entry))
BootSpec == BootInit /\ [][BootNext]_bootVars

-----------------------------------------------------------------------------
(* Properties *)

Rtmr3Entries == Rtmr3Events(event_log)

\* The entry is what a correct logger writes for a measured event, in any case.
Faithful(e) ==
    /\ e.event_type = DSTACK_EVENT_TYPE
    /\ Decodes(e.digest) /\ Decodes(e.event_payload)
    /\ e.digest.bytes = event_digest(e.event_type, e.event, e.event_payload.bytes)

\* The events the log claims for RTMR3, by its entries with a digest.
Recorded ==
    LET entries == WithDigest(Rtmr3Entries)
    IN  [i \in 1..Len(entries) |-> [event |-> entries[i].event,
                                    payload |-> IF Decodes(entries[i].event_payload)
                                                THEN entries[i].event_payload.bytes ELSE <<BadHex>>]]

AllBytes(events) == [i \in 1..Len(events) |-> EventBytes(events[i].event, events[i].payload)]

\* The replay (attestation.rs:218-259) accepts a log only if its entries with a
\* digest hold the bytes of the measured events, in order; these are then the
\* measured events if no name holds the separator.  And it accepts every faithful
\* log of those bytes, whatever the log holds for other registers.
ReplayExact ==
    /\ verify_event_log_rtmr3(event_log, rt_mr3)
          => /\ AllBytes(Recorded) = AllBytes(measured)
             /\ NamesUnsplit(Recorded) /\ NamesUnsplit(measured) => Recorded = measured
    /\ (\A i \in 1..Len(Rtmr3Entries) : Faithful(Rtmr3Entries[i])) /\ AllBytes(Recorded) = AllBytes(measured)
          => verify_event_log_rtmr3(event_log, rt_mr3)

Report == [rt_mr3 |-> rt_mr3]
TcbInfo(compose) ==
    [rtmr3 |-> encode(rt_mr3), event_log |-> event_log, app_compose |-> compose,
     compose_hash |-> encode(sha256(compose))]

\* A compose file accepted with a log that decodes was measured, if no measured
\* name holds the separator.  And it is the only one measured, if any was and
\* either no logged name or no measured compose digest holds the separator
\* (attestation.rs:328-357).
ComposeBound ==
    \A compose \in Composes :
        LET tcb_info == TcbInfo(compose)
            boots == MeasuredComposes(measured)
        IN  verify_rtmr3(Report, tcb_info) /\ verify_app_compose(tcb_info)
            => /\ /\ \A i \in 1..Len(Rtmr3Entries) : Decodes(Rtmr3Entries[i].digest)
                  /\ NamesUnsplit(measured)
                  => \E i \in 1..Len(boots) : boots[i].payload = sha256(compose)
               /\ boots # <<>> /\ Unambiguous(Rtmr3Entries, measured)
                  => Len(boots) = 1 /\ boots[1].payload = sha256(compose)
=============================================================================
