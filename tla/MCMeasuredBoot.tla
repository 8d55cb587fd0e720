--------------------------- MODULE MCMeasuredBoot ----------------------------
(***************************************************************************)
(* Two compose files, the digest of one of them with the separator, and two*)
(* other events, one of them, under its own name, with the same bytes as a *)
(* compose event.  Each may be logged faithfully, split at another         *)
(* separator, in upper case, for another register, with another type, with *)
(* the digest of another event, or with a digest or payload that does not  *)
(* decode.                                                                 *)
(***************************************************************************)
EXTENDS MeasuredBoot

Config(secure) == [manifest_version |-> 2, runner |-> "docker-compose", kms_enabled |-> TRUE,
                   public_logs |-> TRUE, public_sysinfo |-> TRUE, secure_time |-> secure]
Compose(file) == [parses |-> TRUE, config |-> Config("none"), docker_compose_file |-> [file |-> file]]

MCComposes == {Compose("kms"), Compose("other"),
               [Compose("kms") EXCEPT !.config = Config("false")]}

MCSeparatorFirst == {Compose("other")}

MCEvents == {[event |-> <<"app-id">>, payload |-> <<"raw", "id">>],
             [event |-> <<"compose-hash", Separator>>, payload |-> Tail(sha256(Compose("other")))]}
            \cup {[event |-> COMPOSE_HASH_EVENT, payload |-> sha256(Compose(f))] : f \in {"kms", "other"}}

Upper(bytes) == [bytes |-> bytes, lower |-> FALSE]
Entry(e) == [imr |-> 3, event_type |-> DSTACK_EVENT_TYPE, digest |-> encode(DigestOf(e)),
             event |-> e.event, event_payload |-> encode(e.payload)]

Splits(e) ==
    LET bytes == EventBytes(e.event, e.payload)
    IN  {[event |-> SubSeq(bytes, 1, i - 1), payload |-> SubSeq(bytes, i + 1, Len(bytes))] :
            i \in {j \in 1..Len(bytes) : bytes[j] = Separator}}

MCEntries ==
    UNION {{Entry(x) : x \in Splits(e)} : e \in MCEvents}
    \cup {[Entry(e) EXCEPT !.digest = Upper(DigestOf(e))] : e \in MCEvents}
    \cup UNION {{[Entry(e) EXCEPT !.imr = 0], [Entry(e) EXCEPT !.event_type = 1],
                 [Entry(e) EXCEPT !.digest = BadHex], [Entry(e) EXCEPT !.event_payload = BadHex]} :
                    e \in {x \in MCEvents : x.event = COMPOSE_HASH_EVENT}}
    \cup {[Entry(e) EXCEPT !.digest = encode(DigestOf(f))] : e, f \in MCEvents}
MCEmbedded == [r \in {"mrtd", "rtmr0", "rtmr1", "rtmr2"} |-> encode(<<"sha384", r>>)]
=============================================================================
