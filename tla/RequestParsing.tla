---------------------------- MODULE RequestParsing ---------------------------
(***************************************************************************)
(* What request_kms_root_key makes of its three strings: the quote in hex, *)
(* the collateral (contracts/kms/src/attestation/collateral.rs) and the TCB*)
(* info, both JSON.  A hexadecimal string is the bytes it decodes to with  *)
(* its spelling, BadHex if it decodes to none; encode gives the lower-case *)
(* spelling.  A JSON object is a function from its field names to strings, *)
(* NotString standing for every other value; NotJson is a text that is no  *)
(* JSON, or, for the TCB info, not that of a TcbInfo.                      *)
(***************************************************************************)
CONSTANTS BadHex, NotString, NotJson

\* hex::encode, hex::decode
encode(bytes) == [bytes |-> bytes, lower |-> TRUE]
Decodes(hex) == hex # BadHex

TextFields == {"tcb_info_issuer_chain", "tcb_info", "qe_identity_issuer_chain", "qe_identity",
               "pck_crl_issuer_chain"}
HexFields == {"tcb_info_signature", "qe_identity_signature", "root_ca_crl", "pck_crl"}

get_str(v, key) == {v[k] : k \in {key} \cap DOMAIN v} \ {NotString}
get_hex(v, key) == {s.bytes : s \in {x \in get_str(v, key) : Decodes(x)}}

Bug_pck_certificate_chain(v) == get_str(v, "pck_certificate_chain")

\* Optional: a missing, mistyped or empty one is None.
pck_certificate_chain(v) == get_str(v, "pck_certificate_chain") \ {""}

Field(v, key) == IF key \in HexFields THEN get_hex(v, key) ELSE get_str(v, key)

CollateralParses(s) == s # NotJson /\ \A key \in TextFields \cup HexFields : Field(s, key) # {}

try_from_json(v) ==
    [key \in TextFields \cup HexFields \cup {"pck_certificate_chain"} |->
        IF key = "pck_certificate_chain" THEN pck_certificate_chain(v)
                                         ELSE CHOOSE x \in Field(v, key) : TRUE]

\* Every `unwrap_or_else(.. panic_str ..)` of the parsing of a request.
RequestParses(quote_hex, collateral, tcb_info) ==
    Decodes(quote_hex) /\ CollateralParses(collateral) /\ tcb_info # NotJson
=============================================================================
