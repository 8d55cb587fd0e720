------------------------------ MODULE KmsConfig ------------------------------
(***************************************************************************)
(* The rest of the KMS contract's state (contracts/kms/src/lib.rs:243-355):*)
(* the gateway, the published KMS info, and the OS-image, aggregated-MR and*)
(* device allowlists, with the boot verdict is_kms_allowed of view.rs.     *)
(* The owner sets all of it; nothing else in the contract writes it.       *)
(***************************************************************************)
EXTENDS KmsAccess

CONSTANTS
    GatewayIds,
    KeyPairs,              \* <<k256_pubkey, ca_pubkey>> as the KMS generates them
    Quotes, Eventlogs,
    OsImages, AggregatedMrs, KmsDevices,   \* the strings sent, possibly ""
    NoInfo, NoGateway

Empty == "empty"           \* vec![]

KmsInfo == [keys : KeyPairs \cup {<<Empty, Empty>>},
            quote : Quotes \cup {Empty}, eventlog : Eventlogs \cup {Empty}]

EmptyInfo == [keys |-> <<Empty, Empty>>, quote |-> Empty, eventlog |-> Empty]

ASSUME NoInfoAssumption == NoInfo \notin KmsInfo

VARIABLES gateway_app_id, kms_info,
          allowed_os_images, kms_allowed_aggregated_mrs, kms_allowed_device_ids,
          published      \* history: the last info set as a whole, and what was
                         \* refreshed since

infoVars == <<kms_info, published>>
listVars == <<allowed_os_images, kms_allowed_aggregated_mrs, kms_allowed_device_ids>>
configVars == <<gateway_app_id, infoVars, listVars>>

ConfigTypeOK ==
    /\ gateway_app_id \in GatewayIds \cup {NoGateway}
    /\ kms_info \in KmsInfo \cup {NoInfo}
    /\ published \in [info : KmsInfo, refreshed : SUBSET {"quote", "eventlog"}]
    /\ allowed_os_images \subseteq OsImages
    /\ kms_allowed_aggregated_mrs \subseteq AggregatedMrs
    /\ kms_allowed_device_ids \subseteq KmsDevices

ConfigInit ==
    /\ gateway_app_id = NoGateway
    /\ kms_info = NoInfo
    /\ published = [info |-> EmptyInfo, refreshed |-> {}]
    /\ allowed_os_images = {}
    /\ kms_allowed_aggregated_mrs = {}
    /\ kms_allowed_device_ids = {}

-----------------------------------------------------------------------------
\* Each method is marked #[access_control_any(roles(Role::Owner))].
set_gateway_app_id(g) ==
    /\ Permitted({"Owner"})
    /\ gateway_app_id' = g
    /\ UNCHANGED <<infoVars, listVars>>

set_kms_info(info) ==
    /\ Permitted({"Owner"})
    /\ kms_info' = info
    /\ published' = [info |-> info, refreshed |-> {}]
    /\ UNCHANGED <<gateway_app_id, listVars>>

CurrentInfo == IF kms_info = NoInfo THEN EmptyInfo ELSE kms_info

Bug_set_kms_quote(quote) ==
    /\ Permitted({"Owner"})
    /\ kms_info' = [EmptyInfo EXCEPT !.quote = quote]
    /\ published' = [published EXCEPT !.refreshed = @ \cup {"quote"}]
    /\ UNCHANGED <<gateway_app_id, listVars>>

set_kms_quote(quote) ==
    /\ Permitted({"Owner"})
    /\ kms_info' = [CurrentInfo EXCEPT !.quote = quote]
    /\ published' = [published EXCEPT !.refreshed = @ \cup {"quote"}]
    /\ UNCHANGED <<gateway_app_id, listVars>>

Bug_set_kms_eventlog(eventlog) ==
    /\ Permitted({"Owner"})
    /\ kms_info' = [CurrentInfo EXCEPT !.quote = eventlog]
    /\ published' = [published EXCEPT !.refreshed = @ \cup {"eventlog"}]
    /\ UNCHANGED <<gateway_app_id, listVars>>

set_kms_eventlog(eventlog) ==
    /\ Permitted({"Owner"})
    /\ kms_info' = [CurrentInfo EXCEPT !.eventlog = eventlog]
    /\ published' = [published EXCEPT !.refreshed = @ \cup {"eventlog"}]
    /\ UNCHANGED <<gateway_app_id, listVars>>

Bug_add_os_image_hash(h) ==
    /\ h # ""
    /\ allowed_os_images' = allowed_os_images \cup {h}
    /\ UNCHANGED <<gateway_app_id, infoVars, kms_allowed_aggregated_mrs, kms_allowed_device_ids>>

add_os_image_hash(h) ==
    /\ Permitted({"Owner"})
    /\ h # ""
    /\ allowed_os_images' = allowed_os_images \cup {h}
    /\ UNCHANGED <<gateway_app_id, infoVars, kms_allowed_aggregated_mrs, kms_allowed_device_ids>>

remove_os_image_hash(h) ==
    /\ Permitted({"Owner"})
    /\ allowed_os_images' = allowed_os_images \ {h}
    /\ UNCHANGED <<gateway_app_id, infoVars, kms_allowed_aggregated_mrs, kms_allowed_device_ids>>

add_kms_aggregated_mr(mr) ==
    /\ Permitted({"Owner"})
    /\ mr # ""
    /\ kms_allowed_aggregated_mrs' = kms_allowed_aggregated_mrs \cup {mr}
    /\ UNCHANGED <<gateway_app_id, infoVars, allowed_os_images, kms_allowed_device_ids>>

remove_kms_aggregated_mr(mr) ==
    /\ Permitted({"Owner"})
    /\ kms_allowed_aggregated_mrs' = kms_allowed_aggregated_mrs \ {mr}
    /\ UNCHANGED <<gateway_app_id, infoVars, allowed_os_images, kms_allowed_device_ids>>

add_kms_device(d) ==
    /\ Permitted({"Owner"})
    /\ d # ""
    /\ kms_allowed_device_ids' = kms_allowed_device_ids \cup {d}
    /\ UNCHANGED <<gateway_app_id, infoVars, allowed_os_images, kms_allowed_aggregated_mrs>>

remove_kms_device(d) ==
    /\ Permitted({"Owner"})
    /\ kms_allowed_device_ids' = kms_allowed_device_ids \ {d}
    /\ UNCHANGED <<gateway_app_id, infoVars, allowed_os_images, kms_allowed_aggregated_mrs>>

is_kms_allowed(boot) ==
    /\ boot.tcb_status = "UpToDate"
    /\ boot.os_image_hash \in allowed_os_images
    /\ boot.mr_aggregated \in kms_allowed_aggregated_mrs
    /\ boot.device_id \in kms_allowed_device_ids

-----------------------------------------------------------------------------
ConfigNext ==
    \/ \E g \in GatewayIds : set_gateway_app_id(g)
    \/ \E keys \in KeyPairs, quote \in Quotes, eventlog \in Eventlogs :
          set_kms_info([keys |-> keys, quote |-> quote, eventlog |-> eventlog])
    \/ \E quote \in Quotes : set_kms_quote(quote)
    \/ \E eventlog \in Eventlogs : set_kms_eventlog(eventlog)
    \/ \E h \in OsImages : add_os_image_hash(h) \/ remove_os_image_hash(h)
    \/ \E mr \in AggregatedMrs : add_kms_aggregated_mr(mr) \/ remove_kms_aggregated_mr(mr)
    \/ \E d \in KmsDevices : add_kms_device(d) \/ remove_kms_device(d)

kmsConfigVars == <<accessVars, configVars>>

KmsConfigInit == AccessInit /\ ConfigInit
KmsConfigNext == \/ ConfigNext /\ UNCHANGED accessVars
                 \/ AccessNext /\ UNCHANGED configVars
KmsConfigSpec == KmsConfigInit /\ [][KmsConfigNext]_kmsConfigVars

-----------------------------------------------------------------------------
(* Properties *)

\* Quote and event log are refreshed one call at a time, so that what is read in
\* between may mix two boots.  It never mixes more: the keys are those of the last
\* info published as a whole, and so is each part not refreshed since; if nothing
\* was published or refreshed, there is no info (lib.rs:252-290).
InfoTraceable ==
    IF kms_info = NoInfo
      THEN published = [info |-> EmptyInfo, refreshed |-> {}]
      ELSE /\ kms_info.keys = published.info.keys
           /\ "quote" \notin published.refreshed => kms_info.quote = published.info.quote
           /\ "eventlog" \notin published.refreshed => kms_info.eventlog = published.info.eventlog
=============================================================================
