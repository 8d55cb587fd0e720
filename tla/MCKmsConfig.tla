----------------------------- MODULE MCKmsConfig -----------------------------
(***************************************************************************)
(* One account whose roles come and go, two pairs of public keys, two      *)
(* quotes, one event log, and for each list one string and the empty one.  *)
(***************************************************************************)
EXTENDS KmsConfig

MCKeyPairs == {<<"k1", "c1">>, <<"k2", "c2">>}
=============================================================================
