--------------------------- MODULE MCSignerClient ---------------------------
(***************************************************************************)
(* One writer has a handle, certified by mingo's IdP; the others have an   *)
(* address that the broker certifies.                                      *)
(***************************************************************************)
EXTENDS SignerClient

MCIssuerOf == [w \in Writes |-> IF w = "w1" THEN "idp" ELSE "broker"]
=============================================================================
