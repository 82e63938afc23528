--------------------------- MODULE MCPosterPickup ---------------------------
(***************************************************************************)
(* One account and its page.  Every poll the loop makes is one the server  *)
(* handles beside an enable, a submit or a disable of another page.        *)
(***************************************************************************)
EXTENDS PosterPickup

MCIdentities == {"mail", "handle"}
MCEmailOf == [a \in Accounts |-> "mail"]
MCIssuers == {"idp", "broker"}
MCIssuerOf == [i \in MCIdentities |-> IF i = "mail" THEN "broker" ELSE "idp"]
=============================================================================
