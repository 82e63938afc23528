------------------------------ MODULE MCPoster ------------------------------
(***************************************************************************)
(* One account (the tables are keyed by account and no handler reads the   *)
(* row of another), which starts under its external email, certified by    *)
(* the broker, and may claim a handle, certified by the IdP itself.        *)
(***************************************************************************)
EXTENDS Poster, TLC

MCIdentities == {"mail", "handle"}
MCEmailOf == [a \in Accounts |-> "mail"]
MCIssuers == {"idp", "broker"}
MCIssuerOf == [i \in MCIdentities |-> IF i = "mail" THEN "broker" ELSE "idp"]

Symmetric == Permutations(Requests)
=============================================================================
