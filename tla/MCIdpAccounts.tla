--------------------------- MODULE MCIdpAccounts ---------------------------
(***************************************************************************)
(* Two people, one of them spelling an address in two ways, one address at *)
(* the IdP's own domain; two names, one of them spelt in two ways, and one *)
(* spelling that normalize_name refuses.                                   *)
(***************************************************************************)
EXTENDS IdpAccounts, TLC

MCEmails == {"ann", "bob", "own"}
MCRawEmails == {"Ann", "ann", "bob", "own"}
MCLowerEmail == [r \in MCRawEmails |-> IF r = "Ann" THEN "ann" ELSE r]
MCOwnDomain == {"own"}

MCNames == {"x", "y"}
MCRawNames == {"X", "x", "y", "sys"}
MCCanon == [r \in MCRawNames |-> CASE r = "X" -> "x" [] r = "sys" -> None [] OTHER -> r]

Symmetric == Permutations(Requests) \cup Permutations(SessionIds)
=============================================================================
