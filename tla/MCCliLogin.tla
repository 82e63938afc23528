----------------------------- MODULE MCCliLogin -----------------------------
EXTENDS CliLogin

Grant(audience, grantor, grantee) == [audience |-> audience, grantor |-> grantor, grantee |-> grantee]

MCApprovals ==
  {[ident |-> "ann", grants |-> {Grant("db", "ann", "ann")}],
   [ident |-> "ann+cli", grants |-> {Grant("db", "ann", "ann+cli")}],
   [ident |-> "bob", grants |-> {Grant("db", "bob", "bob")}],
   [ident |-> "bob", grants |-> {Grant("other", "bob", "bob")}],
   [ident |-> "bob", grants |-> {}]}
=============================================================================
