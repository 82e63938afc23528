------------------------------- MODULE MCSeed -------------------------------
(***************************************************************************)
(* Two personas, one of them external, one or two communities, and every   *)
(* corpus made of a few posts, replies and attestations.  Ages sit on both *)
(* sides of the knee, the cap and the genesis lag, and at the oldest age.  *)
(***************************************************************************)
EXTENDS Seed

Post(comm, slug, h, age) == [comm |-> comm, slug |-> slug, author |-> h, age |-> age]
Reply(kind, comm, slug, id, h, age) ==
  [kind |-> kind, comm |-> comm, slug |-> slug, id |-> id, author |-> h, age |-> age]
Attest(kind, from, to, type) == [kind |-> kind, from |-> from, to |-> to, type |-> type]

MCPosts == {Post("cooks", "stew", "ann", 60480), Post("cooks", "soup", "bob", 1100),
            Post("homelab", "rack", "bob", 1441)}
MCReplies == {Reply("c", "cooks", "stew", "0", "bob", 60479), Reply("r", "cooks", "stew", "bob", "bob", 700),
              Reply("c", "homelab", "rack", "0", "ann", 1500)}
MCBadBadge == {Attest("badge", "ann", "bob", "vouch")}
MCAttests == {Attest("vouch", "ann", "bob", "vouch"), Attest("badge", "bob", "ann", "helper")} \cup MCBadBadge

\* Corpora of these parts, some with a community that has no posts, one invalid in
\* its ages and one in its badge.
MCAllCorpora ==
  [comms : {{"cooks"}, {"cooks", "homelab"}}, posts : SUBSET MCPosts, replies : SUBSET MCReplies,
   attests : {{}, MCAttests \ MCBadBadge, MCBadBadge}]
=============================================================================
