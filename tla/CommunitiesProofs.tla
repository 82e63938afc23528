------------------------- MODULE CommunitiesProofs -------------------------
(***************************************************************************)
(* Proofs about module Communities: nothing of the genesis is refused, no  *)
(* member captures a space, content changes only as the policy documents   *)
(* say, a retired sys key only removes, and a replacement leaves no        *)
(* community half there for good - for any number of users, communities,   *)
(* operators, batches in flight and steps.                                 *)
(***************************************************************************)
EXTENDS Communities, SequenceTheorems, TLAPS

-----------------------------------------------------------------------------
(* The inductive invariant.                                                *)

ChainInv ==
  /\ sysObjs \subseteq Identities
  /\ fresh \in BOOLEAN
  /\ root \in {None} \cup HubPolicies
  /\ desc \in [Comms -> Arguments \cup {None}]
  /\ pol \in [Comms -> Policies \cup {None, Ghost}]
  /\ \A c \in Comms : pol[c] \in PoliciesFor(c) \cup {None, Ghost}
  /\ cfg \in [Comms -> SUBSET Segments]
  /\ post \in [Comms -> Users \cup {None}]
  /\ att \subseteq Attestations
  /\ captured = {}

\* What is on its way to the chain is written by the tools and clients.
QueueInv == pending \in Seq(Batches) /\ block \in Seq(Messages)

ToolInv ==
  /\ at \in [Operators -> {"idle", "clear", "wait", "write"}]
  /\ args \in [Operators -> Checked \cup {None}]
  /\ \A o \in Operators : at[o] # "idle" => args[o] \in Checked
  /\ appoint \in [at : {"idle", "refresh", "provision", "submit"}, c : Comms \cup {None},
                  subject : Users \cup {None}]
  /\ appoint.at # "idle" => appoint.c \in Comms /\ appoint.subject \in Users
  /\ ops \in 0 .. MaxOps

\* What genesis mode still has to do.  Nothing of it is refused: the proof comes
\* before the domain that refers to it, and the root policy comes last.
Awaited(m) == \E n \in 1 .. Len(block) : block[n] = m
GenesisInv ==
  root = None =>
    /\ block # <<>>
    /\ \A n \in 1 .. Len(block) :
         /\ block[n].act = "post" /\ block[n].kind \notin {"subpolicy", "post"}
         /\ block[n].kind = "root" <=> n = Len(block)
         /\ (block[n].kind = "domain" /\ block[n].val = "certified") =>
              fresh \/ \E k \in 1 .. n - 1 : block[k].kind = "dnssec"
    /\ \A k \in Identities : k \in sysObjs \/ \E n \in 1 .. Len(block) : block[n].kind = k
    /\ \A i \in 1 .. Len(GenesisComms) :
         General \in cfg[GenesisComms[i]] \/ Awaited(collection_config(GenesisComms[i], General))

\* An appointment on its way arrives: with its proof valid, or behind a proof that
\* is on its way too.
ProofAhead(n) ==
  \/ \E k \in 1 .. Len(block) : block[k].kind = "dnssec"
  \/ \E k \in 1 .. n - 1 : pending[k][1].kind = "dnssec"
Arriving(m) ==
  \/ m.val \in att
  \/ block = <<m>> /\ fresh
  \/ \E n \in 1 .. Len(pending) : pending[n] = <<m>> /\ (fresh \/ ProofAhead(n))
AppointInv ==
  /\ appointed \subseteq Comms \X Users
  /\ appointed # {} => root # None
  /\ ~lost => \A x \in appointed : Arriving(build_plan(x[1], x[2]))

IInv == ChainInv /\ QueueInv /\ ToolInv /\ GenesisInv /\ GenesisComplete

-----------------------------------------------------------------------------
(* Messages and batches.                                                   *)

\* A message with sound parts is a message.
LEMMA MsgType ==
  ASSUME NEW by \in Users \cup Issuers \cup {Sys, None}, NEW act \in {"post", "delete"}, NEW kind \in Kinds,
         NEW c \in Comms \cup {None}, NEW val \in Payloads, Sound(Msg(by, act, kind, c, val))
  PROVE  Msg(by, act, kind, c, val) \in Messages
BY DEF Messages, Msg

\* The batches of one message.
LEMMA OneMessage == \A m \in Messages : <<m>> \in Batches
BY DEF Batches

\* What create-community writes is sound.
LEMMA CreateMessages ==
  ASSUME NEW a \in Checked
  PROVE  /\ community(a) \in Messages
         /\ \A s \in Segments : collection_config(a.c, s) \in Messages
         /\ Msg(Sys, "post", "policy", a.c, PolicyOf(a)) \in Messages
         /\ \A kind \in {"policy", "community"} : signed_delete(kind, a.c) \in Messages
<1>1. a \in Arguments /\ a.c \in Comms /\ a.issuer \in Issuers
  BY DEF Checked, Arguments
<1>2. community(a) \in Messages
  <2>1. a \in Payloads /\ Sound(Msg(Sys, "post", "community", a.c, a))
    BY <1>1 DEF Payloads, Sound, Msg
  <2> QED BY <1>1, <2>1, MsgType DEF community, Kinds
<1>3. ASSUME NEW s \in Segments PROVE collection_config(a.c, s) \in Messages
  <2>1. s \in Payloads /\ Sound(Msg(Sys, "post", "config", a.c, s))
    BY <1>1 DEF Payloads, Sound, Msg
  <2> QED BY <1>1, <2>1, MsgType DEF collection_config, Kinds, InSpaces
<1>4. Msg(Sys, "post", "policy", a.c, PolicyOf(a)) \in Messages
  <2>1. PolicyOf(a) \in PoliciesFor(a.c) /\ PolicyOf(a) \in Policies
    BY <1>1 DEF PolicyOf, PoliciesFor, Policies
  <2>2. PolicyOf(a) \in Payloads /\ Sound(Msg(Sys, "post", "policy", a.c, PolicyOf(a)))
    BY <1>1, <2>1 DEF Payloads, Sound, Msg
  <2> QED BY <1>1, <2>2, MsgType DEF Kinds, Governing
<1>5. ASSUME NEW kind \in {"policy", "community"} PROVE signed_delete(kind, a.c) \in Messages
  <2>1. None \in Payloads /\ Sound(Msg(Sys, "delete", kind, a.c, None))
    BY <1>1 DEF Payloads, Sound, Msg
  <2> QED BY <1>1, <2>1, MsgType DEF signed_delete, Kinds, Governing
<1> QED BY <1>2, <1>3, <1>4, <1>5

\* The two batches of create-community.
LEMMA CreateBatches ==
  ASSUME NEW a \in Checked
  PROVE  CreateBatch(a) \in Batches /\ ClearBatch(a) \in Batches
<1>1. a.spaces \in Seq(STRING) /\ \A n \in DOMAIN a.spaces : a.spaces[n] \in Segments
  BY CommunitiesAssumption DEF Checked, Arguments, Range
<1> DEFINE configs == [n \in DOMAIN a.spaces |-> collection_config(a.c, a.spaces[n])]
<1>2. configs \in Seq(Messages)
  <2>1. Len(a.spaces) \in Nat /\ DOMAIN a.spaces = 1 .. Len(a.spaces)
    BY <1>1
  <2>2. configs \in [1 .. Len(a.spaces) -> Messages]
    BY <1>1, <2>1, CreateMessages
  <2> QED BY <2>1, <2>2, SeqDef
<1> HIDE DEF configs
<1> DEFINE first == <<community(a)>>
           last == <<Msg(Sys, "post", "policy", a.c, PolicyOf(a))>>
<1>3. first \in Seq(Messages) /\ last \in Seq(Messages)
  BY CreateMessages
<1> HIDE DEF first, last
<1>4. (first \o configs) \o last \in Batches
  <2>1. first \o configs \in Seq(Messages)
    BY <1>2, <1>3, ConcatProperties
  <2>2. (first \o configs) \o last \in Seq(Messages) /\ last # <<>>
    BY <1>3, <2>1, ConcatProperties DEF last
  <2> QED BY <1>3, <2>1, <2>2, ConcatEqualIffEmpty DEF Batches
<1>5. ClearBatch(a) \in Batches
  BY CreateMessages DEF ClearBatch, Batches
<1> QED BY <1>4, <1>5 DEF CreateBatch, configs, first, last

\* What else is written: a proof, the open policy, an appointment, and the writes
\* of members, issuers, admins.
LEMMA OtherMessages ==
  /\ Proof \in Messages
  /\ \A c \in Comms, i \in Issuers : Msg(Sys, "post", "policy", c, community_policy_open(c, i)) \in Messages
  /\ \A c \in Comms, u \in Users : build_plan(c, u) \in Messages
  /\ \A admins \in SUBSET {Sys, Successor} : RootMessage(admins) \in Messages
  /\ UserMessages \subseteq Messages
<1>0. None \in Payloads
  BY DEF Payloads
<1>1. Proof \in Messages
  <2>1. Sound(Msg(None, "post", "dnssec", None, None))
    BY DEF Sound, Msg
  <2> QED BY <2>1, <1>0, MsgType DEF Proof, Kinds
<1>2. ASSUME NEW c \in Comms, NEW i \in Issuers
      PROVE  Msg(Sys, "post", "policy", c, community_policy_open(c, i)) \in Messages
  <2>1. community_policy_open(c, i) \in Payloads
    BY DEF Payloads, Policies
  <2>2. Sound(Msg(Sys, "post", "policy", c, community_policy_open(c, i)))
    BY DEF Sound, Msg, PoliciesFor
  <2> QED BY <2>1, <2>2, MsgType DEF Kinds, Governing
<1>3. ASSUME NEW admins \in SUBSET {Sys, Successor} PROVE RootMessage(admins) \in Messages
  <2>1. hub_policy(admins) \in HubPolicies
    BY DEF HubPolicies
  <2>2. hub_policy(admins) \in Payloads /\ Sound(Msg(Sys, "post", "root", None, hub_policy(admins)))
    BY <2>1 DEF Sound, Msg, Payloads
  <2> QED BY <2>2, MsgType DEF RootMessage, Kinds, Governing
<1>4. ASSUME NEW i \in Users \cup Issuers, NEW a \in Attestations
      PROVE  Msg(i, "post", "attestation", None, a) \in Messages
  <2>1. a \in Payloads /\ Sound(Msg(i, "post", "attestation", None, a))
    BY DEF Payloads, Sound, Msg
  <2> QED BY <2>1, MsgType DEF Kinds
<1>5. ASSUME NEW c \in Comms, NEW u \in Users, NEW i \in Users \cup Issuers
      PROVE  Attestation(Moderator(c), i, u) \in Attestations
  BY DEF Attestation, Attestations, Types, Moderator, Membership
<1>6. ASSUME NEW c \in Comms, NEW u \in Users PROVE Attestation(Membership(c), u, u) \in Attestations
  BY DEF Attestation, Attestations, Types, Moderator, Membership
<1>7. ASSUME NEW i \in Issuers, NEW u \in Users, NEW type \in {Membership(None), Ban}
      PROVE  Attestation(type, i, u) \in Attestations
  <2>1. \A c \in Comms : type # Membership(c)
    BY CommunitiesAssumption DEF Membership, Ban
  <2> QED BY <2>1 DEF Attestation, Attestations, Types
<1>8. ASSUME NEW c \in Comms, NEW u \in Users PROVE build_plan(c, u) \in Messages
  BY <1>4, <1>5, CommunitiesAssumption DEF build_plan
<1>9. UserMessages \subseteq Messages
  <2>1. ASSUME NEW u \in Users, NEW act \in {"post", "delete"}, NEW c \in Comms
        PROVE  Msg(u, act, "post", c, None) \in Messages
    <3>1. Sound(Msg(u, act, "post", c, None))
      BY DEF Sound, Msg
    <3> QED BY <3>1, <1>0, MsgType DEF Kinds, InSpaces
  <2>2. ASSUME NEW u \in Users, NEW c \in Comms PROVE Msg(u, "post", "subpolicy", c, None) \in Messages
    <3>1. Sound(Msg(u, "post", "subpolicy", c, None))
      BY DEF Sound, Msg
    <3> QED BY <3>1, <1>0, MsgType DEF Kinds, InSpaces
  <2>3. ASSUME NEW c \in Comms PROVE Msg(Sys, "delete", "post", c, None) \in Messages
    <3>1. Sound(Msg(Sys, "delete", "post", c, None))
      BY DEF Sound, Msg
    <3> QED BY <3>1, <1>0, MsgType DEF Kinds, InSpaces
  <2>4. ASSUME NEW u \in Users, NEW type \in {Membership(c) : c \in Comms} \cup {Moderator(c) : c \in Comms}
        PROVE  Msg(u, "post", "attestation", None, Attestation(type, u, u)) \in Messages
    BY <1>4, <1>5, <1>6
  <2> QED BY <1>1, <1>3, <1>4, <1>7, <2>1, <2>2, <2>3, <2>4 DEF UserMessages
<1> QED BY <1>1, <1>2, <1>3, <1>8, <1>9

-----------------------------------------------------------------------------
(* What the policy documents allow.                                        *)

\* A key requirement is met by its key only: no attestation has no issuer.
LEMMA KeyHeld ==
  ASSUME att \subseteq Attestations, NEW k, NEW who, Holds(Keyed(k), who)
  PROVE  k = who
<1>1. \A a \in att : None \notin {a.issuer, Anyone}
  BY CommunitiesAssumption DEF Attestations
<1> QED BY <1>1 DEF Holds, Keyed

\* A requirement on an attestation is met by an attestation.
LEMMA AttestationHeld ==
  ASSUME att \subseteq Attestations, NEW type, NEW who, NEW by, Holds(Attested(type, by), who)
  PROVE  \E i \in Users \cup Issuers :
           Attestation(type, i, who) \in att /\ who \in Users /\ by \in {i, Anyone}
<1>1. PICK a \in att : a.type = type /\ a.subject = who /\ by \in {a.issuer, Anyone}
  BY DEF Holds, Attested
<1>2. a \in [type : Types, issuer : Users \cup Issuers, subject : Users]
  BY DEF Attestations
<1>3. a = Attestation(type, a.issuer, who)
  BY <1>1, <1>2 DEF Attestation
<1> QED BY <1>1, <1>2, <1>3

\* An attestation of membership in a community is the member's own; one of an
\* issuer is the issuer's.
LEMMA AttestationBy ==
  ASSUME att \subseteq Attestations, NEW type, NEW who
  PROVE  /\ \A i \in Issuers : Holds(Attested(type, i), who) => Attestation(type, i, who) \in att
         /\ \A c \in Comms : Holds(Attested(Membership(c), Anyone), who) =>
              Attestation(Membership(c), who, who) \in att
<1>1. ASSUME NEW i \in Issuers, Holds(Attested(type, i), who) PROVE Attestation(type, i, who) \in att
  BY <1>1, AttestationHeld, CommunitiesAssumption
<1>2. ASSUME NEW c \in Comms, Holds(Attested(Membership(c), Anyone), who)
      PROVE  Attestation(Membership(c), who, who) \in att
  <2>1. PICK i \in Users \cup Issuers : Attestation(Membership(c), i, who) \in att
    BY <1>2, AttestationHeld
  <2>2. i = who
    BY <2>1 DEF Attestations, Attestation
  <2> QED BY <2>1, <2>2
<1> QED BY <1>1, <1>2

\* The hub root policy gives what is neither an attestation nor a proof to admins.
LEMMA HubGrants ==
  ASSUME att \subseteq Attestations, NEW admins \in SUBSET {Sys, Successor}, NEW m,
         m.kind \notin {"attestation", "dnssec"}, Granted(hub_policy(admins), m)
  PROVE  m.by \in admins
<1> DEFINE p == hub_policy(admins)
<1>1. PICK g \in p.grants : Covers(g.on, m) /\ Grantee(p, g.to, m)
  BY DEF Granted
<1>2. g.to = "admin"
  BY <1>1 DEF hub_policy, Grant, Covers
<1>3. p.roles = [admin |-> {Keyed(k) : k \in admins}]
  BY DEF hub_policy
<1>4. PICK k \in admins : Holds(Keyed(k), m.by)
  BY <1>1, <1>2, <1>3 DEF Grantee
<1> QED BY <1>4, KeyHeld

\* A closed community takes new objects and updates by attested members.
LEMMA ClosedGrants ==
  ASSUME att \subseteq Attestations, NEW c \in Comms, NEW i \in Issuers, NEW m,
         Granted(community_policy(c, i), m)
  PROVE  /\ RightFor(m) \in POST /\ m.kind \in InSpaces
         /\ Attestation(Membership(None), i, m.by) \in att /\ m.by \in Users
         /\ Attestation(Ban, i, m.by) \notin att
<1> DEFINE p == community_policy(c, i)
<1>1. PICK g \in p.grants : RightFor(m) \in g.can /\ Covers(g.on, m) /\ Grantee(p, g.to, m)
  BY DEF Granted
<1>2. g.to = "member" /\ g.can = POST /\ g.on = "spaces"
  BY <1>1 DEF community_policy, Grant
<1>3. p.roles = [member |-> {Attested(Membership(None), i)}] /\ p.banBy = i
  BY DEF community_policy
<1>4. Holds(Attested(Membership(None), i), m.by)
  BY <1>1, <1>2, <1>3 DEF Grantee
<1>5. m.kind \in InSpaces
  BY <1>1, <1>2 DEF Covers
<1>6. Attestation(Ban, i, m.by) \notin att
  BY <1>3, <1>5 DEF Granted, Banned, Attestation
<1> QED BY <1>1, <1>2, <1>4, <1>5, <1>6, AttestationBy, AttestationHeld

\* An open community takes new objects by members, updates by owners, removals by
\* moderators the issuer appointed, and removals by sys; nothing that is banned.
LEMMA OpenGrants ==
  ASSUME att \subseteq Attestations, NEW c \in Comms, NEW i \in Issuers, NEW m,
         Granted(community_policy_open(c, i), m)
  PROVE  /\ \/ /\ RightFor(m) = "create" /\ m.kind \in InSpaces
               /\ Attestation(Membership(c), m.by, m.by) \in att /\ m.by \in Users
            \/ RightFor(m) = "update" /\ m.kind \in InSpaces /\ OwnerOf(m) = m.by
            \/ RightFor(m) = "delete" /\ m.kind \in InSpaces /\ Attestation(Moderator(c), i, m.by) \in att
            \/ RightFor(m) = "delete" /\ m.kind \in InSpaces \cup {"community"} /\ m.by = Sys
         /\ m.kind \in InSpaces => Attestation(Ban, i, m.by) \notin att
<1> DEFINE p == community_policy_open(c, i)
<1>1. PICK g \in p.grants : RightFor(m) \in g.can /\ Covers(g.on, m) /\ Grantee(p, g.to, m)
  BY DEF Granted
<1>2. p.roles = [member |-> {Attested(Membership(c), Anyone)}, moderator |-> {Attested(Moderator(c), i)},
                 sys |-> {Keyed(Sys)}] /\ p.banBy = i
  BY DEF community_policy_open
<1>3. m.kind \in InSpaces => Attestation(Ban, i, m.by) \notin att
  BY <1>2 DEF Granted, Banned, Attestation
<1>4. CASE g = Grant("member", {"create"}, "spaces")
  <2>1. g.to = "member" /\ g.can = {"create"} /\ g.on = "spaces"
    BY <1>4 DEF Grant
  <2>2. Holds(Attested(Membership(c), Anyone), m.by)
    BY <1>1, <1>2, <2>1 DEF Grantee
  <2> QED BY <1>1, <1>3, <2>1, <2>2, AttestationBy, AttestationHeld DEF Covers
<1>5. CASE g = Grant("owner", {"update"}, "spaces")
  <2>1. g.to = "owner" /\ g.can = {"update"} /\ g.on = "spaces"
    BY <1>5 DEF Grant
  <2>2. OwnerOf(m) = m.by
    BY <1>1, <1>2, <2>1 DEF Grantee
  <2> QED BY <1>1, <1>3, <2>1, <2>2 DEF Covers
<1>6. CASE g = Grant("moderator", {"delete"}, "spaces")
  <2>1. g.to = "moderator" /\ g.can = {"delete"} /\ g.on = "spaces"
    BY <1>6 DEF Grant
  <2>2. Holds(Attested(Moderator(c), i), m.by)
    BY <1>1, <1>2, <2>1 DEF Grantee
  <2> QED BY <1>1, <1>3, <2>1, <2>2, AttestationBy DEF Covers
<1>7. CASE g = Grant("sys", {"delete"}, "subtree")
  <2>1. g.to = "sys" /\ g.can = {"delete"} /\ g.on = "subtree"
    BY <1>7 DEF Grant
  <2>2. Holds(Keyed(Sys), m.by)
    BY <1>1, <1>2, <2>1 DEF Grantee
  <2> QED BY <1>1, <1>3, <2>1, <2>2, KeyHeld DEF Covers
<1>8. p.grants = {Grant("member", {"create"}, "spaces"), Grant("owner", {"update"}, "spaces"),
                  Grant("moderator", {"delete"}, "spaces"), Grant("sys", {"delete"}, "subtree")}
  BY DEF community_policy_open
<1> QED BY <1>1, <1>4, <1>5, <1>6, <1>7, <1>8

\* The right a message needs.
LEMMA Rights ==
  ASSUME NEW m \in Messages
  PROVE  /\ m.kind \in Governing => RightFor(m) = "govern"
         /\ m.kind \notin Governing =>
              /\ m.act = "delete" <=> RightFor(m) = "delete"
              /\ m.act = "post" <=> RightFor(m) \in POST
              /\ RightFor(m) = "update" => Present(m)
              /\ RightFor(m) = "create" => ~Present(m)
BY DEF RightFor, Messages, POST

\* Once the root policy is in force, a message is admitted from its owner, if it
\* is a removal, or by the policy that governs its place.
LEMMA ByRight ==
  ASSUME ChainInv, root # None, NEW m \in Messages, NEW proven, Admitted(m, proven)
  PROVE  \/ m.act = "delete" /\ m.kind \notin Governing /\ OwnerOf(m) = m.by
         \/ IsAdmin(m.by)
         \/ m.kind \in {"attestation", "dnssec"}
         \/ /\ m.kind \in InSpaces \cup {"community"}
            /\ \E i \in Issuers : \/ pol[m.c] = community_policy(m.c, i) /\ Granted(pol[m.c], m)
                                  \/ pol[m.c] = community_policy_open(m.c, i) /\ Granted(pol[m.c], m)
<1>1. \/ m.act = "delete" /\ m.kind \notin Governing /\ OwnerOf(m) = m.by
      \/ Governor(m) # Ghost /\ Granted(Governor(m), m)
  BY DEF Admitted
<1>2. CASE Granted(root, m)
  <2>1. PICK admins \in SUBSET {Sys, Successor} : root = hub_policy(admins)
    BY DEF ChainInv, HubPolicies
  <2>2. m.kind \in {"attestation", "dnssec"} \/ m.by \in admins
    BY <1>2, <2>1, HubGrants DEF ChainInv
  <2>3. root.roles.admin = {Keyed(k) : k \in admins}
    BY <2>1 DEF hub_policy
  <2>4. m.by \in admins => IsAdmin(m.by)
    <3>1. Keyed(m.by).key = m.by
      BY DEF Keyed
    <3>2. m.by \in admins => Keyed(m.by) \in root.roles.admin
      BY <2>3
    <3> QED BY <3>1, <3>2 DEF IsAdmin
  <2> QED BY <2>2, <2>4
<1>3. CASE m.kind \in InSpaces \cup {"community"} /\ pol[m.c] # None /\ pol[m.c] # Ghost /\ Granted(pol[m.c], m)
  <2>1. m.c \in Comms
    BY <1>3 DEF Messages, Sound, InSpaces
  <2>2. pol[m.c] \in PoliciesFor(m.c)
    BY <1>3, <2>1 DEF ChainInv
  <2> QED BY <1>3, <2>2 DEF PoliciesFor
<1> QED BY <1>1, <1>2, <1>3 DEF Governor

\* The admins are the sys key and the successor, and users are neither.
LEMMA Admins ==
  ASSUME ChainInv, root # None, NEW k, IsAdmin(k)
  PROVE  k \in {Sys, Successor} /\ k \notin Users
<1>1. PICK admins \in SUBSET {Sys, Successor} : root = hub_policy(admins)
  BY DEF ChainInv, HubPolicies
<1>2. root.roles.admin = {Keyed(a) : a \in admins}
  BY <1>1 DEF hub_policy
<1>3. k \in admins
  BY <1>2 DEF IsAdmin, Keyed
<1> QED BY <1>3, CommunitiesAssumption

\* "Members are NOT granted govern": no policy below a space is admitted.
LEMMA NoSubpolicy ==
  ASSUME ChainInv, root # None, NEW m \in Messages, NEW proven, Admitted(m, proven)
  PROVE  m.kind # "subpolicy"
<1> SUFFICES ASSUME m.kind = "subpolicy" PROVE FALSE
  OBVIOUS
<1>1. m.by \in Users /\ m.c \in Comms /\ m.kind \in Governing /\ m.kind \notin {"attestation", "dnssec"}
  BY DEF Messages, Sound, Governing
<1>2. RightFor(m) = "govern"
  BY <1>1, Rights
<1>3. PICK i \in Issuers : \/ pol[m.c] = community_policy(m.c, i) /\ Granted(pol[m.c], m)
                           \/ pol[m.c] = community_policy_open(m.c, i) /\ Granted(pol[m.c], m)
  BY <1>1, ByRight, Admins
<1>4. att \subseteq Attestations
  BY DEF ChainInv
<1> QED BY <1>1, <1>2, <1>3, <1>4, ClosedGrants, OpenGrants DEF POST

\* The documents that govern, descriptors and space configs are written by an
\* admin; without being one, sys only removes, and writes what is there again.
LEMMA SysWrites ==
  ASSUME ChainInv, root # None, ~IsAdmin(Sys), NEW m \in Messages, NEW proven, Admitted(m, proven)
  PROVE  /\ m.kind \notin {"root", "policy"}
         /\ m.kind = "community" => m.act = "delete"
         /\ m.kind = "config" => m.val \in cfg[m.c]
<1>0. att \subseteq Attestations
  BY DEF ChainInv
<1>1. m.kind \in {"root", "policy", "community", "config"} => m.by = Sys /\ m.by \notin Users
  BY CommunitiesAssumption DEF Messages, Sound
<1>2. m.kind \notin {"root", "policy"}
  BY <1>1, ByRight DEF Governing, InSpaces
<1>3. ASSUME m.kind \in {"community", "config"}, m.act # "delete" PROVE m.kind = "config" /\ Present(m)
  <2>1. m.c \in Comms
    BY <1>3 DEF Messages, Sound
  <2>2. PICK i \in Issuers : \/ pol[m.c] = community_policy(m.c, i) /\ Granted(pol[m.c], m)
                             \/ pol[m.c] = community_policy_open(m.c, i) /\ Granted(pol[m.c], m)
    BY <1>1, <1>3, ByRight
  <2>3. pol[m.c] # community_policy(m.c, i) \/ ~Granted(pol[m.c], m)
    BY <1>0, <1>1, <1>3, <2>1, ClosedGrants
  <2>4. Granted(community_policy_open(m.c, i), m)
    BY <2>2, <2>3
  <2>5. RightFor(m) # "delete"
    BY <1>3, Rights DEF Governing
  <2>6. RightFor(m) = "update" /\ m.kind \in InSpaces
    BY <1>0, <1>1, <1>3, <2>1, <2>4, <2>5, OpenGrants
  <2> QED BY <1>3, <2>6, Rights DEF InSpaces, Governing
<1>4. m.kind = "config" => m.act = "post"
  BY DEF Messages, Sound
<1>5. m.kind = "config" => (Present(m) => m.val \in cfg[m.c])
  BY DEF Present
<1> QED BY <1>2, <1>3, <1>4, <1>5 DEF Messages

-----------------------------------------------------------------------------
(* Replay of a block.                                                      *)

\* The head of a block is a message, and the rest of it a block.
LEMMA HeadOfBlock ==
  ASSUME QueueInv, block # <<>>
  PROVE  /\ Head(block) \in Messages /\ Head(block) = block[1] /\ Len(block) \in Nat \ {0}
         /\ Tail(block) \in Seq(Messages) /\ Len(Tail(block)) = Len(block) - 1
         /\ \A n \in 1 .. Len(block) - 1 : Tail(block)[n] = block[n + 1]
<1>1. block \in Seq(Messages)
  BY DEF QueueInv
<1>2. Len(block) \in Nat \ {0}
  BY <1>1, EmptySeq
<1> QED BY <1>1, <1>2, HeadTailProperties

\* A message that is no policy below a space keeps the chain sound.
LEMMA ApplyKeeps ==
  ASSUME ChainInv, NEW m \in Messages, m.kind # "subpolicy", Apply(m)
  PROVE  ChainInv'
<1> USE DEF Apply
<1>0. Sound(m) /\ m.act \in {"post", "delete"} /\ m.kind \in Kinds
  BY DEF Messages
<1>1. sysObjs' \subseteq Identities /\ fresh' \in BOOLEAN
  BY DEF ChainInv
<1>2. root' \in {None} \cup HubPolicies
  BY <1>0 DEF ChainInv, Sound
<1>3. desc' \in [Comms -> Arguments \cup {None}]
  BY <1>0 DEF ChainInv, Sound
<1>4. /\ pol' \in [Comms -> Policies \cup {None, Ghost}]
      /\ \A c \in Comms : pol'[c] \in PoliciesFor(c) \cup {None, Ghost}
  <2>1. CASE m.kind # "policy"
    BY <2>1 DEF ChainInv
  <2>2. CASE m.kind = "policy"
    <3>1. m.c \in Comms /\ (m.act # "delete" => m.val \in PoliciesFor(m.c))
      BY <1>0, <2>2 DEF Sound
    <3>2. PICK p : p \in PoliciesFor(m.c) \cup {None, Ghost} /\ pol' = [pol EXCEPT ![m.c] = p]
      BY <2>2, <3>1
    <3>3. p \in Policies \cup {None, Ghost}
      BY <3>1, <3>2 DEF PoliciesFor, Policies
    <3> QED BY <3>1, <3>2, <3>3 DEF ChainInv
  <2> QED BY <2>1, <2>2
<1>5. cfg' \in [Comms -> SUBSET Segments]
  BY <1>0 DEF ChainInv, Sound
<1>6. post' \in [Comms -> Users \cup {None}]
  BY <1>0 DEF ChainInv, Sound
<1>7. att' \subseteq Attestations
  BY <1>0 DEF ChainInv, Sound
<1>8. captured' = {}
  BY DEF ChainInv
<1> QED BY <1>1, <1>2, <1>3, <1>4, <1>5, <1>6, <1>7, <1>8 DEF ChainInv

\* Replay installs no policy below a space: in genesis mode none is on its way,
\* later none is admitted.
LEMMA ReplayChain == ASSUME IInv, Replay PROVE ChainInv'
<1> DEFINE m == Head(block)
<1>1. m \in Messages /\ m = block[1] /\ 1 \in 1 .. Len(block)
  BY HeadOfBlock DEF IInv, Replay
<1>2. CASE ~Admitted(m, fresh)
  BY <1>2 DEF Replay, chain, IInv, ChainInv
<1>3. CASE Admitted(m, fresh)
  <2>1. m.kind # "subpolicy"
    BY <1>1, <1>3, NoSubpolicy DEF IInv, GenesisInv
  <2> QED BY <1>1, <1>3, <2>1, ApplyKeeps DEF Replay, IInv
<1> QED BY <1>2, <1>3

\* In genesis mode the head of the block is admitted.
LEMMA GenesisAdmits ==
  ASSUME IInv, root = None, block # <<>>
  PROVE  Admitted(Head(block), fresh)
<1>1. Head(block) = block[1] /\ 1 \in 1 .. Len(block) /\ Head(block) \in Messages
  BY HeadOfBlock DEF IInv
<1>2. Head(block).act = "post"
  BY <1>1 DEF IInv, GenesisInv
<1>3. (Head(block).kind = "domain" /\ Head(block).val = "certified") => fresh
  BY <1>1 DEF IInv, GenesisInv
<1> QED BY <1>2, <1>3 DEF Admitted

\* Replay takes genesis mode one message further.
LEMMA ReplayGenesis == ASSUME IInv, Replay, root' = None PROVE GenesisInv'
<1> DEFINE m == Head(block)
           L == Len(block)
<1>0. root = None
  <2>1. m \in Messages
    BY HeadOfBlock DEF IInv, Replay
  <2>2. m.kind = "root" => m.val # None
    BY <2>1, PolicyAssumption DEF Messages, Sound, HubPolicies
  <2> QED BY <2>2 DEF Replay, Apply, chain
<1>1. /\ m \in Messages /\ m = block[1] /\ L \in Nat \ {0} /\ Len(block') = L - 1
      /\ \A n \in 1 .. L - 1 : block'[n] = block[n + 1]
  BY HeadOfBlock DEF IInv, Replay
<1>2. Apply(m)
  BY <1>0, GenesisAdmits DEF Replay
<1>3. m.kind # "root"
  <2>1. m.kind = "root" => root' = m.val /\ m.val # None
    BY <1>1, <1>2, PolicyAssumption DEF Messages, Sound, HubPolicies, Apply
  <2> QED BY <2>1
<1>4. L > 1
  BY <1>0, <1>1, <1>3 DEF IInv, GenesisInv
<1>5. block' # <<>>
  BY <1>1, <1>4
<1>6. ASSUME NEW n \in 1 .. Len(block')
      PROVE  /\ block'[n].act = "post" /\ block'[n].kind \notin {"subpolicy", "post"}
             /\ block'[n].kind = "root" <=> n = Len(block')
             /\ (block'[n].kind = "domain" /\ block'[n].val = "certified") =>
                  fresh' \/ \E k \in 1 .. n - 1 : block'[k].kind = "dnssec"
  <2>1. n + 1 \in 1 .. L /\ block'[n] = block[n + 1] /\ (n + 1 = L <=> n = Len(block'))
    BY <1>1
  <2>2. /\ block'[n].act = "post" /\ block'[n].kind \notin {"subpolicy", "post"}
        /\ block'[n].kind = "root" <=> n = Len(block')
    BY <1>0, <2>1 DEF IInv, GenesisInv
  <2>3. ASSUME block'[n].kind = "domain", block'[n].val = "certified"
        PROVE  fresh' \/ \E k \in 1 .. n - 1 : block'[k].kind = "dnssec"
    <3>1. fresh \/ \E k \in 1 .. (n + 1) - 1 : block[k].kind = "dnssec"
      BY <1>0, <2>1, <2>3 DEF IInv, GenesisInv
    <3>2. fresh => fresh'
      BY <1>2 DEF Apply
    <3>3. ASSUME NEW k \in 1 .. (n + 1) - 1, block[k].kind = "dnssec"
          PROVE  fresh' \/ \E j \in 1 .. n - 1 : block'[j].kind = "dnssec"
      <4>1. CASE k = 1
        BY <1>1, <1>2, <3>3, <4>1 DEF Apply
      <4>2. CASE k # 1
        <5>1. k - 1 \in 1 .. n - 1 /\ k - 1 \in 1 .. L - 1 /\ (k - 1) + 1 = k
          BY <1>1, <4>2
        <5>2. block'[k - 1] = block[k]
          BY <1>1, <5>1
        <5> QED BY <3>3, <5>1, <5>2
      <4> QED BY <4>1, <4>2
    <3> QED BY <3>1, <3>2, <3>3
  <2> QED BY <2>2, <2>3
<1>7. \A n \in 1 .. L : n = 1 \/ (n - 1 \in 1 .. Len(block') /\ block'[n - 1] = block[n])
  <2>1. \A n \in 1 .. L : n # 1 => n - 1 \in 1 .. L - 1 /\ (n - 1) + 1 = n
    BY <1>1
  <2> QED BY <1>1, <2>1
<1>8. ASSUME NEW k \in Identities PROVE k \in sysObjs' \/ \E n \in 1 .. Len(block') : block'[n].kind = k
  <2>1. k \in sysObjs \/ \E n \in 1 .. L : block[n].kind = k
    BY <1>0 DEF IInv, GenesisInv
  <2>2. sysObjs \subseteq sysObjs' /\ (m.kind = k => k \in sysObjs')
    BY <1>2 DEF Apply
  <2> QED BY <1>1, <1>7, <2>1, <2>2
<1>9. ASSUME NEW i \in 1 .. Len(GenesisComms)
      PROVE  \/ General \in cfg'[GenesisComms[i]]
             \/ \E n \in 1 .. Len(block') : block'[n] = collection_config(GenesisComms[i], General)
  <2> DEFINE c == GenesisComms[i]
  <2>1. c \in Comms
    BY CommunitiesAssumption
  <2>2. General \in cfg[c] \/ \E n \in 1 .. L : block[n] = collection_config(c, General)
    BY <1>0 DEF IInv, GenesisInv, Awaited
  <2>3. cfg \in [Comms -> SUBSET Segments]
    BY DEF IInv, ChainInv
  <2>4. General \in cfg[c] => General \in cfg'[c]
    <3>1. m.kind = "config" => m.c \in Comms
      BY <1>1 DEF Messages, Sound
    <3> QED BY <1>2, <2>1, <2>3, <3>1 DEF Apply
  <2>5. m = collection_config(c, General) => General \in cfg'[c]
    BY <1>2, <2>1, <2>3 DEF Apply, collection_config, Msg
  <2> QED BY <1>1, <1>7, <2>2, <2>4, <2>5
<1> QED BY <1>5, <1>6, <1>8, <1>9 DEF GenesisInv, Awaited

\* When the root policy comes into force, it was the last message of the genesis.
LEMMA ReplayComplete == ASSUME IInv, Replay PROVE GenesisComplete'
<1> DEFINE m == Head(block)
<1>0. m \in Messages /\ m = block[1] /\ Len(block) \in Nat \ {0}
  BY HeadOfBlock DEF IInv, Replay
<1>1. cfg \in [Comms -> SUBSET Segments] /\ sysObjs \subseteq Identities /\ sysObjs' \subseteq Identities
  BY ReplayChain DEF IInv, ChainInv
<1>2. /\ sysObjs \subseteq sysObjs'
      /\ \A c \in Comms : cfg[c] \subseteq cfg'[c]
  <2>1. m.kind = "config" => m.c \in Comms
    BY <1>0 DEF Messages, Sound
  <2> QED BY <1>1, <2>1 DEF Replay, Apply, chain
<1>3. DOMAIN GenesisComms = 1 .. Len(GenesisComms) /\ \A n \in 1 .. Len(GenesisComms) : GenesisComms[n] \in Comms
  BY CommunitiesAssumption
<1>4. CASE root # None
  BY <1>1, <1>2, <1>3, <1>4 DEF IInv, GenesisComplete
<1>5. CASE root = None /\ root' # None
  <2>1. Apply(m) /\ m.kind = "root"
    BY <1>5, GenesisAdmits DEF Replay, Apply
  <2>2. Len(block) = 1
    <3>1. 1 \in 1 .. Len(block) /\ block[1].kind = "root"
      BY <1>0, <2>1
    <3>2. \A n \in 1 .. Len(block) : block[n].kind = "root" <=> n = Len(block)
      BY <1>5 DEF IInv, GenesisInv
    <3> QED BY <3>1, <3>2
  <2>3. \A n \in 1 .. Len(block) : block[n].kind = "root"
    BY <1>0, <2>1, <2>2
  <2>4. \A k \in Identities : k # "root"
    BY DEF Identities
  <2>5. Identities \subseteq sysObjs
    BY <1>5, <2>3, <2>4 DEF IInv, GenesisInv
  <2>6. \A i \in 1 .. Len(GenesisComms) : General \in cfg[GenesisComms[i]]
    <3>1. \A c : collection_config(c, General).kind = "config"
      BY DEF collection_config, Msg
    <3> QED BY <1>5, <2>3, <3>1 DEF IInv, GenesisInv, Awaited
  <2> QED BY <1>1, <1>2, <1>3, <2>5, <2>6 DEF GenesisComplete
<1>6. CASE root' = None
  BY <1>6 DEF GenesisComplete
<1> QED BY <1>4, <1>5, <1>6

\* Replay of the head of a block.
LEMMA ReplayKeeps == ASSUME IInv, Replay PROVE IInv'
<1>1. QueueInv'
  BY HeadOfBlock DEF IInv, Replay, QueueInv
<1>2. ToolInv'
  BY DEF IInv, Replay, tools, ToolInv
<1>3. GenesisInv'
  BY ReplayGenesis DEF GenesisInv
<1> QED BY <1>1, <1>2, <1>3, ReplayChain, ReplayComplete DEF IInv

-----------------------------------------------------------------------------
(* The genesis batch.                                                      *)

\* The messages that identify the system are sound.
LEMMA IdentityMessages ==
  ASSUME NEW kind \in Identities \cup {"dnssec"}, NEW val \in {None, "certified", "plain"}
  PROVE  Msg(Sys, "post", kind, None, val) \in Messages
<1>1. val \in Payloads /\ kind \in Kinds
  BY DEF Payloads, Kinds
<1>2. Sound(Msg(Sys, "post", kind, None, val))
  BY DEF Sound, Msg, Identities
<1> QED BY <1>1, <1>2, MsgType

\* The starter communities: no message of another kind, and every space config.
LEMMA GenesisCommunities ==
  /\ genesis_communities \in Seq(Messages)
  /\ \A n \in 1 .. Len(genesis_communities) :
       genesis_communities[n].act = "post" /\ genesis_communities[n].kind \in {"community", "policy", "config"}
  /\ \A i \in 1 .. Len(GenesisComms) :
       \E n \in 1 .. Len(genesis_communities) : genesis_communities[n] = collection_config(GenesisComms[i], General)
<1> DEFINE G == Len(GenesisComms)
<1>1. G \in Nat /\ 3 * G \in Nat /\ \A i \in 1 .. G : GenesisComms[i] \in Comms
  BY CommunitiesAssumption
<1>2. ASSUME NEW c \in Comms, NEW j \in 1 .. 3
      PROVE  /\ genesis_community(c)[j] \in Messages /\ genesis_community(c)[j].act = "post"
             /\ genesis_community(c)[j].kind \in {"community", "policy", "config"}
  <2>1. GenesisArgs(c) \in Checked
    <3>1. <<General>> \in SpaceLists /\ Range(<<General>>) \subseteq Segments /\ IssuerAt[c] \in Issuers
      BY CommunitiesAssumption DEF Range
    <3> QED BY <3>1 DEF GenesisArgs, Arguments, Checked
  <2>2. community(GenesisArgs(c)) \in Messages /\ collection_config(c, General) \in Messages
    <3>1. GenesisArgs(c).c = c
      BY DEF GenesisArgs
    <3> QED BY <2>1, <3>1, CreateMessages, CommunitiesAssumption
  <2>3. Msg(Sys, "post", "policy", c, community_policy_open(c, IssuerAt[c])) \in Messages
    BY OtherMessages, CommunitiesAssumption
  <2> QED BY <2>2, <2>3 DEF genesis_community, community, collection_config, Msg
<1>3. \A n \in 1 .. 3 * G : (n + 2) \div 3 \in 1 .. G /\ ((n + 2) % 3) + 1 \in 1 .. 3
  BY <1>1
<1>4. \A i \in 1 .. G : 3 * i \in 1 .. 3 * G /\ (3 * i + 2) \div 3 = i /\ ((3 * i + 2) % 3) + 1 = 3
  BY <1>1
<1>5. genesis_communities \in [1 .. 3 * G -> Messages]
  BY <1>1, <1>2, <1>3 DEF genesis_communities
<1>6. genesis_communities \in Seq(Messages) /\ Len(genesis_communities) = 3 * G
  BY <1>1, <1>5, SeqDef
<1>7. \A n \in 1 .. 3 * G :
        genesis_communities[n].act = "post" /\ genesis_communities[n].kind \in {"community", "policy", "config"}
  BY <1>1, <1>2, <1>3 DEF genesis_communities
<1>8. ASSUME NEW i \in 1 .. G
      PROVE  \E n \in 1 .. 3 * G : genesis_communities[n] = collection_config(GenesisComms[i], General)
  <2>1. genesis_communities[3 * i] = genesis_community(GenesisComms[i])[3]
    BY <1>4 DEF genesis_communities
  <2>2. genesis_community(GenesisComms[i])[3] = collection_config(GenesisComms[i], General)
    BY DEF genesis_community
  <2> QED BY <1>4, <2>1, <2>2
<1> QED BY <1>6, <1>7, <1>8

\* The proof, the domain and the identities: the proof comes before the domain
\* that refers to it, and every identity is there.
LEMMA GenesisIdentities ==
  ASSUME NEW evidence \in BOOLEAN
  PROVE  LET s == genesis_domain(evidence) \o genesis_identities IN
         /\ s \in Seq(Messages)
         /\ \A n \in 1 .. Len(s) :
              /\ s[n].act = "post" /\ s[n].kind \in Identities \cup {"dnssec"}
              /\ (s[n].kind = "domain" /\ s[n].val = "certified") => \E k \in 1 .. n - 1 : s[k].kind = "dnssec"
         /\ \A k \in Identities : \E n \in 1 .. Len(s) : s[n].kind = k
<1> DEFINE d == genesis_domain(evidence)
           s == d \o genesis_identities
<1>1. genesis_identities \in Seq(Messages)
  BY IdentityMessages DEF genesis_identities, Identities
<1>2. /\ Len(genesis_identities) = 3
      /\ \A n \in 1 .. 3 : genesis_identities[n].act = "post" /\ genesis_identities[n].kind \in Identities \ {"domain"}
      /\ genesis_identities[1].kind = "sys" /\ genesis_identities[2].kind = "sys-checkpointer"
      /\ genesis_identities[3].kind = "brokers"
  BY DEF genesis_identities, Identities, Msg
<1>3. d \in Seq(Messages)
  <2>1. \A m1, m2 \in Messages : <<m1>> \in Seq(Messages) /\ <<m1, m2>> \in Seq(Messages)
    OBVIOUS
  <2>2. Msg(Sys, "post", "dnssec", None, None) \in Messages /\ Msg(Sys, "post", "domain", None, "certified") \in Messages
        /\ Msg(Sys, "post", "domain", None, "plain") \in Messages
    BY IdentityMessages DEF Identities
  <2> QED BY <2>1, <2>2 DEF genesis_domain
<1>4. CASE evidence
  <2>1. /\ Len(d) = 2 /\ d[1].kind = "dnssec" /\ d[2].kind = "domain"
        /\ d[1].act = "post" /\ d[2].act = "post"
    BY <1>4 DEF genesis_domain, Msg
  <2> HIDE DEF d
  <2>2. /\ s \in Seq(Messages) /\ Len(s) = 5 /\ s[1] = d[1] /\ s[2] = d[2]
        /\ s[3] = genesis_identities[1] /\ s[4] = genesis_identities[2] /\ s[5] = genesis_identities[3]
    <3>1. /\ s \in Seq(Messages) /\ Len(s) = 5
          /\ \A n \in 1 .. 5 : s[n] = IF n <= 2 THEN d[n] ELSE genesis_identities[n - 2]
      <4>1. /\ s \in Seq(Messages) /\ Len(s) = Len(d) + Len(genesis_identities)
            /\ \A n \in 1 .. Len(d) + Len(genesis_identities) :
                 s[n] = IF n <= Len(d) THEN d[n] ELSE genesis_identities[n - Len(d)]
        BY <1>1, <1>3, ConcatProperties
      <4> HIDE DEF s
      <4>2. Len(d) + Len(genesis_identities) = 5
        BY <1>2, <2>1
      <4> QED BY <2>1, <4>1, <4>2
    <3> HIDE DEF s
    <3>2. s[1] = d[1] /\ s[2] = d[2] /\ s[3] = genesis_identities[1]
      BY <3>1
    <3>3. s[4] = genesis_identities[2] /\ s[5] = genesis_identities[3]
      BY <3>1
    <3> QED BY <3>1, <3>2, <3>3
  <2> HIDE DEF s
  <2>3. \A n \in 1 .. 5 : n = 1 \/ n = 2 \/ n = 3 \/ n = 4 \/ n = 5
    OBVIOUS
  <2>4. \A n \in 1 .. 5 : s[n].act = "post" /\ s[n].kind \in Identities \cup {"dnssec"}
    BY <1>2, <2>1, <2>2, <2>3 DEF Identities
  <2>5. \A n \in 1 .. 5 : s[n].kind = "domain" => \E k \in 1 .. n - 1 : s[k].kind = "dnssec"
    <3>1. \A n \in 1 .. 5 : s[n].kind = "domain" => n = 2
      BY <1>2, <2>1, <2>2, <2>3 DEF Identities
    <3>2. 1 \in 1 .. 2 - 1 /\ s[1].kind = "dnssec"
      BY <2>1, <2>2
    <3> QED BY <3>1, <3>2
  <2>6. \A k \in Identities : \E n \in 1 .. 5 : s[n].kind = k
    <3>1. s[2].kind = "domain" /\ s[3].kind = "sys" /\ s[4].kind = "sys-checkpointer" /\ s[5].kind = "brokers"
      BY <1>2, <2>1, <2>2
    <3>2. 2 \in 1 .. 5 /\ 3 \in 1 .. 5 /\ 4 \in 1 .. 5 /\ 5 \in 1 .. 5
      OBVIOUS
    <3> QED BY <3>1, <3>2 DEF Identities
  <2> QED BY <2>2, <2>4, <2>5, <2>6 DEF s, d
<1>5. CASE ~evidence
  <2>1. Len(d) = 1 /\ d[1].kind = "domain" /\ d[1].act = "post" /\ d[1].val = "plain"
    BY <1>5 DEF genesis_domain, Msg
  <2> HIDE DEF d
  <2>2. /\ s \in Seq(Messages) /\ Len(s) = 4 /\ s[1] = d[1]
        /\ s[2] = genesis_identities[1] /\ s[3] = genesis_identities[2] /\ s[4] = genesis_identities[3]
    BY <1>1, <1>2, <1>3, <2>1, ConcatProperties
  <2> HIDE DEF s
  <2>3. \A n \in 1 .. 4 : n = 1 \/ n = 2 \/ n = 3 \/ n = 4
    OBVIOUS
  <2>4. \A n \in 1 .. 4 : s[n].act = "post" /\ s[n].kind \in Identities \cup {"dnssec"}
    BY <1>2, <2>1, <2>2, <2>3 DEF Identities
  <2>5. \A n \in 1 .. 4 : ~(s[n].kind = "domain" /\ s[n].val = "certified")
    BY <1>2, <2>1, <2>2, <2>3 DEF Identities
  <2>6. \A k \in Identities : \E n \in 1 .. 4 : s[n].kind = k
    <3>1. s[1].kind = "domain" /\ s[2].kind = "sys" /\ s[3].kind = "sys-checkpointer" /\ s[4].kind = "brokers"
      BY <1>2, <2>1, <2>2
    <3>2. 1 \in 1 .. 4 /\ 2 \in 1 .. 4 /\ 3 \in 1 .. 4 /\ 4 \in 1 .. 4
      OBVIOUS
    <3> QED BY <3>1, <3>2 DEF Identities
  <2> QED BY <2>2, <2>4, <2>5, <2>6 DEF s, d
<1> QED BY <1>4, <1>5

\* The genesis batch: the opening, the starter communities, the root policy.
Opening(evidence) == genesis_domain(evidence) \o genesis_identities
LEMMA GenesisLayout ==
  ASSUME NEW evidence \in BOOLEAN, NEW b, b = mingo_genesis(evidence)
  PROVE  /\ Len(Opening(evidence)) \in Nat /\ Len(genesis_communities) \in Nat /\ b \in Seq(Messages)
         /\ Len(b) = Len(Opening(evidence)) + Len(genesis_communities) + 1
         /\ \A n \in 1 .. Len(Opening(evidence)) : b[n] = Opening(evidence)[n]
         /\ \A n \in 1 .. Len(genesis_communities) : b[n + Len(Opening(evidence))] = genesis_communities[n]
         /\ b[Len(b)] = RootMessage({Sys})
<1> DEFINE s == Opening(evidence)
           g == genesis_communities
           t == s \o g
           r == <<RootMessage({Sys})>>
<1>1. s \in Seq(Messages) /\ g \in Seq(Messages)
  BY GenesisIdentities, GenesisCommunities DEF Opening
<1>3. r \in Seq(Messages) /\ Len(r) = 1 /\ r[1] = RootMessage({Sys})
  BY OtherMessages
<1>4. b = t \o r
  BY DEF mingo_genesis, Opening
<1> HIDE DEF s, g, r
<1>5. Len(s) \in Nat /\ Len(g) \in Nat
  BY <1>1
<1>6. /\ t \in Seq(Messages) /\ Len(t) = Len(s) + Len(g)
      /\ \A n \in 1 .. Len(t) : t[n] = IF n <= Len(s) THEN s[n] ELSE g[n - Len(s)]
  BY <1>1, ConcatProperties
<1> HIDE DEF t
<1>7. /\ b \in Seq(Messages) /\ Len(b) = Len(t) + 1
      /\ \A n \in 1 .. Len(b) : b[n] = IF n <= Len(t) THEN t[n] ELSE r[n - Len(t)]
  <2>1. /\ t \o r \in Seq(Messages) /\ Len(t \o r) = Len(t) + Len(r)
        /\ \A n \in 1 .. Len(t) + Len(r) : (t \o r)[n] = IF n <= Len(t) THEN t[n] ELSE r[n - Len(t)]
    <3>1. t \in Seq(Messages) /\ r \in Seq(Messages)
      BY <1>3, <1>6
    <3> QED BY <3>1, ConcatProperties
  <2> DEFINE q == t \o r
  <2>2. b = q /\ q \in Seq(Messages) /\ Len(q) = Len(t) + 1
    BY <1>3, <1>4, <2>1
  <2>3. \A n \in 1 .. Len(t) + 1 : q[n] = IF n <= Len(t) THEN t[n] ELSE r[n - Len(t)]
    BY <1>3, <2>1
  <2> HIDE DEF q
  <2>4. 1 .. Len(q) = 1 .. Len(t) + 1
    BY <2>2
  <2> QED BY <2>2, <2>3, <2>4, Zenon
<1>8. Len(b) = Len(s) + Len(g) + 1
  BY <1>5, <1>6, <1>7
<1>9. \A n \in 1 .. Len(s) : b[n] = s[n]
  <2>1. \A n \in 1 .. Len(s) : n \in 1 .. Len(b) /\ n \in 1 .. Len(t)
    BY <1>5, <1>6, <1>8
  <2> QED BY <1>5, <1>6, <1>7, <2>1
<1>10. \A n \in 1 .. Len(g) : b[n + Len(s)] = g[n]
  <2>1. \A n \in 1 .. Len(g) : n + Len(s) \in 1 .. Len(b) /\ n + Len(s) \in 1 .. Len(t) /\ ~(n + Len(s) <= Len(s))
                               /\ (n + Len(s)) - Len(s) = n
    BY <1>5, <1>6, <1>8
  <2> QED BY <1>5, <1>6, <1>7, <2>1
<1>11. b[Len(b)] = RootMessage({Sys})
  <2>1. Len(b) \in 1 .. Len(b) /\ ~(Len(b) <= Len(t)) /\ Len(b) - Len(t) = 1
    BY <1>5, <1>6, <1>7
  <2> QED BY <1>3, <1>7, <2>1
<1> QED BY <1>5, <1>7, <1>8, <1>9, <1>10, <1>11 DEF s, g

\* An empty chain with the genesis as its first block.
LEMMA InitGenesis == Init => QueueInv /\ GenesisInv
<1> SUFFICES ASSUME Init PROVE QueueInv /\ GenesisInv
  OBVIOUS
<1>0. PICK evidence \in BOOLEAN : block = mingo_genesis(evidence)
  BY DEF Init
<1> DEFINE s == Opening(evidence)
           g == genesis_communities
           S == Len(s)
           G == Len(g)
           B == Len(block)
<1>1. /\ \A n \in 1 .. S :
           /\ s[n].act = "post" /\ s[n].kind \in Identities \cup {"dnssec"}
           /\ (s[n].kind = "domain" /\ s[n].val = "certified") => \E k \in 1 .. n - 1 : s[k].kind = "dnssec"
      /\ \A k \in Identities : \E n \in 1 .. S : s[n].kind = k
  BY GenesisIdentities DEF Opening
<1>2. /\ \A n \in 1 .. G : g[n].act = "post" /\ g[n].kind \in {"community", "policy", "config"}
      /\ \A i \in 1 .. Len(GenesisComms) : \E n \in 1 .. G : g[n] = collection_config(GenesisComms[i], General)
  BY GenesisCommunities
<1>3. RootMessage({Sys}).kind = "root" /\ RootMessage({Sys}).act = "post"
  BY DEF RootMessage, Msg
<1>7. /\ S \in Nat /\ G \in Nat /\ block \in Seq(Messages) /\ B = S + G + 1
      /\ \A n \in 1 .. S : block[n] = s[n]
      /\ \A n \in 1 .. G : block[n + S] = g[n]
      /\ block[B] = RootMessage({Sys})
  BY <1>0, GenesisLayout
<1> HIDE DEF s, g, S, G, B
<1>8. B \in Nat \ {0}
  BY <1>7
<1>9. \A n \in 1 .. S : n \in 1 .. B /\ n # B
  BY <1>7
<1>10. \A n \in 1 .. G : n + S \in 1 .. B /\ n + S # B
  BY <1>7
<1>12. \A n \in 1 .. B : n \in 1 .. S \/ n = B \/ (n - S \in 1 .. G /\ (n - S) + S = n)
  BY <1>7
<1>13. ASSUME NEW n \in 1 .. B
       PROVE  /\ block[n].act = "post" /\ block[n].kind \notin {"subpolicy", "post"}
              /\ block[n].kind = "root" <=> n = B
              /\ (block[n].kind = "domain" /\ block[n].val = "certified") =>
                   fresh \/ \E k \in 1 .. n - 1 : block[k].kind = "dnssec"
  <2>1. CASE n \in 1 .. S
    <3>1. block[n] = s[n] /\ n # B /\ S \in Nat
      BY <1>7, <1>9, <2>1
    <3>2. \A k \in 1 .. n - 1 : block[k] = s[k]
      <4>1. \A k \in 1 .. n - 1 : k \in 1 .. S
        BY <2>1, <3>1
      <4> QED BY <1>7, <4>1
    <3>3. block[n].act = "post" /\ block[n].kind \notin {"subpolicy", "post", "root"}
      BY <1>1, <2>1, <3>1 DEF Identities
    <3>4. (s[n].kind = "domain" /\ s[n].val = "certified") => \E k \in 1 .. n - 1 : s[k].kind = "dnssec"
      BY <1>1, <2>1
    <3> QED BY <3>1, <3>2, <3>3, <3>4
  <2>2. CASE n = B
    BY <1>3, <1>7, <2>2
  <2>3. CASE n - S \in 1 .. G /\ (n - S) + S = n
    <3>1. block[n] = g[n - S] /\ n # B
      BY <1>7, <1>10, <2>3
    <3> QED BY <1>2, <2>3, <3>1
  <2> QED BY <1>12, <2>1, <2>2, <2>3
<1>14. ASSUME NEW k \in Identities PROVE \E n \in 1 .. B : block[n].kind = k
  BY <1>1, <1>7, <1>9
<1>15. ASSUME NEW i \in 1 .. Len(GenesisComms)
       PROVE  \E n \in 1 .. B : block[n] = collection_config(GenesisComms[i], General)
  BY <1>2, <1>7, <1>10
<1>16. GenesisInv
  <2>1. block # <<>>
    BY <1>7, <1>8, EmptySeq DEF B
  <2> QED BY <2>1, <1>13, <1>14, <1>15 DEF GenesisInv, Awaited, B
<1>17. QueueInv
  BY <1>7 DEF Init, QueueInv
<1> QED BY <1>16, <1>17

\* The first state.
LEMMA InitInv == Init => IInv
<1> SUFFICES ASSUME Init PROVE IInv
  OBVIOUS
<1>1. ChainInv
  BY DEF Init, ChainInv, Identities
<1>2. ToolInv
  BY CommunitiesAssumption DEF Init, ToolInv, NoAppointment
<1>3. GenesisComplete
  BY DEF Init, GenesisComplete
<1> QED BY <1>1, <1>2, <1>3, InitGenesis DEF IInv

-----------------------------------------------------------------------------
(* The tools, the clients, and what happens between blocks.                *)

\* Between blocks the root policy is in force: the genesis is one block.
LEMMA Governed == ASSUME IInv, block = <<>> PROVE root # None
BY DEF IInv, GenesisInv

\* A batch that is taken joins the others.
LEMMA TakenKeeps ==
  ASSUME QueueInv, NEW batch \in Batches, Taken(batch)
  PROVE  pending' \in Seq(Batches)
BY DEF QueueInv, Taken

\* A step that writes nothing to the chain keeps what is true of it; a proof may
\* lapse.
LEMMA ChainKept ==
  ASSUME IInv, block = <<>>, UNCHANGED <<sysObjs, root, desc, pol, cfg, post, att, captured>>, fresh' \in BOOLEAN
  PROVE  ChainInv' /\ GenesisInv' /\ GenesisComplete'
<1>1. root' # None
  BY Governed
<1>2. ChainInv'
  BY DEF IInv, ChainInv
<1>3. GenesisComplete'
  BY DEF IInv, GenesisComplete
<1> QED BY <1>1, <1>2, <1>3 DEF GenesisInv

\* Starting, leaving and ending create-community.
LEMMA CreateTools ==
  ASSUME ToolInv, NEW o \in Operators
  PROVE  /\ Ended(o) /\ UNCHANGED <<appoint, ops>> => ToolInv'
         /\ \A step \in {"wait", "write"} :
              (at[o] # "idle" /\ at' = [at EXCEPT ![o] = step] /\ UNCHANGED <<args, appoint, ops>>) => ToolInv'
<1>1. ASSUME Ended(o), UNCHANGED <<appoint, ops>> PROVE ToolInv'
  BY <1>1 DEF Ended, ToolInv
<1>2. ASSUME NEW step \in {"wait", "write"}, at[o] # "idle", at' = [at EXCEPT ![o] = step],
             UNCHANGED <<args, appoint, ops>>
      PROVE  ToolInv'
  BY <1>2 DEF ToolInv
<1> QED BY <1>1, <1>2

\* The steps of create-community.
LEMMA CreateKeeps ==
  ASSUME IInv, block = <<>>, NEW o \in Operators,
         Begin(o) \/ Clear(o) \/ Cleared(o) \/ GiveUp(o) \/ Write(o)
  PROVE  IInv'
<1>0. QueueInv /\ ToolInv /\ fresh \in BOOLEAN
  BY DEF IInv, ChainInv
<1>1. UNCHANGED chain /\ UNCHANGED block
  BY DEF Begin, Clear, Cleared, GiveUp, Write
<1>2. ChainInv' /\ GenesisInv' /\ GenesisComplete'
  BY <1>0, <1>1, ChainKept DEF chain
<1>3. at[o] \in {"clear", "wait", "write"} =>
        CreateBatch(args[o]) \in Batches /\ ClearBatch(args[o]) \in Batches
  BY <1>0, CreateBatches DEF ToolInv
<1>4. CASE Begin(o)
  <2>1. PICK a \in Arguments :
          /\ Range(a.spaces) \subseteq Segments /\ args' = [args EXCEPT ![o] = a]
          /\ at' = [at EXCEPT ![o] = IF a.replace THEN "clear" ELSE "write"]
    BY <1>4 DEF Begin
  <2>2. a \in Checked
    BY <2>1 DEF Checked
  <2>3. ops' \in 0 .. MaxOps
    BY <1>0, <1>4, CommunitiesAssumption DEF Begin, ToolInv
  <2>4. ToolInv'
    BY <1>0, <1>4, <2>1, <2>2, <2>3 DEF Begin, ToolInv
  <2> QED BY <1>0, <1>1, <1>2, <1>4, <2>4 DEF Begin, IInv, QueueInv
<1>5. CASE Clear(o)
  <2>1. pending' \in Seq(Batches)
    BY <1>0, <1>3, <1>5, TakenKeeps DEF Clear, submit, QueueInv
  <2>2. ToolInv'
    BY <1>0, <1>5, CreateTools DEF Clear
  <2> QED BY <1>0, <1>1, <1>2, <2>1, <2>2 DEF IInv, QueueInv
<1>6. CASE Cleared(o)
  <2>1. ToolInv'
    BY <1>0, <1>6, CreateTools DEF Cleared
  <2> QED BY <1>0, <1>1, <1>2, <1>6, <2>1 DEF Cleared, IInv, QueueInv
<1>7. CASE GiveUp(o)
  <2>1. ToolInv'
    BY <1>0, <1>7, CreateTools DEF GiveUp
  <2> QED BY <1>0, <1>1, <1>2, <1>7, <2>1 DEF GiveUp, IInv, QueueInv
<1>8. CASE Write(o)
  <2>1. pending' \in Seq(Batches)
    BY <1>0, <1>3, <1>8, TakenKeeps DEF Write, submit, QueueInv
  <2>2. ToolInv'
    BY <1>0, <1>8, CreateTools DEF Write
  <2> QED BY <1>0, <1>1, <1>2, <2>1, <2>2 DEF IInv, QueueInv
<1> QED BY <1>4, <1>5, <1>6, <1>7, <1>8

\* open-community, and the writes of clients.
LEMMA WriteKeeps ==
  ASSUME IInv, block = <<>>,
         \/ \E c \in Comms, i \in Issuers : OpenCommunity(c, i)
         \/ \E m \in UserMessages : ClientWrite(m)
  PROVE  IInv'
<1>0. QueueInv /\ ToolInv /\ fresh \in BOOLEAN
  BY DEF IInv, ChainInv
<1>1. PICK m \in Messages : Taken(<<m>>) /\ ops < MaxOps /\ ops' = ops + 1 /\ UNCHANGED <<chain, block, at, args, appoint>>
  <2>1. ASSUME NEW c \in Comms, NEW i \in Issuers, OpenCommunity(c, i)
        PROVE  \E m \in Messages : Taken(<<m>>) /\ ops < MaxOps /\ ops' = ops + 1 /\ UNCHANGED <<chain, block, at, args, appoint>>
    BY <2>1, OtherMessages DEF OpenCommunity
  <2>2. ASSUME NEW m \in UserMessages, ClientWrite(m)
        PROVE  Taken(<<m>>) /\ ops < MaxOps /\ ops' = ops + 1 /\ UNCHANGED <<chain, block, at, args, appoint>>
    BY <2>2 DEF ClientWrite
  <2> QED BY <2>1, <2>2, OtherMessages
<1>2. pending' \in Seq(Batches)
  BY <1>0, <1>1, OneMessage, TakenKeeps
<1>3. ops' \in 0 .. MaxOps
  BY <1>0, <1>1, CommunitiesAssumption DEF ToolInv
<1>4. ToolInv'
  BY <1>0, <1>1, <1>3 DEF ToolInv
<1>5. ChainInv' /\ GenesisInv' /\ GenesisComplete'
  BY <1>0, <1>1, ChainKept DEF chain
<1> QED BY <1>0, <1>1, <1>2, <1>4, <1>5 DEF IInv, QueueInv

\* The steps of appoint-moderator.
LEMMA AppointKeeps ==
  ASSUME IInv, block = <<>>,
         \/ \E c \in Comms, u \in Users : AppointBegin(c, u)
         \/ AppointRefresh \/ AppointProvision \/ AppointSubmit
  PROVE  IInv'
<1>0. QueueInv /\ ToolInv /\ fresh \in BOOLEAN
  BY DEF IInv, ChainInv
<1>1. UNCHANGED <<chain, block, at, args>>
  BY DEF AppointBegin, AppointRefresh, AppointProvision, AppointSubmit
<1>2. ChainInv' /\ GenesisInv' /\ GenesisComplete'
  BY <1>0, <1>1, ChainKept DEF chain
<1>3. ASSUME NEW step \in {"provision", "submit"}, appoint.at # "idle", UNCHANGED ops,
             appoint' = [appoint EXCEPT !.at = step] \/ appoint' = NoAppointment
      PROVE  ToolInv'
  BY <1>0, <1>1, <1>3 DEF ToolInv, NoAppointment
<1>4. ASSUME NEW c \in Comms, NEW u \in Users, AppointBegin(c, u) PROVE IInv'
  <2>1. ops' \in 0 .. MaxOps
    BY <1>0, <1>4, CommunitiesAssumption DEF AppointBegin, ToolInv
  <2>2. ToolInv'
    BY <1>0, <1>1, <1>4, <2>1 DEF AppointBegin, ToolInv
  <2> QED BY <1>0, <1>1, <1>2, <1>4, <2>2 DEF AppointBegin, IInv, QueueInv
<1>5. CASE AppointRefresh
  <2>1. pending' \in Seq(Batches)
    BY <1>0, <1>5, OtherMessages, OneMessage, TakenKeeps DEF AppointRefresh, submit, QueueInv
  <2>2. ToolInv'
    BY <1>3, <1>5 DEF AppointRefresh
  <2> QED BY <1>0, <1>1, <1>2, <2>1, <2>2 DEF IInv, QueueInv
<1>6. CASE AppointProvision
  <2>1. ToolInv'
    BY <1>3, <1>6 DEF AppointProvision
  <2> QED BY <1>0, <1>1, <1>2, <1>6, <2>1 DEF AppointProvision, IInv, QueueInv
<1>7. CASE AppointSubmit
  <2>1. build_plan(appoint.c, appoint.subject) \in Messages
    BY <1>0, <1>7, OtherMessages DEF AppointSubmit, ToolInv
  <2>2. pending' \in Seq(Batches)
    BY <1>0, <1>7, <2>1, OneMessage, TakenKeeps DEF AppointSubmit, QueueInv
  <2>3. ToolInv'
    BY <1>3, <1>7 DEF AppointSubmit
  <2> QED BY <1>0, <1>1, <1>2, <2>2, <2>3 DEF IInv, QueueInv
<1> QED BY <1>4, <1>5, <1>6, <1>7

\* A block starts, a batch is dropped, a proof lapses.
LEMMA DaemonKeeps == ASSUME IInv, block = <<>>, StartBlock \/ Drop \/ Lapse PROVE IInv'
<1>0. QueueInv /\ ToolInv /\ fresh \in BOOLEAN
  BY DEF IInv, ChainInv
<1>1. UNCHANGED <<sysObjs, root, desc, pol, cfg, post, att, captured>> /\ fresh' \in BOOLEAN /\ UNCHANGED tools
  BY <1>0 DEF StartBlock, Drop, Lapse, chain
<1>2. ChainInv' /\ GenesisInv' /\ GenesisComplete'
  BY <1>1, ChainKept
<1>3. ToolInv'
  BY <1>0, <1>1 DEF ToolInv, tools
<1>4. pending # <<>> => Head(pending) \in Seq(Messages) /\ Tail(pending) \in Seq(Batches)
  BY <1>0, HeadTailProperties DEF QueueInv, Batches
<1>5. QueueInv'
  BY <1>0, <1>4 DEF StartBlock, Drop, Lapse, QueueInv
<1> QED BY <1>2, <1>3, <1>5 DEF IInv

\* Every step preserves the invariant.
LEMMA NextInv == IInv /\ [Next]_vars => IInv'
<1> SUFFICES ASSUME IInv, [Next]_vars PROVE IInv'
  OBVIOUS
<1>1. CASE block = <<>> /\ Request
  BY <1>1, CreateKeeps, WriteKeeps, AppointKeeps, DaemonKeeps DEF Request
<1>2. CASE Replay
  BY <1>2, ReplayKeeps
<1>3. CASE UNCHANGED vars
  BY <1>3 DEF vars, chain, tools, IInv, ChainInv, QueueInv, ToolInv, GenesisInv, GenesisComplete, Awaited
<1> QED BY <1>1, <1>2, <1>3 DEF Next

\* The chain changes by replay only, but for a proof that lapses.
LEMMA ByReplay == ASSUME [Next]_vars, ~Replay PROVE UNCHANGED <<root, desc, pol, cfg, post>>
<1>1. CASE UNCHANGED vars
  BY <1>1 DEF vars, chain
<1>2. CASE Request
  BY <1>2 DEF Request, Begin, Clear, Cleared, GiveUp, Write, OpenCommunity, AppointBegin, AppointRefresh,
     AppointProvision, AppointSubmit, ClientWrite, StartBlock, Drop, Lapse, chain
<1> QED BY <1>1, <1>2 DEF Next

-----------------------------------------------------------------------------
(* What a step may do.                                                     *)

\* Content changes for one of the reasons the policy documents name.
LEMMA ContentChange ==
  ASSUME IInv, [Next]_vars, NEW c \in Comms, post'[c] # post[c]
  PROVE  ContentStep(c)
<1> DEFINE m == Head(block)
           by == m.by
<1>1. Replay /\ block # <<>>
  BY ByReplay DEF Replay
<1>2. m \in Messages /\ m = block[1] /\ 1 \in 1 .. Len(block)
  BY <1>1, HeadOfBlock DEF IInv
<1>3. Admitted(m, fresh) /\ Apply(m)
  BY <1>1 DEF Replay, chain
<1>4. m.kind = "post"
  BY <1>3 DEF Apply
<1>5. m.c = c /\ post'[c] = (IF m.act = "delete" THEN None ELSE by)
  BY <1>3, <1>4 DEF Apply, IInv, ChainInv
<1>6. root # None
  BY <1>2, <1>4 DEF IInv, GenesisInv
<1>7. /\ ChainInv /\ att \subseteq Attestations /\ m.kind \notin Governing /\ m.kind \in InSpaces
      /\ m.kind \notin {"attestation", "dnssec"}
  BY <1>4 DEF IInv, ChainInv, Governing, InSpaces
<1>8. by \in Users \/ (by = Sys /\ m.act = "delete")
  BY <1>2, <1>4 DEF Messages, Sound
<1>9. /\ Present(m) <=> post[c] # None
      /\ Present(m) => OwnerOf(m) = post[c]
  BY <1>4, <1>5 DEF Present, OwnerOf
<1>10. CASE m.act = "delete" /\ OwnerOf(m) = by
  <2>1. post[c] = by /\ post'[c] = None
    BY <1>3, <1>5, <1>9, <1>10 DEF Admitted
  <2> QED BY <2>1 DEF ContentStep
<1>11. CASE IsAdmin(by)
  <2>1. by = Sys /\ post'[c] = None
    BY <1>5, <1>6, <1>7, <1>8, <1>11, Admins
  <2> QED BY <2>1 DEF ContentStep
<1>12. ASSUME NEW i \in Issuers, pol[c] = community_policy(c, i), Granted(pol[c], m) PROVE ContentStep(c)
  <2>1. pol[c].banBy = i
    BY <1>12 DEF community_policy
  <2>2. /\ RightFor(m) \in POST /\ Attestation(Membership(None), i, by) \in att
        /\ Attestation(Ban, i, by) \notin att
    BY <1>7, <1>12, ClosedGrants
  <2>3. post'[c] = by
    BY <1>2, <1>5, <1>7, <2>2, Rights
  <2> QED BY <1>12, <2>1, <2>2, <2>3 DEF ContentStep
<1>13. ASSUME NEW i \in Issuers, pol[c] = community_policy_open(c, i), Granted(pol[c], m) PROVE ContentStep(c)
  <2>1. pol[c].banBy = i
    BY <1>13 DEF community_policy_open
  <2>2. Attestation(Ban, i, by) \notin att
    BY <1>7, <1>13, OpenGrants
  <2>3. CASE RightFor(m) = "create" /\ Attestation(Membership(c), by, by) \in att
    <3>1. post[c] = None /\ post'[c] = by
      BY <1>2, <1>5, <1>7, <1>9, <2>3, Rights DEF POST
    <3> QED BY <1>13, <2>1, <2>2, <2>3, <3>1 DEF ContentStep
  <2>4. CASE RightFor(m) = "update" /\ OwnerOf(m) = by
    <3>1. post[c] = by /\ post'[c] = by
      BY <1>2, <1>5, <1>7, <1>9, <2>4, Rights DEF POST
    <3> QED BY <3>1 DEF ContentStep
  <2>5. CASE RightFor(m) = "delete" /\ (Attestation(Moderator(c), i, by) \in att \/ by = Sys)
    <3>1. post'[c] = None
      BY <1>2, <1>5, <1>7, <2>5, Rights
    <3> QED BY <2>1, <2>5, <3>1 DEF ContentStep
  <2> QED BY <1>7, <1>13, <2>3, <2>4, <2>5, OpenGrants
<1> QED BY <1>2, <1>3, <1>5, <1>6, <1>7, <1>10, <1>11, <1>12, <1>13, ByRight

\* What a sys key that is no admin changes, message by message.
LEMMA RetiredChange ==
  ASSUME IInv, [Next]_vars, root # None, ~IsAdmin(Sys)
  PROVE  /\ root' = root /\ pol' = pol /\ cfg' = cfg
         /\ \A c \in Comms : desc'[c] \in {desc[c], None}
<1> DEFINE m == Head(block)
<1>1. CASE ~Replay
  BY <1>1, ByReplay
<1>2. CASE Replay /\ ~Admitted(m, fresh)
  BY <1>2 DEF Replay, chain
<1>3. CASE Replay /\ Admitted(m, fresh)
  <2>1. m \in Messages /\ Apply(m)
    BY <1>3, HeadOfBlock DEF IInv, Replay
  <2>2. /\ m.kind \notin {"root", "policy"}
        /\ m.kind = "community" => m.act = "delete"
        /\ m.kind = "config" => m.val \in cfg[m.c]
    BY <1>3, <2>1, SysWrites DEF IInv
  <2>3. root' = root /\ pol' = pol
    BY <2>1, <2>2 DEF Apply
  <2>4. cfg' = cfg
    <3>1. m.kind = "config" => m.c \in Comms /\ cfg[m.c] \cup {m.val} = cfg[m.c]
      BY <2>1, <2>2 DEF Messages, Sound
    <3>2. cfg \in [Comms -> SUBSET Segments]
      BY DEF IInv, ChainInv
    <3> QED BY <2>1, <3>1, <3>2 DEF Apply
  <2>5. \A c \in Comms : desc'[c] \in {desc[c], None}
    <3>1. m.kind = "community" => m.c \in Comms /\ m.val = None
      BY <2>1, <2>2 DEF Messages, Sound
    <3>2. desc \in [Comms -> Arguments \cup {None}]
      BY DEF IInv, ChainInv
    <3> QED BY <2>1, <3>1, <3>2 DEF Apply
  <2> QED BY <2>3, <2>4, <2>5
<1> QED BY <1>1, <1>2, <1>3

-----------------------------------------------------------------------------

\* The invariant holds throughout.
LEMMA Invariant == Spec => []IInv
BY InitInv, NextInv, PTL DEF Spec

\* Nothing the genesis emits is refused, with and without DNSSEC evidence and for
\* any list of starter communities: when the root policy comes into force every
\* identity and every space config is on the chain.
THEOREM GenesisSafe == Spec => []GenesisComplete
<1>1. IInv => GenesisComplete
  BY DEF IInv
<1> QED BY Invariant, <1>1, PTL

\* No member ever installs a policy below a space, under any policy a community
\* goes through and while it has none.
THEOREM UncapturedSafe == Spec => []Uncaptured
<1>1. IInv => Uncaptured
  BY DEF IInv, ChainInv, Uncaptured
<1> QED BY Invariant, <1>1, PTL

\* Content is created, updated and removed by those the policy in force names and
\* by nobody else, whatever was written in the meantime.
THEOREM ContentSafe == Spec => ContentRule
<1>1. IInv /\ [Next]_vars => [\A c \in Comms : post'[c] # post[c] => ContentStep(c)]_vars
  BY ContentChange
<1> QED BY Invariant, <1>1, PTL DEF Spec, ContentRule

\* After the cutover the sys key, and what it had pending, can only remove.
THEOREM RetiredSafe == Spec => RetiredKeyOnlyRemoves
<1>1. IInv /\ [Next]_vars =>
  [(root # None /\ ~IsAdmin(Sys)) =>
       /\ root' = root /\ pol' = pol /\ cfg' = cfg
       /\ \A c \in Comms : desc'[c] \in {desc[c], None}]_vars
  BY RetiredChange
<1> QED BY Invariant, <1>1, PTL DEF Spec, RetiredKeyOnlyRemoves

-----------------------------------------------------------------------------
(* Appointments.                                                           *)

\* A proof of the domain is admitted from anybody.
LEMMA ProofAdmitted ==
  ASSUME ChainInv, root # None, NEW m \in Messages, m.kind = "dnssec"
  PROVE  Admitted(m, fresh)
<1>1. m.act = "post" /\ m.by \notin Users \cup Issuers
  BY CommunitiesAssumption DEF Messages, Sound
<1>2. PICK admins \in SUBSET {Sys, Successor} : root = hub_policy(admins)
  BY DEF ChainInv, HubPolicies
<1>3. Governor(m) = root /\ root # Ghost
  BY <1>2, PolicyAssumption DEF Governor, InSpaces
<1>4. RightFor(m) = "create"
  BY <1>1 DEF RightFor, Governing, Present
<1>5. Granted(root, m)
  <2> DEFINE g == Grant("*", POST, "dnssec")
  <2>1. g \in root.grants
    BY <1>2 DEF hub_policy
  <2>2. RightFor(m) \in g.can /\ Covers(g.on, m) /\ Grantee(root, g.to, m)
    BY <1>4 DEF Grant, POST, Covers, Grantee
  <2> QED BY <2>1, <2>2 DEF Granted, InSpaces
<1> QED BY <1>1, <1>3, <1>5 DEF Admitted

\* An appointment is admitted while the proof of the domain is valid: everybody
\* may write attestations of their own, and the issuer is who signs it.
LEMMA AppointmentAdmitted ==
  ASSUME ChainInv, root # None, fresh, NEW c \in Comms, NEW u \in Users
  PROVE  Admitted(build_plan(c, u), fresh)
<1> DEFINE m == build_plan(c, u)
<1>1. /\ m.act = "post" /\ m.kind = "attestation" /\ m.val.issuer = m.by
  BY DEF build_plan, Msg, Attestation
<1>2. PICK admins \in SUBSET {Sys, Successor} : root = hub_policy(admins)
  BY DEF ChainInv, HubPolicies
<1> HIDE DEF m
<1>3. Governor(m) = root /\ root # Ghost
  BY <1>1, <1>2, PolicyAssumption DEF Governor, InSpaces
<1>4. RightFor(m) \in POST /\ OwnerOf(m) = m.by
  BY <1>1 DEF RightFor, Governing, POST, OwnerOf
<1>5. Granted(root, m)
  <2> DEFINE g == Grant("owner", POST \cup {"delete"}, "own")
  <2>1. g \in root.grants
    BY <1>2 DEF hub_policy
  <2>2. RightFor(m) \in g.can /\ Covers(g.on, m) /\ Grantee(root, g.to, m)
    BY <1>1, <1>4 DEF Grant, Covers, Grantee
  <2> QED BY <1>1, <2>1, <2>2 DEF Granted, InSpaces
<1>6. Admitted(m, fresh)
  BY <1>1, <1>3, <1>5 DEF Admitted
<1> QED BY <1>6 DEF m

\* The queue grows at its end; what is on its way stays so.
LEMMA ArrivingKept ==
  ASSUME QueueInv, NEW m, Arriving(m), UNCHANGED <<att, fresh, block>>,
         UNCHANGED pending \/ \E b : pending' = Append(pending, b)
  PROVE  Arriving(m)'
<1>1. CASE UNCHANGED pending
  BY <1>1 DEF Arriving, ProofAhead
<1>2. ASSUME NEW b, pending' = Append(pending, b) PROVE Arriving(m)'
  <2>1. /\ Len(pending) \in Nat /\ Len(pending') = Len(pending) + 1
        /\ \A n \in 1 .. Len(pending) : pending'[n] = pending[n]
    BY <1>2 DEF QueueInv
  <2>2. ASSUME NEW n \in 1 .. Len(pending), pending[n] = <<m>>, fresh \/ ProofAhead(n)
        PROVE  Arriving(m)'
    <3>1. n \in 1 .. Len(pending') /\ pending'[n] = <<m>>
      BY <2>1, <2>2
    <3>2. \A k \in 1 .. n - 1 : pending'[k] = pending[k]
      BY <2>1
    <3>3. (fresh \/ ProofAhead(n))'
      BY <2>2, <3>2 DEF ProofAhead
    <3> QED BY <3>1, <3>3 DEF Arriving
  <2> QED BY <2>2 DEF Arriving
<1> QED BY <1>1, <1>2

\* Replay brings an appointment onto the chain, or the proof that it waits for.
LEMMA ReplayArrives ==
  ASSUME IInv, Replay, root # None, NEW c \in Comms, NEW u \in Users, Arriving(build_plan(c, u))
  PROVE  Arriving(build_plan(c, u))'
<1> DEFINE m == build_plan(c, u)
           h == Head(block)
<1>0. /\ h \in Messages /\ h = block[1] /\ Len(block) \in Nat \ {0} /\ Len(block') = Len(block) - 1
      /\ \A n \in 1 .. Len(block) - 1 : block'[n] = block[n + 1]
  BY HeadOfBlock DEF IInv, Replay
<1>1. att \subseteq att' /\ (fresh => fresh') /\ UNCHANGED pending
  BY DEF Replay, Apply, chain
<1>2. h.kind = "dnssec" => fresh'
  BY <1>0, ProofAdmitted DEF IInv, Replay, Apply
<1>3. (block = <<m>> /\ fresh) => m.val \in att'
  <2>1. m.kind = "attestation"
    BY DEF build_plan, Msg
  <2>2. block = <<m>> => h = m
    OBVIOUS
  <2>3. fresh => Admitted(m, fresh)
    BY AppointmentAdmitted DEF IInv
  <2> HIDE DEF m
  <2> QED BY <2>1, <2>2, <2>3 DEF Replay, Apply
<1> HIDE DEF m
<1>4. ASSUME NEW n, ProofAhead(n) PROVE (fresh \/ ProofAhead(n))'
  <2>1. ASSUME NEW k \in 1 .. Len(block), block[k].kind = "dnssec" PROVE (fresh \/ ProofAhead(n))'
    <3>1. CASE k = 1
      BY <1>0, <1>2, <2>1, <3>1
    <3>2. CASE k # 1
      <4>1. k - 1 \in 1 .. Len(block') /\ k - 1 \in 1 .. Len(block) - 1 /\ (k - 1) + 1 = k
        BY <1>0, <3>2
      <4>2. block'[k - 1] = block[k]
        BY <1>0, <4>1
      <4> QED BY <2>1, <4>1, <4>2 DEF ProofAhead
    <3> QED BY <3>1, <3>2
  <2> QED BY <1>1, <1>4, <2>1 DEF ProofAhead
<1>5. Arriving(m)'
  BY <1>1, <1>3, <1>4 DEF Arriving, m
<1> QED BY <1>5 DEF m

\* The block that starts is the oldest batch.
LEMMA StartArrives ==
  ASSUME QueueInv, block = <<>>, StartBlock, NEW m, Arriving(m)
  PROVE  Arriving(m)'
<1>0. /\ Len(pending) \in Nat \ {0} /\ Len(pending') = Len(pending) - 1 /\ block' = pending[1]
      /\ \A n \in 1 .. Len(pending) - 1 : pending'[n] = pending[n + 1]
  <2>1. pending \in Seq(Batches) /\ pending # <<>> /\ Len(pending) \in Nat \ {0}
    BY EmptySeq DEF QueueInv, StartBlock
  <2> QED BY <2>1, HeadTailProperties DEF StartBlock
<1>1. UNCHANGED <<att, fresh>>
  BY DEF StartBlock, chain
<1>2. CASE m.val \in att
  BY <1>1, <1>2 DEF Arriving
<1>3. block # <<m>>
  OBVIOUS
<1>4. ASSUME NEW n \in 1 .. Len(pending), pending[n] = <<m>>, fresh \/ ProofAhead(n)
      PROVE  Arriving(m)'
  <2>1. fresh \/ \E k \in 1 .. n - 1 : pending[k][1].kind = "dnssec"
    <3>1. ~ \E k \in 1 .. Len(block) : block[k].kind = "dnssec"
      <4>1. Len(block) = 0
        OBVIOUS
      <4> QED BY <4>1
    <3> QED BY <1>4, <3>1 DEF ProofAhead
  <2>2. CASE n = 1
    BY <1>0, <1>1, <1>4, <2>1, <2>2 DEF Arriving
  <2>3. CASE n # 1
    <3>1. n - 1 \in 1 .. Len(pending') /\ n - 1 \in 1 .. Len(pending) - 1 /\ (n - 1) + 1 = n
      BY <1>0, <2>3
    <3>2. pending'[n - 1] = <<m>>
      BY <1>0, <1>4, <3>1
    <3>3. ASSUME NEW k \in 1 .. n - 1, pending[k][1].kind = "dnssec" PROVE ProofAhead(n - 1)'
      <4>1. CASE k = 1
        <5>1. pending[1] \in Seq(Messages) /\ pending[1] # <<>>
          BY <1>0, ElementOfSeq DEF QueueInv, Batches
        <5>2. 1 \in 1 .. Len(block') /\ block'[1].kind = "dnssec"
          BY <1>0, <3>3, <4>1, <5>1
        <5> QED BY <5>2 DEF ProofAhead
      <4>2. CASE k # 1
        <5>1. k - 1 \in 1 .. (n - 1) - 1 /\ k - 1 \in 1 .. Len(pending) - 1 /\ (k - 1) + 1 = k
          BY <1>0, <4>2
        <5>2. pending'[k - 1] = pending[k]
          BY <1>0, <5>1
        <5> QED BY <3>3, <5>1, <5>2 DEF ProofAhead
      <4> QED BY <4>1, <4>2
    <3>4. (fresh \/ ProofAhead(n - 1))'
      BY <1>1, <2>1, <3>3
    <3> QED BY <3>1, <3>2, <3>4 DEF Arriving
  <2> QED BY <2>2, <2>3
<1> QED BY <1>2, <1>3, <1>4 DEF Arriving

\* Every step keeps what was reported on its way, unless it loses it.
LEMMA AppointNext == IInv /\ AppointInv /\ [Next]_vars => AppointInv'
<1> SUFFICES ASSUME IInv, AppointInv, [Next]_vars PROVE AppointInv'
  OBVIOUS
<1>0. QueueInv /\ ToolInv
  BY DEF IInv
<1>1. CASE UNCHANGED vars
  BY <1>1 DEF vars, chain, history, AppointInv, Arriving, ProofAhead
<1>2. CASE Replay
  <2>1. appointed' = appointed /\ lost' = lost
    BY <1>2 DEF Replay, history
  <2>2. root # None => root' # None
    <3>1. Head(block) \in Messages
      BY <1>2, HeadOfBlock DEF IInv, Replay
    <3>2. Head(block).kind = "root" => Head(block).val # None
      BY <3>1, PolicyAssumption DEF Messages, Sound, HubPolicies
    <3> QED BY <1>2, <3>2 DEF Replay, Apply, chain
  <2>3. ASSUME NEW x \in appointed, ~lost PROVE Arriving(build_plan(x[1], x[2]))'
    BY <1>2, <2>3, ReplayArrives DEF AppointInv
  <2> QED BY <2>1, <2>2, <2>3 DEF AppointInv
<1>3. CASE block = <<>> /\ AppointSubmit
  <2>1. UNCHANGED <<chain, block, lost>>
    BY <1>3 DEF AppointSubmit
  <2>2. root' # None
    BY <1>3, <2>1, Governed DEF chain
  <2>3. PICK c \in Comms, u \in Users : c = appoint.c /\ u = appoint.subject
    BY <1>0, <1>3 DEF AppointSubmit, ToolInv
  <2>4. ASSUME NEW x \in appointed, ~lost PROVE Arriving(build_plan(x[1], x[2]))'
    <3>1. UNCHANGED pending \/ \E b : pending' = Append(pending, b)
      BY <1>3 DEF AppointSubmit, Taken
    <3> QED BY <1>0, <2>1, <2>4, <3>1, ArrivingKept DEF AppointInv, chain
  <2>5. CASE appointed' = appointed
    BY <2>1, <2>2, <2>4, <2>5 DEF AppointInv
  <2>6. CASE appointed' = appointed \cup {<<c, u>>} /\ Taken(<<build_plan(c, u)>>)
    <3> DEFINE m == build_plan(c, u)
    <3>1. fresh \/ ProofPending
      <4>1. m.by \in Issuers
        BY <2>3, CommunitiesAssumption DEF build_plan, Msg
      <4>2. PICK proven \in {fresh, fresh \/ ProofPending} : \A n \in DOMAIN <<m>> : Admitted(<<m>>[n], proven)
        BY <2>6 DEF Taken
      <4>3. Admitted(m, proven)
        <5>1. 1 \in DOMAIN <<m>> /\ <<m>>[1] = m
          OBVIOUS
        <5> QED BY <4>2, <5>1
      <4>4. proven
        BY <1>3, <4>1, <4>3, Governed DEF Admitted
      <4> QED BY <4>2, <4>4
    <3>2. PICK n \in Nat :
            /\ n = Len(pending) /\ DOMAIN pending = 1 .. n
            /\ Len(pending') = n + 1 /\ pending'[n + 1] = <<m>>
            /\ \A k \in 1 .. n : pending'[k] = pending[k]
      <4> HIDE DEF m
      <4> QED BY <1>0, <2>6 DEF QueueInv, Taken, m
    <3> HIDE DEF m
    <3>3. (fresh \/ ProofAhead(n + 1))'
      <4>1. ASSUME NEW k \in DOMAIN pending, pending[k][1].kind = "dnssec"
            PROVE  k \in 1 .. (n + 1) - 1 /\ pending'[k][1].kind = "dnssec"
        BY <3>2, <4>1
      <4> QED BY <2>1, <3>1, <4>1 DEF ProofAhead, ProofPending, chain
    <3>4. Arriving(m)'
      <4>1. n + 1 \in 1 .. Len(pending')
        BY <3>2
      <4> QED BY <3>2, <3>3, <4>1 DEF Arriving
    <3>5. <<c, u>>[1] = c /\ <<c, u>>[2] = u
      OBVIOUS
    <3>6. \A x \in appointed' : x \in appointed \/ x = <<c, u>>
      BY <2>6
    <3>7. appointed' \subseteq Comms \X Users
      BY <2>3, <2>6 DEF AppointInv
    <3>8. ~lost => \A x \in appointed' : Arriving(build_plan(x[1], x[2]))'
      BY <2>4, <3>4, <3>5, <3>6 DEF m
    <3> QED BY <2>1, <2>2, <3>7, <3>8 DEF AppointInv
  <2> QED BY <1>3, <2>3, <2>5, <2>6 DEF AppointSubmit
<1>4. CASE block = <<>> /\ Drop
  BY <1>4 DEF Drop, chain, AppointInv
<1>5. CASE block = <<>> /\ Lapse
  <2>1. CASE pending = <<>>
    <3>1. \A m : Arriving(m) => m.val \in att
      BY <1>5, <2>1 DEF Arriving
    <3> QED BY <1>5, <3>1 DEF Lapse, AppointInv, Arriving
  <2>2. CASE pending # <<>>
    BY <1>5, <2>2 DEF Lapse, AppointInv
  <2> QED BY <2>1, <2>2
<1>6. CASE block = <<>> /\ StartBlock
  <2>1. ASSUME NEW x \in appointed, ~lost PROVE Arriving(build_plan(x[1], x[2]))'
    BY <1>0, <1>6, <2>1, StartArrives DEF AppointInv
  <2> QED BY <1>6, <2>1 DEF StartBlock, chain, history, AppointInv
<1>7. CASE /\ UNCHANGED <<chain, block, lost, appointed>>
           /\ UNCHANGED pending \/ \E b : pending' = Append(pending, b)
  <2>1. ASSUME NEW x \in appointed, ~lost PROVE Arriving(build_plan(x[1], x[2]))'
    BY <1>0, <1>7, <2>1, ArrivingKept DEF AppointInv, chain
  <2> QED BY <1>7, <2>1 DEF AppointInv, chain
<1>8. CASE block = <<>> /\ Request
  <2>1. ASSUME NEW o \in Operators, Begin(o) \/ Clear(o) \/ Cleared(o) \/ GiveUp(o) \/ Write(o) PROVE AppointInv'
    BY <1>7, <2>1 DEF Begin, Clear, Cleared, GiveUp, Write, submit, Taken, history
  <2>2. ASSUME NEW c \in Comms, NEW i \in Issuers, OpenCommunity(c, i) PROVE AppointInv'
    BY <1>7, <2>2 DEF OpenCommunity, Taken
  <2>3. ASSUME NEW c \in Comms, NEW u \in Users, AppointBegin(c, u) PROVE AppointInv'
    BY <1>7, <2>3 DEF AppointBegin, history
  <2>4. CASE AppointRefresh \/ AppointProvision
    BY <1>7, <2>4 DEF AppointRefresh, AppointProvision, submit, Taken, history
  <2>5. ASSUME NEW m \in UserMessages, ClientWrite(m) PROVE AppointInv'
    BY <1>7, <2>5 DEF ClientWrite, Taken, history
  <2> QED BY <1>3, <1>4, <1>5, <1>6, <1>8, <2>1, <2>2, <2>3, <2>4, <2>5 DEF Request
<1> QED BY <1>1, <1>2, <1>8 DEF Next

\* An appointment that was reported and not lost is in force once all is synced:
\* the subject can delete content under the open policy of the community.
THEOREM AppointSafe == Spec => []AppointedCanModerate
<1>1. Init => AppointInv
  BY DEF Init, AppointInv
<1>2. IInv /\ AppointInv => AppointedCanModerate
  <2> SUFFICES ASSUME IInv, AppointInv, NEW x \in appointed, Quiet, ~lost,
                      pol[x[1]] = community_policy_open(x[1], IssuerAt[x[1]]), post[x[1]] # None,
                      ~Banned(pol[x[1]], x[2])
               PROVE  Admitted(Msg(x[2], "delete", "post", x[1], None), TRUE)
    BY DEF AppointedCanModerate
  <2> DEFINE c == x[1]
             u == x[2]
             i == IssuerAt[c]
             p == community_policy_open(c, i)
             m == Msg(u, "delete", "post", c, None)
  <2>1. c \in Comms /\ u \in Users /\ i \in Issuers
    BY CommunitiesAssumption DEF AppointInv
  <2>2. Attestation(Moderator(c), i, u) \in att
    <3>1. Arriving(build_plan(c, u))
      BY DEF AppointInv
    <3>2. build_plan(c, u).val = Attestation(Moderator(c), i, u)
      BY DEF build_plan, Msg
    <3> QED BY <3>1, <3>2 DEF Quiet, Arriving
  <2>3. m.act = "delete" /\ m.kind = "post" /\ m.c = c /\ m.by = u
    BY DEF Msg
  <2>4. /\ p.roles = [member |-> {Attested(Membership(c), Anyone)}, moderator |-> {Attested(Moderator(c), i)},
                      sys |-> {Keyed(Sys)}]
        /\ Grant("moderator", {"delete"}, "spaces") \in p.grants
    BY DEF community_policy_open
  <2>5. p \notin {None, Ghost}
    BY <2>1, PolicyAssumption
  <2>6. pol[c] = p /\ ~Banned(p, u) /\ post[c] # None
    OBVIOUS
  <2> HIDE DEF m, p, i, c, u
  <2>7. Present(m) /\ RightFor(m) = "delete" /\ m.kind \in InSpaces
    BY <2>3, <2>6 DEF Present, RightFor, Governing, InSpaces
  <2>8. Governor(m) = p /\ Governor(m) # Ghost
    BY <2>3, <2>5, <2>6, <2>7 DEF Governor
  <2>9. Granted(p, m)
    <3> DEFINE g == Grant("moderator", {"delete"}, "spaces")
    <3>1. g.to = "moderator" /\ g.can = {"delete"} /\ g.on = "spaces"
      BY DEF Grant
    <3>2. Holds(Attested(Moderator(c), i), u)
      BY <2>2 DEF Holds, Attested, Attestation
    <3>3. Grantee(p, "moderator", m)
      BY <2>3, <2>4, <3>2 DEF Grantee
    <3> QED BY <2>3, <2>4, <2>6, <2>7, <3>1, <3>3 DEF Granted, Covers
  <2>10. Admitted(m, TRUE)
    BY <2>3, <2>7, <2>8, <2>9 DEF Admitted
  <2> QED BY <2>10 DEF m, c, u
<1>3. IInv /\ AppointInv /\ [Next]_vars => (IInv /\ AppointInv)'
  BY NextInv, AppointNext
<1> QED BY InitInv, <1>1, <1>2, <1>3, PTL DEF Spec

\* The chain, what is on its way to it, the tools and what they report keep their
\* types: the batches in flight and the rest of the block that is replayed hold
\* messages that their authors may write and no others, a creation or an appointment
\* under way has its arguments, and what is reported names a community and a user.
THEOREM TypeCorrect == Spec => []TypeOK
<1>1. Init => AppointInv
  BY DEF Init, AppointInv
<1>2. IInv /\ AppointInv => TypeOK
  <2> SUFFICES ASSUME IInv, AppointInv PROVE TypeOK
    OBVIOUS
  <2>1. captured \subseteq Comms
    BY DEF IInv, ChainInv
  <2>2. \A o \in Operators : at[o] # "idle" => args[o] # None
    BY ArgumentsAssumption DEF IInv, ToolInv, Checked
  <2>3. appoint.at # "idle" => appoint.c # None /\ appoint.subject # None
    BY CommunitiesAssumption DEF IInv, ToolInv
  <2> QED BY <2>1, <2>2, <2>3 DEF IInv, ChainInv, QueueInv, ToolInv, AppointInv, TypeOK
<1>3. IInv /\ AppointInv /\ [Next]_vars => (IInv /\ AppointInv)'
  BY NextInv, AppointNext
<1> QED BY InitInv, <1>1, <1>2, <1>3, PTL DEF Spec

-----------------------------------------------------------------------------
(* The life of a community: its creations and clearings in the queue.      *)

\* The batches that concern a community, and what is left of them in a block.
Creates(b, c) == \E a \in Checked : a.c = c /\ b = CreateBatch(a)
Clears(b, c) == b = <<signed_delete("policy", c), signed_delete("community", c)>>
Rest(b, a) ==
  /\ Len(b) \in Nat \ {0}
  /\ \A n \in 1 .. Len(b) - 1 : \E s \in Segments : b[n] = collection_config(a.c, s)
  /\ b[Len(b)] = Msg(Sys, "post", "policy", a.c, PolicyOf(a))
RestOf(b, c) == \E a \in Checked : a.c = c /\ Rest(b, a)
Removes(b, c) == b = <<signed_delete("community", c)>>
Concerns(b, c) == Creates(b, c) \/ Clears(b, c) \/ RestOf(b, c) \/ Removes(b, c)

\* The others: one message, and a policy only if it reopens a community.
Plain(b, open) ==
  \E m \in Messages : b = <<m>> /\ m.kind \notin {"community", "config"} /\ (m.kind = "policy" => m.c \in open)

\* The order of creations and clearings in the queue.
NoCreate(c) == \A n \in 1 .. Len(pending) : ~Creates(pending[n], c)
NoClear(c) == \A n \in 1 .. Len(pending) : ~Clears(pending[n], c)
CreateFirst(c) == \A k \in 1 .. Len(pending) : \A j \in 1 .. k - 1 : Clears(pending[j], c) => ~Creates(pending[k], c)
ClearFirst(c) == \A k \in 1 .. Len(pending) : \A j \in 1 .. k - 1 : Creates(pending[j], c) => ~Clears(pending[k], c)
CreateOnce(c) == \A k \in 1 .. Len(pending) : \A j \in 1 .. k - 1 : Creates(pending[j], c) => ~Creates(pending[k], c)

Whole(c) == pol[c] = PolicyOf(desc[c]) /\ Range(desc[c].spaces) \subseteq cfg[c]

\* A community is in force, absent, or its deleted policy still bars it.
InForce(c) ==
  desc[c] # None /\ pol[c] \in Policies /\ CreateFirst(c) /\ (~overlapped => Whole(c) /\ NoCreate(c))
Absent(c) == desc[c] = None /\ pol[c] = None /\ ClearFirst(c) /\ (~overlapped => CreateOnce(c))
Barred(c) == desc[c] = None /\ pol[c] = Ghost /\ NoCreate(c)
Settled(c) == InForce(c) \/ Absent(c) \/ Barred(c)

\* Halfway through its creation.
Rising(a) ==
  /\ desc[a.c] = a /\ pol[a.c] = None /\ NoClear(a.c) /\ (~overlapped => NoCreate(a.c))
  /\ \A s \in Range(a.spaces) : s \in cfg[a.c] \/ Awaited(collection_config(a.c, s))

\* Where a community stands, by what is left of the block.
Standing(c) ==
  \/ /\ block = <<>> \/ Plain(block, reopened) \/ \E d \in Comms \ {c} : Concerns(block, d)
     /\ Settled(c)
  \/ /\ Creates(block, c)
     /\ \/ InForce(c) /\ overlapped
        \/ Absent(c) /\ NoClear(c) /\ (~overlapped => NoCreate(c))
  \/ \E a \in Checked : a.c = c /\ Rest(block, a) /\ ((InForce(c) /\ overlapped) \/ Rising(a))
  \/ Clears(block, c) /\ ((InForce(c) /\ NoCreate(c)) \/ Absent(c) \/ Barred(c))
  \/ /\ Removes(block, c)
     /\ \/ pol[c] = None /\ ClearFirst(c) /\ (~overlapped => CreateOnce(c))
        \/ pol[c] = Ghost /\ NoCreate(c)

\* With sys retired, nothing is left to change but removals.
Kept(c) == (~overlapped /\ desc[c] # None /\ pol[c] \notin {None, Ghost}) => Whole(c)

\* In genesis mode a descriptor is followed by its policy.
Founding(c) == Msg(Sys, "post", "policy", c, community_policy_open(c, IssuerAt[c]))
StartingInv ==
  root = None =>
    /\ pending = <<>>
    /\ \A c \in Comms :
         \/ desc[c] = None /\ pol[c] = None
         \/ /\ desc[c] = GenesisArgs(c) /\ c \in Range(GenesisComms)
            /\ pol[c] = community_policy_open(c, IssuerAt[c]) \/ (pol[c] = None /\ block[1] = Founding(c))
    /\ \A n \in 1 .. Len(block) :
         /\ block[n].kind = "community" =>
              /\ block[n].c \in Range(GenesisComms) /\ block[n].val = GenesisArgs(block[n].c)
              /\ n < Len(block) /\ block[n + 1] = Founding(block[n].c)
         /\ block[n].kind = "policy" =>
              /\ block[n] = Founding(block[n].c)
              /\ IF n = 1 THEN desc[block[n].c] # None
                 ELSE block[n - 1].kind = "community" /\ block[n - 1].c = block[n].c

Queued(b, open) == Plain(b, open) \/ \E c \in Comms : Creates(b, c) \/ Clears(b, c)
StandingInv ==
  root # None => \A c \in Comms \ reopened : IF IsAdmin(Sys) THEN Standing(c) ELSE Kept(c)

LifeInv == StandingInv /\ \A n \in 1 .. Len(pending) : Queued(pending[n], reopened)

\* A sequence between two more elements.
LEMMA Framed ==
  ASSUME NEW S, NEW x \in S, NEW y \in S, NEW t \in Seq(S)
  PROVE  /\ Len((<<x>> \o t) \o <<y>>) = Len(t) + 2
         /\ ((<<x>> \o t) \o <<y>>)[1] = x /\ ((<<x>> \o t) \o <<y>>)[Len(t) + 2] = y
         /\ \A n \in 2 .. Len(t) + 1 : ((<<x>> \o t) \o <<y>>)[n] = t[n - 1]
         /\ (<<x>> \o t) \o <<y>> \in Seq(S)
<1> DEFINE first == <<x>>
           last == <<y>>
           q == first \o t
           b == q \o last
<1>1. first \in Seq(S) /\ Len(first) = 1 /\ first[1] = x /\ last \in Seq(S) /\ Len(last) = 1 /\ last[1] = y
  OBVIOUS
<1>2. Len(t) \in Nat
  OBVIOUS
<1> HIDE DEF first, last
<1>3. /\ q \in Seq(S) /\ Len(q) = Len(first) + Len(t)
      /\ \A n \in 1 .. Len(first) + Len(t) : q[n] = IF n <= Len(first) THEN first[n] ELSE t[n - Len(first)]
  BY <1>1, ConcatProperties
<1> HIDE DEF q
<1>4. /\ b \in Seq(S) /\ Len(b) = Len(q) + Len(last)
      /\ \A n \in 1 .. Len(q) + Len(last) : b[n] = IF n <= Len(q) THEN q[n] ELSE last[n - Len(q)]
  <2>1. q \in Seq(S) /\ last \in Seq(S)
    BY <1>1, <1>3
  <2> QED BY <2>1, ConcatProperties
<1> HIDE DEF b
<1>5. Len(q) = Len(t) + 1 /\ Len(b) = Len(t) + 2
  BY <1>1, <1>2, <1>3, <1>4
<1>6. b[1] = x
  BY <1>1, <1>2, <1>3, <1>4, <1>5
<1>7. b[Len(t) + 2] = y
  BY <1>1, <1>2, <1>4, <1>5
<1>8. \A n \in 2 .. Len(t) + 1 : b[n] = t[n - 1]
  BY <1>1, <1>2, <1>3, <1>4, <1>5
<1> QED BY <1>4, <1>5, <1>6, <1>7, <1>8 DEF b, q, first, last

\* The batch of a creation: descriptor, configs, policy.
LEMMA CreateShape ==
  ASSUME NEW a \in Arguments
  PROVE  /\ Len(CreateBatch(a)) \in Nat /\ Len(CreateBatch(a)) >= 2
         /\ DOMAIN CreateBatch(a) = 1 .. Len(CreateBatch(a))
         /\ CreateBatch(a)[1] = community(a)
         /\ CreateBatch(a)[Len(CreateBatch(a))] = Msg(Sys, "post", "policy", a.c, PolicyOf(a))
         /\ \A n \in 2 .. Len(CreateBatch(a)) - 1 :
              \E s \in Range(a.spaces) : CreateBatch(a)[n] = collection_config(a.c, s)
         /\ \A s \in Range(a.spaces) :
              \E n \in 2 .. Len(CreateBatch(a)) - 1 : CreateBatch(a)[n] = collection_config(a.c, s)
<1> DEFINE configs == [n \in DOMAIN a.spaces |-> collection_config(a.c, a.spaces[n])]
           policy == Msg(Sys, "post", "policy", a.c, PolicyOf(a))
           S == {community(a), policy} \cup {collection_config(a.c, s) : s \in Range(a.spaces)}
           k == Len(a.spaces)
           b == (<<community(a)>> \o configs) \o <<policy>>
<1>1. a.spaces \in Seq(STRING)
  BY CommunitiesAssumption DEF Arguments
<1>2. k \in Nat /\ DOMAIN a.spaces = 1 .. k
  BY <1>1
<1>3. Range(a.spaces) = {a.spaces[n] : n \in 1 .. k}
  BY <1>2 DEF Range
<1>4. /\ configs \in Seq(S) /\ Len(configs) = k
      /\ \A n \in 1 .. k : configs[n] = collection_config(a.c, a.spaces[n])
  <2>1. configs \in [1 .. k -> S]
    BY <1>2, <1>3
  <2> QED BY <1>2, <2>1, SeqDef
<1>5. community(a) \in S /\ policy \in S
  OBVIOUS
<1>6. CreateBatch(a) = b
  BY DEF CreateBatch
<1> HIDE DEF configs, policy, S, k
<1>7. /\ Len(b) = k + 2 /\ b[1] = community(a) /\ b[k + 2] = policy /\ b \in Seq(S)
      /\ \A n \in 2 .. k + 1 : b[n] = configs[n - 1]
  BY <1>4, <1>5, Framed
<1> HIDE DEF b
<1>8. DOMAIN b = 1 .. Len(b) /\ Len(b) \in Nat /\ Len(b) >= 2 /\ Len(b) - 1 = k + 1
  BY <1>2, <1>7
<1>9. ASSUME NEW n \in 2 .. k + 1 PROVE \E s \in Range(a.spaces) : b[n] = collection_config(a.c, s)
  <2>1. n - 1 \in 1 .. k
    BY <1>2
  <2>2. b[n] = collection_config(a.c, a.spaces[n - 1])
    BY <1>4, <1>7, <2>1
  <2> QED BY <1>3, <2>1, <2>2
<1>10. ASSUME NEW s \in Range(a.spaces) PROVE \E n \in 2 .. k + 1 : b[n] = collection_config(a.c, s)
  <2>1. PICK n \in 1 .. k : s = a.spaces[n]
    BY <1>3
  <2>2. n + 1 \in 2 .. k + 1 /\ (n + 1) - 1 = n
    BY <1>2
  <2>3. b[n + 1] = configs[n]
    BY <1>7, <2>2
  <2> QED BY <1>4, <2>1, <2>2, <2>3
<1> QED BY <1>6, <1>7, <1>8, <1>9, <1>10 DEF policy

\* The batches of a community are told apart by their first messages.
LEMMA CreatesShape ==
  ASSUME NEW b, NEW c, Creates(b, c)
  PROVE  b[1].kind = "community" /\ b[1].act = "post" /\ b[1].c = c /\ Len(b) \in Nat /\ Len(b) >= 2
<1>1. PICK a \in Checked : a.c = c /\ b = CreateBatch(a)
  BY DEF Creates
<1>2. a \in Arguments
  BY DEF Checked
<1>3. b[1] = community(a) /\ Len(b) \in Nat /\ Len(b) >= 2
  BY <1>1, <1>2, CreateShape
<1> QED BY <1>1, <1>3 DEF community, Msg

LEMMA ClearsShape ==
  ASSUME NEW b, NEW c, Clears(b, c)
  PROVE  b[1].kind = "policy" /\ b[1].act = "delete" /\ b[1].c = c /\ Len(b) = 2
BY DEF Clears, signed_delete, Msg

LEMMA RestShape ==
  ASSUME NEW b, NEW a, Rest(b, a)
  PROVE  b[1].kind \in {"config", "policy"} /\ b[1].act = "post" /\ b[1].c = a.c
<1>1. CASE Len(b) = 1
  BY <1>1 DEF Rest, Msg
<1>2. CASE Len(b) # 1
  <2>1. 1 \in 1 .. Len(b) - 1
    <3>1. Len(b) \in Nat \ {0}
      BY DEF Rest
    <3>2. \A L \in Nat \ {0} : L = 1 \/ 1 \in 1 .. L - 1
      OBVIOUS
    <3> QED BY <1>2, <3>1, <3>2
  <2>2. PICK s \in Segments : b[1] = collection_config(a.c, s)
    BY <2>1 DEF Rest
  <2> QED BY <2>2 DEF collection_config, Msg
<1> QED BY <1>1, <1>2

LEMMA Shapes ==
  ASSUME NEW b, NEW c
  PROVE  /\ Creates(b, c) => b[1].kind = "community" /\ b[1].act = "post" /\ b[1].c = c /\ b # <<>>
         /\ Clears(b, c) => b[1].kind = "policy" /\ b[1].act = "delete" /\ b[1].c = c /\ b # <<>>
         /\ Removes(b, c) => b[1].kind = "community" /\ b[1].act = "delete" /\ b[1].c = c /\ b # <<>>
         /\ \A a \in Checked : Rest(b, a) => b[1].kind \in {"config", "policy"} /\ b[1].act = "post" /\ b[1].c = a.c /\ b # <<>>
         /\ \A open : Plain(b, open) => /\ b[1].kind \notin {"community", "config"} /\ (b[1].kind = "policy" => b[1].c \in open)
                                          /\ b # <<>>
<1>0. Len(<<>>) = 0
  OBVIOUS
<1>1. Creates(b, c) => b[1].kind = "community" /\ b[1].act = "post" /\ b[1].c = c /\ b # <<>>
  BY <1>0, CreatesShape
<1>2. Clears(b, c) => b[1].kind = "policy" /\ b[1].act = "delete" /\ b[1].c = c /\ b # <<>>
  BY <1>0, ClearsShape
<1>3. Removes(b, c) => b[1].kind = "community" /\ b[1].act = "delete" /\ b[1].c = c /\ b # <<>>
  BY DEF Removes, signed_delete, Msg
<1>4. \A a \in Checked : Rest(b, a) => b[1].kind \in {"config", "policy"} /\ b[1].act = "post" /\ b[1].c = a.c /\ b # <<>>
  <2>1. \A a \in Checked : Rest(b, a) => b # <<>>
    BY <1>0 DEF Rest
  <2> QED BY <2>1, RestShape
<1>5. \A open : Plain(b, open) => /\ b[1].kind \notin {"community", "config"} /\ (b[1].kind = "policy" => b[1].c \in open)
                                    /\ b # <<>>
  BY DEF Plain
<1> QED BY <1>1, <1>2, <1>3, <1>4, <1>5

\* The orders survive when the head of the queue leaves it.
LEMMA TailKept ==
  ASSUME NEW c, Len(pending) \in Nat, Len(pending') = Len(pending) - 1,
         \A n \in 1 .. Len(pending') : pending'[n] = pending[n + 1],
         UNCHANGED <<desc, pol, cfg, overlapped>>
  PROVE  /\ InForce(c) => InForce(c)'
         /\ Absent(c) => Absent(c)'
         /\ Barred(c) => Barred(c)'
<1> DEFINE L == Len(pending)
           K == Len(pending')
<1>1. L \in Nat /\ K = L - 1
  OBVIOUS
<1>2. \A n \in 1 .. K : n + 1 \in 1 .. L /\ \A j \in 1 .. n - 1 : j \in 1 .. K /\ j + 1 \in 1 .. (n + 1) - 1
  <2> HIDE DEF L, K
  <2> QED BY <1>1
<1>3. \A n \in 1 .. K : pending'[n] = pending[n + 1]
  OBVIOUS
<1>4. NoCreate(c) => NoCreate(c)'
  BY <1>2, <1>3 DEF NoCreate
<1>5. CreateFirst(c) => CreateFirst(c)'
  BY <1>2, <1>3 DEF CreateFirst
<1>6. ClearFirst(c) => ClearFirst(c)'
  BY <1>2, <1>3 DEF ClearFirst
<1>7. CreateOnce(c) => CreateOnce(c)'
  BY <1>2, <1>3 DEF CreateOnce
<1> QED BY <1>4, <1>5, <1>6, <1>7 DEF InForce, Absent, Barred, Whole

\* They survive a batch that concerns no creation or clearing of the community,
\* a creation of one that is absent, and a clearing of one in force.
LEMMA AppendKept ==
  ASSUME NEW c, NEW b \in Batches, pending \in Seq(Batches), pending' = Append(pending, b),
         UNCHANGED <<desc, pol, cfg>>, ~overlapped' => ~overlapped, Settled(c),
         Creates(b, c) => Absent(c) /\ (~overlapped' => NoCreate(c)),
         Clears(b, c) => InForce(c)
  PROVE  Settled(c)'
<1> DEFINE L == Len(pending)
<1>1. /\ L \in Nat /\ Len(pending') = L + 1 /\ pending'[L + 1] = b
      /\ \A n \in 1 .. L : pending'[n] = pending[n]
  BY AppendProperties
<1> HIDE DEF L
<1>2. \A n \in 1 .. L + 1 : n \in 1 .. L \/ n = L + 1
  BY <1>1
<1>3. \A n \in 1 .. L + 1 : \A j \in 1 .. n - 1 : j \in 1 .. L
  BY <1>1
<1>5. ~(Creates(b, c) /\ Clears(b, c))
  BY Shapes
<1>6. CASE InForce(c)
  <2>1. ~Creates(b, c)
    BY <1>6 DEF InForce, Absent
  <2>2. CreateFirst(c)'
    <3>1. \A k \in 1 .. L : \A j \in 1 .. k - 1 : Clears(pending[j], c) => ~Creates(pending[k], c)
      BY <1>6 DEF InForce, CreateFirst, L
    <3> QED BY <1>1, <1>2, <1>3, <2>1, <3>1 DEF CreateFirst
  <2>3. NoCreate(c) => NoCreate(c)'
    BY <1>1, <1>2, <2>1 DEF NoCreate, L
  <2> QED BY <1>6, <2>2, <2>3 DEF InForce, Whole, Settled
<1>7. CASE Absent(c)
  <2>1. ~Clears(b, c)
    BY <1>7 DEF InForce, Absent
  <2>2. ClearFirst(c)'
    <3>1. \A k \in 1 .. L : \A j \in 1 .. k - 1 : Creates(pending[j], c) => ~Clears(pending[k], c)
      BY <1>7 DEF Absent, ClearFirst, L
    <3> QED BY <1>1, <1>2, <1>3, <2>1, <3>1 DEF ClearFirst
  <2>3. ASSUME ~overlapped' PROVE CreateOnce(c)'
    <3>1. \A k \in 1 .. L : \A j \in 1 .. k - 1 : Creates(pending[j], c) => ~Creates(pending[k], c)
      BY <1>7, <2>3 DEF Absent, CreateOnce, L
    <3>2. Creates(b, c) => \A j \in 1 .. L : ~Creates(pending[j], c)
      BY <2>3 DEF NoCreate, L
    <3> QED BY <1>1, <1>2, <1>3, <3>1, <3>2 DEF CreateOnce
  <2> QED BY <1>7, <2>2, <2>3 DEF Absent, Settled
<1>8. CASE Barred(c)
  <2>1. ~Creates(b, c)
    <3>1. None # Ghost
      BY CommunitiesAssumption
    <3> QED BY <1>8, <3>1 DEF Absent, Barred
  <2> QED BY <1>1, <1>2, <1>8, <2>1 DEF Barred, NoCreate, L, Settled
<1> QED BY <1>6, <1>7, <1>8 DEF Settled

\* Nothing sys writes where the root policy governs is refused, while it is admin.
LEMMA AdminMay ==
  ASSUME ChainInv, root # None, IsAdmin(Sys), NEW m, NEW proven,
         m.by = Sys, m.kind \in {"policy", "community", "config"}, m.act = "post" \/ Present(m),
         Governor(m) = root
  PROVE  Admitted(m, proven)
<1>1. PICK admins \in SUBSET {Sys, Successor} : root = hub_policy(admins)
  BY DEF ChainInv, HubPolicies
<1>2. root.roles = [admin |-> {Keyed(k) : k \in admins}]
  BY <1>1 DEF hub_policy
<1>3. Sys \in admins
  BY <1>2 DEF IsAdmin, Keyed
<1>4. Holds(Keyed(Sys), m.by)
  BY CommunitiesAssumption DEF Holds, Keyed
<1>5. Grantee(root, "admin", m)
  BY <1>2, <1>3, <1>4 DEF Grantee
<1> DEFINE g == Grant("admin", POST \cup {"transfer", "delete", "govern"}, "all")
<1>6. g \in root.grants /\ g.to = "admin" /\ g.can = POST \cup {"transfer", "delete", "govern"} /\ g.on = "all"
  BY <1>1 DEF hub_policy, Grant
<1>7. RightFor(m) \in POST \cup {"transfer", "delete", "govern"}
  BY DEF RightFor, POST
<1>8. ~Banned(root, m.by)
  BY CommunitiesAssumption DEF Banned, ChainInv, Attestations
<1>9. Granted(root, m)
  <2>1. RightFor(m) \in g.can /\ Covers(g.on, m) /\ Grantee(root, g.to, m)
    BY <1>5, <1>6, <1>7 DEF Covers
  <2> QED BY <1>6, <1>8, <2>1 DEF Granted
<1>10. root # Ghost
  BY <1>1, PolicyAssumption
<1> QED BY <1>9, <1>10, CommunitiesAssumption DEF Admitted

\* A community with a policy, in force or deleted, takes no descriptor.
LEMMA NoDescriptor ==
  ASSUME ChainInv, root # None, NEW m \in Messages, m.kind = "community", m.act = "post", NEW proven,
         Admitted(m, proven)
  PROVE  pol[m.c] = None
<1> SUFFICES ASSUME pol[m.c] # None PROVE FALSE
  OBVIOUS
<1>1. m.c \in Comms /\ att \subseteq Attestations
  BY DEF Messages, Sound, ChainInv
<1>2. pol[m.c] # Ghost /\ Granted(pol[m.c], m)
  BY DEF Admitted, Governor
<1>3. PICK i \in Issuers : pol[m.c] = community_policy(m.c, i) \/ pol[m.c] = community_policy_open(m.c, i)
  BY <1>1, <1>2 DEF ChainInv, PoliciesFor
<1>4. RightFor(m) \in POST /\ m.kind \notin InSpaces
  BY Rights DEF Governing, InSpaces
<1> QED BY <1>1, <1>2, <1>3, <1>4, ClosedGrants, OpenGrants DEF POST

-----------------------------------------------------------------------------
(* Between blocks.                                                         *)

\* Between blocks a community is settled.
LEMMA SettledBetween ==
  ASSUME NEW c, block = <<>>, Standing(c)
  PROVE  Settled(c)
<1>1. ~Creates(block, c) /\ ~Clears(block, c) /\ ~Removes(block, c) /\ \A a \in Checked : ~Rest(block, a)
  BY Shapes
<1> QED BY <1>1 DEF Standing

\* Settled communities stand where they are.
LEMMA StandsBetween ==
  ASSUME NEW c, block' = <<>>, Settled(c)'
  PROVE  Standing(c)'
BY DEF Standing

\* Where a community stands, its policy is in force as its descriptor says.
LEMMA StandingKept ==
  ASSUME NEW c, Standing(c)
  PROVE  Kept(c)
BY DEF Standing, Settled, InForce, Absent, Barred, Rising, Kept

\* What waits in the queue stays what it is when communities are reopened.
LEMMA QueuedKept == \A b : Queued(b, reopened) /\ reopened \subseteq reopened' => Queued(b, reopened')
BY DEF Queued, Plain

\* A step that leaves the chain, the queue and the block alone.
LEMMA IdleLife ==
  ASSUME LifeInv, UNCHANGED <<root, desc, pol, cfg, pending, block>>, reopened \subseteq reopened',
         ~overlapped' => ~overlapped, block = <<>>
  PROVE  LifeInv'
<1>1. \A n \in 1 .. Len(pending') : Queued(pending'[n], reopened')
  BY QueuedKept DEF LifeInv
<1>2. ASSUME NEW c \in Comms \ reopened', root' # None, IsAdmin(Sys)' PROVE Standing(c)'
  <2>1. Standing(c)
    BY <1>2 DEF LifeInv, StandingInv, IsAdmin
  <2>2. Settled(c)
    BY <2>1, SettledBetween
  <2>3. Settled(c)'
    BY <2>2 DEF Settled, InForce, Absent, Barred, Whole, CreateFirst, ClearFirst, CreateOnce, NoCreate
  <2> QED BY <2>3, StandsBetween
<1>3. ASSUME NEW c \in Comms \ reopened', root' # None, ~IsAdmin(Sys)' PROVE Kept(c)'
  <2>1. Kept(c)
    BY <1>3 DEF LifeInv, StandingInv, IsAdmin
  <2> QED BY <2>1 DEF Kept, Whole
<1> QED BY <1>1, <1>2, <1>3 DEF LifeInv, StandingInv

\* A step that takes a batch.
LEMMA TakenLife ==
  ASSUME LifeInv, QueueInv, UNCHANGED <<root, desc, pol, cfg, block>>, reopened \subseteq reopened',
         ~overlapped' => ~overlapped, block = <<>>,
         NEW b \in Batches, Taken(b), Queued(b, reopened'),
         \A c \in Comms \ reopened : IsAdmin(Sys) /\ Settled(c) =>
           /\ Creates(b, c) => Absent(c) /\ (~overlapped' => NoCreate(c))
           /\ Clears(b, c) => InForce(c)
  PROVE  LifeInv'
<1>1. \A n \in 1 .. Len(pending') : Queued(pending'[n], reopened')
  <2>1. /\ Len(pending') = Len(pending) + 1 /\ pending'[Len(pending) + 1] = b /\ Len(pending) \in Nat
        /\ \A n \in 1 .. Len(pending) : pending'[n] = pending[n]
    BY AppendProperties DEF Taken, QueueInv
  <2>2. \A n \in 1 .. Len(pending') : n \in 1 .. Len(pending) \/ n = Len(pending) + 1
    BY <2>1
  <2>3. \A n \in 1 .. Len(pending) : Queued(pending[n], reopened')
    BY QueuedKept DEF LifeInv
  <2> QED BY <2>1, <2>2, <2>3
<1>2. ASSUME NEW c \in Comms \ reopened', root' # None, IsAdmin(Sys)' PROVE Standing(c)'
  <2>1. Standing(c) /\ IsAdmin(Sys)
    BY <1>2 DEF LifeInv, StandingInv, IsAdmin
  <2>2. Settled(c)
    BY <2>1, SettledBetween
  <2>3. pending' = Append(pending, b) /\ pending \in Seq(Batches)
    BY DEF Taken, QueueInv
  <2>4. Settled(c)'
    BY <2>1, <2>2, <2>3, AppendKept
  <2> QED BY <2>4, StandsBetween
<1>3. ASSUME NEW c \in Comms \ reopened', root' # None, ~IsAdmin(Sys)' PROVE Kept(c)'
  <2>1. Kept(c)
    BY <1>3 DEF LifeInv, StandingInv, IsAdmin
  <2> QED BY <2>1 DEF Kept, Whole
<1> QED BY <1>1, <1>2, <1>3 DEF LifeInv, StandingInv

\* A message that is no creation, clearing or config.
LEMMA PlainLife ==
  ASSUME LifeInv, QueueInv, UNCHANGED <<root, desc, pol, cfg, block>>, reopened \subseteq reopened',
         ~overlapped' => ~overlapped, block = <<>>,
         NEW m \in Messages, Taken(<<m>>), m.kind \notin {"community", "config"},
         m.kind = "policy" => m.c \in reopened' /\ m.act = "post"
  PROVE  LifeInv'
<1> DEFINE b == <<m>>
<1>1. b \in Batches /\ b[1] = m
  BY OneMessage
<1>2. Queued(b, reopened')
  BY DEF Queued, Plain
<1>3. \A c : ~Creates(b, c) /\ ~Clears(b, c)
  BY <1>1, Shapes
<1> HIDE DEF b
<1>4. Taken(b)
  BY DEF b
<1> QED BY <1>1, <1>2, <1>3, <1>4, TakenLife

\* A policy is told from the marks of no policy and of a deleted one.
LEMMA PolicyMarks == None \notin Policies /\ Ghost \notin Policies
<1>1. ASSUME NEW c \in Comms, NEW i \in Issuers
      PROVE  /\ community_policy(c, i) \notin {None, Ghost}
             /\ community_policy_open(c, i) \notin {None, Ghost}
  BY PolicyAssumption
<1> QED BY <1>1 DEF Policies

\* The replacement of a community: what it clears is in force, what it creates is
\* absent, and without an overlap it is the only creation on its way.
LEMMA CreateLife ==
  ASSUME IInv, LifeInv, block = <<>>, NEW o \in Operators,
         Begin(o) \/ Clear(o) \/ Cleared(o) \/ GiveUp(o) \/ Write(o)
  PROVE  LifeInv'
<1>0. QueueInv /\ ChainInv /\ root # None /\ (at[o] \in {"clear", "wait", "write"} => args[o] \in Checked)
  BY Governed DEF IInv, ToolInv
<1>1. UNCHANGED <<root, desc, pol, cfg, block>> /\ UNCHANGED reopened /\ (~overlapped' => ~overlapped)
  <2>1. UNCHANGED chain /\ UNCHANGED block /\ UNCHANGED reopened
    BY DEF Begin, Clear, Cleared, GiveUp, Write, history
  <2>2. Begin(o) \/ Clear(o) \/ Cleared(o) \/ GiveUp(o) => UNCHANGED overlapped
    BY DEF Begin, Clear, Cleared, GiveUp, history
  <2>3. Write(o) /\ ~overlapped' => ~overlapped
    BY DEF Write
  <2> QED BY <2>1, <2>2, <2>3 DEF chain
<1>2. CASE UNCHANGED pending
  BY <1>1, <1>2, IdleLife
<1>3. CASE Clear(o) /\ Taken(ClearBatch(args[o]))
  <2>1. PICK a \in Checked : a = args[o]
    BY <1>0, <1>3 DEF Clear
  <2> DEFINE b == ClearBatch(a)
             m == signed_delete("policy", a.c)
  <2>2. a.c \in Comms /\ Clears(b, a.c) /\ b \in Batches /\ Taken(b)
    BY <1>3, <2>1, CreateBatches DEF Clears, ClearBatch, Checked, Arguments
  <2>3. 1 \in DOMAIN b /\ b[1] = m
    BY DEF ClearBatch
  <2>4. PICK proven : Admitted(m, proven)
    BY <2>2, <2>3 DEF Taken
  <2>5. pol[a.c] \notin {None, Ghost}
    BY <2>4 DEF Admitted, Present, signed_delete, Msg
  <2>6. Queued(b, reopened')
    BY <2>2 DEF Queued
  <2>7. ASSUME NEW c, Settled(c) PROVE ~Creates(b, c) /\ (Clears(b, c) => InForce(c))
    <3>1. ~Creates(b, c) /\ (Clears(b, c) => c = a.c)
      BY <2>2, Shapes
    <3>2. c = a.c => InForce(c)
      BY <2>5, <2>7 DEF Settled, Absent, Barred
    <3> QED BY <3>1, <3>2
  <2> HIDE DEF b
  <2> QED BY <1>0, <1>1, <2>2, <2>6, <2>7, TakenLife
<1>4. CASE Write(o) /\ Taken(CreateBatch(args[o]))
  <2>1. PICK a \in Checked : a = args[o]
    BY <1>0, <1>4 DEF Write
  <2> DEFINE b == CreateBatch(a)
             m == community(a)
  <2>2. a.c \in Comms /\ a \in Arguments /\ Creates(b, a.c) /\ b \in Batches /\ Taken(b)
    BY <1>4, <2>1, CreateBatches DEF Creates, Checked, Arguments
  <2>3. 1 \in DOMAIN b /\ b[1] = m
    BY <2>2, CreateShape
  <2>4. PICK proven : Admitted(m, proven)
    BY <2>2, <2>3 DEF Taken
  <2>5. pol[a.c] = None
    <3>1. m \in Messages /\ m.kind = "community" /\ m.act = "post" /\ m.c = a.c
      BY CreateMessages DEF community, Msg
    <3> QED BY <1>0, <2>4, <3>1, NoDescriptor
  <2>6. Queued(b, reopened')
    BY <2>2 DEF Queued
  <2>7. ASSUME NEW c, ~overlapped' PROVE NoCreate(c)
    <3>1. ~InCreation
      BY <1>4, <2>7 DEF Write
    <3> SUFFICES ASSUME NEW n \in 1 .. Len(pending), Creates(pending[n], c) PROVE InCreation
      BY <3>1 DEF NoCreate
    <3>2. PICK d \in Arguments : pending[n] = CreateBatch(d)
      BY DEF Creates, Checked
    <3>3. Len(CreateBatch(d)) \in DOMAIN CreateBatch(d)
          /\ CreateBatch(d)[Len(CreateBatch(d))] = Msg(Sys, "post", "policy", d.c, PolicyOf(d))
      <4>1. \A L \in Nat : L >= 2 => L \in 1 .. L
        OBVIOUS
      <4> QED BY <4>1, CreateShape
    <3>4. CreateBatch(d) \in Range(pending)
      BY <1>0, <3>2 DEF Range, QueueInv
    <3> QED BY <3>3, <3>4 DEF InCreation, Msg
  <2>8. ASSUME NEW c, Settled(c)
        PROVE  (Creates(b, c) => Absent(c) /\ (~overlapped' => NoCreate(c))) /\ ~Clears(b, c)
    <3>1. ~Clears(b, c) /\ (Creates(b, c) => c = a.c)
      BY <2>2, Shapes
    <3>2. c = a.c => Absent(c)
      <4>1. None # Ghost /\ None \notin Policies
        BY CommunitiesAssumption, PolicyMarks
      <4> QED BY <2>5, <2>8, <4>1 DEF Settled, InForce, Barred
    <3> QED BY <2>7, <3>1, <3>2
  <2> HIDE DEF b
  <2> QED BY <1>0, <1>1, <2>2, <2>6, <2>8, TakenLife
<1> QED BY <1>2, <1>3, <1>4 DEF Begin, Clear, Cleared, GiveUp, Write, submit

\* Nothing else that is written creates or clears a community.
LEMMA WriteLife ==
  ASSUME IInv, LifeInv, block = <<>>,
         \/ \E c \in Comms, i \in Issuers : OpenCommunity(c, i)
         \/ \E c \in Comms, u \in Users : AppointBegin(c, u)
         \/ AppointRefresh \/ AppointProvision \/ AppointSubmit
         \/ \E m \in UserMessages : ClientWrite(m)
  PROVE  LifeInv'
<1>0. QueueInv
  BY DEF IInv
<1>1. UNCHANGED <<root, desc, pol, cfg, block>> /\ reopened \subseteq reopened' /\ UNCHANGED overlapped
  BY DEF OpenCommunity, AppointBegin, AppointRefresh, AppointProvision, AppointSubmit, ClientWrite, chain, history
<1>2. CASE UNCHANGED pending
  BY <1>1, <1>2, IdleLife
<1>3. ASSUME NEW c \in Comms, NEW i \in Issuers, OpenCommunity(c, i) PROVE LifeInv'
  <2> DEFINE m == Msg(Sys, "post", "policy", c, community_policy_open(c, i))
  <2>1. m \in Messages /\ m.kind = "policy" /\ m.act = "post" /\ m.c = c
    BY OtherMessages DEF Msg
  <2>2. Taken(<<m>>) /\ m.c \in reopened'
    BY <1>3, <2>1 DEF OpenCommunity
  <2> HIDE DEF m
  <2> QED BY <1>0, <1>1, <2>1, <2>2, PlainLife
<1>4. ASSUME NEW m \in {Proof} \cup UserMessages, Taken(<<m>>) PROVE LifeInv'
  <2>1. m \in Messages /\ m.kind \notin {"community", "config", "policy"}
    BY OtherMessages DEF UserMessages, RootMessage, Proof, Msg
  <2> QED BY <1>0, <1>1, <1>4, <2>1, PlainLife
<1>5. ASSUME AppointSubmit PROVE LifeInv'
  <2>1. CASE Taken(<<build_plan(appoint.c, appoint.subject)>>)
    <3>1. PICK c \in Comms, u \in Users : c = appoint.c /\ u = appoint.subject
      BY <1>5 DEF AppointSubmit, IInv, ToolInv
    <3>2. build_plan(c, u) \in Messages /\ build_plan(c, u).kind = "attestation"
      BY OtherMessages DEF build_plan, Msg
    <3> QED BY <1>0, <1>1, <2>1, <3>1, <3>2, PlainLife
  <2> QED BY <1>2, <1>5, <2>1 DEF AppointSubmit
<1> QED BY <1>2, <1>3, <1>4, <1>5 DEF AppointBegin, AppointRefresh, AppointProvision, ClientWrite, submit

\* The next block, and the batch that is in none.
LEMMA DaemonLife ==
  ASSUME IInv, LifeInv, block = <<>>, StartBlock \/ Drop \/ Lapse
  PROVE  LifeInv'
<1>1. UNCHANGED <<root, desc, pol, cfg, overlapped, reopened>>
  BY DEF StartBlock, Drop, Lapse, chain, history
<1>2. CASE Lapse
  BY <1>1, <1>2, IdleLife DEF Lapse
<1>3. CASE StartBlock \/ Drop
  <2>1. pending # <<>> /\ pending' = Tail(pending) /\ (block' = Head(pending) \/ block' = <<>>)
    BY <1>3 DEF StartBlock, Drop
  <2>2. /\ Len(pending) \in Nat \ {0} /\ Len(pending') = Len(pending) - 1 /\ Head(pending) = pending[1]
        /\ \A n \in 1 .. Len(pending') : pending'[n] = pending[n + 1]
    BY <2>1, HeadTailProperties, EmptySeq DEF IInv, QueueInv
  <2>3. /\ 1 \in 1 .. Len(pending) /\ \A n \in 1 .. Len(pending') : n + 1 \in 1 .. Len(pending)
        /\ \A n \in 1 .. Len(pending') : 1 \in 1 .. (n + 1) - 1
    BY <2>2
  <2>4. \A n \in 1 .. Len(pending') : Queued(pending'[n], reopened')
    BY <1>1, <2>2, <2>3 DEF LifeInv
  <2>5. Queued(pending[1], reopened)
    BY <2>3 DEF LifeInv
  <2>6. ASSUME NEW c \in Comms \ reopened, Standing(c) PROVE Standing(c)'
    <3>1. Settled(c)
      BY <2>6, SettledBetween
    <3>2. /\ InForce(c) => InForce(c)'
          /\ Absent(c) => Absent(c)'
          /\ Barred(c) => Barred(c)'
      BY <1>1, <2>2, TailKept
    <3>3. Settled(c)'
      BY <3>1, <3>2 DEF Settled
    <3>4. CASE block' = <<>> \/ Plain(block', reopened') \/ \E d \in Comms \ {c} : Concerns(block', d)
      BY <3>3, <3>4 DEF Standing
    <3>5. CASE Creates(block', c) /\ block' = pending[1]
      <4>1. InForce(c) => overlapped
        BY <2>3, <3>5 DEF InForce, NoCreate
      <4>2. Absent(c) => NoClear(c)' /\ (~overlapped => NoCreate(c)')
        <5>1. Absent(c) => NoClear(c)'
          BY <2>2, <2>3, <3>5 DEF Absent, ClearFirst, NoClear
        <5>2. Absent(c) /\ ~overlapped => NoCreate(c)'
          BY <2>2, <2>3, <3>5 DEF Absent, CreateOnce, NoCreate
        <5> QED BY <5>1, <5>2
      <4>3. ~Barred(c)
        BY <2>3, <3>5 DEF Barred, NoCreate
      <4> QED BY <1>1, <3>1, <3>2, <3>5, <4>1, <4>2, <4>3 DEF Standing, Settled
    <3>6. CASE Clears(block', c) /\ block' = pending[1]
      <4>1. InForce(c) => NoCreate(c)'
        BY <2>2, <2>3, <3>6 DEF InForce, CreateFirst, NoCreate
      <4> QED BY <3>1, <3>2, <3>6, <4>1 DEF Standing, Settled
    <3>7. block' = <<>> \/ Plain(block', reopened') \/ \E d \in Comms : Creates(block', d) \/ Clears(block', d)
      BY <1>1, <2>1, <2>2, <2>5 DEF Queued
    <3> QED BY <2>1, <2>2, <3>4, <3>5, <3>6, <3>7 DEF Concerns
  <2>7. IsAdmin(Sys)' <=> IsAdmin(Sys)
    BY <1>1 DEF IsAdmin
  <2>8. ASSUME NEW c PROVE Kept(c) => Kept(c)'
    BY <1>1 DEF Kept, Whole
  <2> QED BY <1>1, <2>4, <2>6, <2>7, <2>8 DEF LifeInv, StandingInv
<1> QED BY <1>2, <1>3

-----------------------------------------------------------------------------
(* A block that concerns a community.                                      *)

\* What is left of a block after its first message.
LEMMA TailOf ==
  ASSUME NEW b \in Seq(Messages), b # <<>>
  PROVE  /\ Len(b) \in Nat \ {0} /\ Tail(b) \in Seq(Messages) /\ Len(Tail(b)) = Len(b) - 1
         /\ \A n \in 1 .. Len(b) - 1 : Tail(b)[n] = b[n + 1]
         /\ Len(b) = 1 => Tail(b) = <<>>
<1>1. Len(b) \in Nat \ {0}
  BY EmptySeq
<1>2. Tail(b) \in Seq(Messages) /\ Len(Tail(b)) = Len(b) - 1 /\ \A n \in 1 .. Len(b) - 1 : Tail(b)[n] = b[n + 1]
  BY <1>1, HeadTailProperties
<1>3. Len(b) = 1 => Tail(b) = <<>>
  <2>1. Len(b) = 1 => Len(Tail(b)) = 0
    BY <1>2
  <2> QED BY <1>2, <2>1, EmptySeq
<1> QED BY <1>1, <1>2, <1>3

\* After the descriptor, the configs and the policy are left.
LEMMA CreateTail ==
  ASSUME NEW a \in Checked, CreateBatch(a) \in Seq(Messages)
  PROVE  /\ Rest(Tail(CreateBatch(a)), a)
         /\ \A s \in Range(a.spaces) : \E n \in 1 .. Len(Tail(CreateBatch(a))) :
              Tail(CreateBatch(a))[n] = collection_config(a.c, s)
<1>0. a \in Arguments /\ Range(a.spaces) \subseteq Segments
  BY DEF Checked
<1> DEFINE b == CreateBatch(a)
           t == Tail(b)
           policy == Msg(Sys, "post", "policy", a.c, PolicyOf(a))
<1>1. /\ Len(b) \in Nat /\ Len(b) >= 2 /\ b[Len(b)] = policy
      /\ \A n \in 2 .. Len(b) - 1 : \E s \in Range(a.spaces) : b[n] = collection_config(a.c, s)
      /\ \A s \in Range(a.spaces) : \E n \in 2 .. Len(b) - 1 : b[n] = collection_config(a.c, s)
  BY <1>0, CreateShape
<1>2. b # <<>>
  <2>1. Len(<<>>) = 0
    OBVIOUS
  <2> QED BY <1>1, <2>1
<1>3. Len(t) = Len(b) - 1 /\ \A n \in 1 .. Len(b) - 1 : t[n] = b[n + 1]
  BY <1>2, TailOf
<1> HIDE DEF b, t, policy
<1>4. Len(t) \in Nat \ {0} /\ Len(t) + 1 = Len(b)
  BY <1>1, <1>3
<1>5. t[Len(t)] = policy
  <2>1. Len(t) \in 1 .. Len(b) - 1
    BY <1>3, <1>4
  <2> QED BY <1>1, <1>3, <1>4, <2>1
<1>6. \A n \in 1 .. Len(t) - 1 : n + 1 \in 2 .. Len(b) - 1 /\ n \in 1 .. Len(b) - 1
  BY <1>3, <1>4
<1>7. \A n \in 2 .. Len(b) - 1 : n - 1 \in 1 .. Len(t) /\ n - 1 \in 1 .. Len(b) - 1 /\ (n - 1) + 1 = n
  BY <1>3, <1>4
<1>8. ASSUME NEW n \in 1 .. Len(t) - 1 PROVE \E s \in Segments : t[n] = collection_config(a.c, s)
  <2>1. t[n] = b[n + 1]
    BY <1>3, <1>6
  <2>2. PICK s \in Range(a.spaces) : b[n + 1] = collection_config(a.c, s)
    BY <1>1, <1>6
  <2> QED BY <1>0, <2>1, <2>2
<1>9. ASSUME NEW s \in Range(a.spaces) PROVE \E n \in 1 .. Len(t) : t[n] = collection_config(a.c, s)
  <2>1. PICK n \in 2 .. Len(b) - 1 : b[n] = collection_config(a.c, s)
    BY <1>1
  <2>2. t[n - 1] = b[n]
    BY <1>3, <1>7
  <2> QED BY <1>7, <2>1, <2>2
<1> QED BY <1>4, <1>5, <1>8, <1>9 DEF Rest, b, t, policy

\* A config is followed by the rest; the policy is the last.
LEMMA RestTail ==
  ASSUME NEW b \in Seq(Messages), NEW a, Rest(b, a)
  PROVE  \/ Tail(b) = <<>> /\ b[1] = Msg(Sys, "post", "policy", a.c, PolicyOf(a)) /\ Len(b) = 1
         \/ Rest(Tail(b), a) /\ \E s \in Segments : b[1] = collection_config(a.c, s)
<1> DEFINE t == Tail(b)
           L == Len(b)
           policy == Msg(Sys, "post", "policy", a.c, PolicyOf(a))
<1>0. Len(<<>>) = 0
  OBVIOUS
<1>1. L \in Nat \ {0} /\ b # <<>>
  BY <1>0 DEF Rest
<1>2. Len(t) = L - 1 /\ \A n \in 1 .. L - 1 : t[n] = b[n + 1]
  BY <1>1, TailOf
<1>3. b[L] = policy /\ \A n \in 1 .. L - 1 : \E s \in Segments : b[n] = collection_config(a.c, s)
  BY DEF Rest
<1>4. CASE L = 1
  BY <1>1, <1>3, <1>4, TailOf
<1>5. CASE L # 1
  <2> HIDE DEF t, L, policy
  <2>1. 1 \in 1 .. L - 1 /\ Len(t) \in Nat \ {0} /\ Len(t) \in 1 .. L - 1 /\ Len(t) + 1 = L
    BY <1>1, <1>2, <1>5
  <2>2. t[Len(t)] = policy
    BY <1>2, <1>3, <2>1
  <2>3. \A n \in 1 .. Len(t) - 1 : n \in 1 .. L - 1 /\ n + 1 \in 1 .. L - 1
    BY <1>1, <1>2, <2>1
  <2>4. \A n \in 1 .. Len(t) - 1 : \E s \in Segments : t[n] = collection_config(a.c, s)
    BY <1>2, <1>3, <2>3
  <2>5. Rest(t, a)
    BY <2>1, <2>2, <2>4 DEF Rest, policy
  <2> QED BY <1>3, <2>1, <2>5 DEF t
<1> QED BY <1>4, <1>5

\* After the policy, the descriptor is left to remove.
LEMMA ClearTail ==
  ASSUME NEW b, NEW c, Clears(b, c)
  PROVE  Removes(Tail(b), c) /\ b[1] = signed_delete("policy", c)
BY DEF Clears, Removes

LEMMA RemoveTail ==
  ASSUME NEW b, NEW c, Removes(b, c)
  PROVE  Tail(b) = <<>> /\ b[1] = signed_delete("community", c)
BY DEF Removes

\* What is left of a block concerns the same community.
LEMMA ConcernsTail ==
  ASSUME NEW b \in Seq(Messages), NEW d, Concerns(b, d)
  PROVE  Tail(b) = <<>> \/ Concerns(Tail(b), d)
<1>1. ASSUME NEW a \in Checked, a.c = d, b = CreateBatch(a) PROVE RestOf(Tail(b), d)
  BY <1>1, CreateTail DEF RestOf
<1>2. ASSUME NEW a \in Checked, a.c = d, Rest(b, a) PROVE Tail(b) = <<>> \/ RestOf(Tail(b), d)
  BY <1>2, RestTail DEF RestOf
<1>3. Creates(b, d) => Concerns(Tail(b), d)
  BY <1>1 DEF Creates, Concerns
<1>4. RestOf(b, d) => Tail(b) = <<>> \/ Concerns(Tail(b), d)
  BY <1>2 DEF RestOf, Concerns
<1>5. Clears(b, d) => Concerns(Tail(b), d)
  BY ClearTail DEF Concerns
<1>6. Removes(b, d) => Tail(b) = <<>>
  BY RemoveTail
<1> QED BY <1>3, <1>4, <1>5, <1>6 DEF Concerns

\* The first message of such a block is about the community.
LEMMA ConcernsHead ==
  ASSUME NEW b, NEW d, Concerns(b, d)
  PROVE  b[1].c = d /\ b[1].kind \in {"community", "config", "policy"} /\ b # <<>>
BY Shapes DEF Concerns, RestOf

\* A community that a message does not concern stays as it is.
LEMMA Elsewhere ==
  ASSUME IInv, Replay, NEW c \in Comms, block[1].kind \in {"community", "config", "policy"} => block[1].c # c
  PROVE  desc'[c] = desc[c] /\ pol'[c] = pol[c] /\ cfg'[c] = cfg[c]
<1> DEFINE m == block[1]
<1>0. m \in Messages /\ Head(block) = m
  BY HeadOfBlock DEF IInv, Replay
<1>1. Apply(m) \/ UNCHANGED chain
  BY <1>0 DEF Replay
<1>2. CASE UNCHANGED chain
  BY <1>2 DEF chain
<1>3. CASE Apply(m)
  <2>1. /\ m.kind # "community" => desc' = desc
        /\ m.kind # "config" => cfg' = cfg
        /\ m.kind # "policy" => pol' = pol
    BY <1>3 DEF Apply
  <2>2. ASSUME m.kind \in {"community", "config", "policy"}
        PROVE  desc'[c] = desc[c] /\ pol'[c] = pol[c] /\ cfg'[c] = cfg[c]
    <3>1. m.c \in Comms /\ m.c # c
      BY <1>0, <2>2 DEF Messages, Sound
    <3>2. m.kind = "community" => desc'[c] = desc[c]
      BY <1>3, <3>1 DEF Apply, IInv, ChainInv
    <3>3. m.kind = "config" => cfg'[c] = cfg[c]
      BY <1>3, <3>1 DEF Apply, IInv, ChainInv
    <3>4. m.kind = "policy" => pol'[c] = pol[c]
      <4>1. m.kind = "policy" => \E p : pol' = [pol EXCEPT ![m.c] = p]
        BY <1>3 DEF Apply
      <4> QED BY <3>1, <4>1 DEF IInv, ChainInv
    <3> QED BY <2>1, <3>2, <3>3, <3>4
  <2> QED BY <2>1, <2>2
<1> QED BY <1>1, <1>2, <1>3

\* Where a community stands depends on itself and the queue.
LEMMA SameKept ==
  ASSUME NEW c, UNCHANGED <<pending, overlapped>>
  PROVE  /\ NoCreate(c)' <=> NoCreate(c)
         /\ NoClear(c)' <=> NoClear(c)
         /\ CreateFirst(c)' <=> CreateFirst(c)
         /\ ClearFirst(c)' <=> ClearFirst(c)
         /\ CreateOnce(c)' <=> CreateOnce(c)
         /\ (desc'[c] = desc[c] /\ pol'[c] = pol[c] /\ cfg'[c] = cfg[c]) =>
              /\ InForce(c) => InForce(c)'
              /\ Absent(c) => Absent(c)'
              /\ Barred(c) => Barred(c)'
<1>1. NoCreate(c)' <=> NoCreate(c)
  BY DEF NoCreate
<1>2. NoClear(c)' <=> NoClear(c)
  BY DEF NoClear
<1>3. CreateFirst(c)' <=> CreateFirst(c)
  BY DEF CreateFirst
<1>4. ClearFirst(c)' <=> ClearFirst(c)
  BY DEF ClearFirst
<1>5. CreateOnce(c)' <=> CreateOnce(c)
  BY DEF CreateOnce
<1> QED BY <1>1, <1>2, <1>3, <1>4, <1>5 DEF InForce, Absent, Barred, Whole

\* A block of another community, or of none.
LEMMA ReplayOther ==
  ASSUME IInv, Replay, NEW c \in Comms \ reopened, Settled(c),
         Plain(block, reopened) \/ \E d \in Comms \ {c} : Concerns(block, d)
  PROVE  Standing(c)'
<1>0. UNCHANGED <<pending, overlapped, reopened>> /\ block' = Tail(block) /\ block \in Seq(Messages) /\ block # <<>>
  BY DEF Replay, history, IInv, QueueInv
<1>1. block[1].kind \in {"community", "config", "policy"} => block[1].c # c
  <2>1. Plain(block, reopened) => (block[1].kind \in {"community", "config", "policy"} => block[1].c # c)
    BY DEF Plain
  <2> QED BY <2>1, ConcernsHead
<1>2. Settled(c)'
  BY <1>0, <1>1, Elsewhere, SameKept DEF Settled
<1>3. Plain(block, reopened) => block' = <<>>
  BY <1>0 DEF Plain
<1>4. ASSUME NEW d \in Comms \ {c}, Concerns(block, d) PROVE block' = <<>> \/ Concerns(block', d)
  BY <1>0, <1>4, ConcernsTail
<1> QED BY <1>2, <1>3, <1>4 DEF Standing

\* The descriptor of a creation.
LEMMA ReplayCreates ==
  ASSUME IInv, root # None, IsAdmin(Sys), Replay, NEW c \in Comms, Creates(block, c),
         \/ InForce(c) /\ overlapped
         \/ Absent(c) /\ NoClear(c) /\ (~overlapped => NoCreate(c))
  PROVE  Standing(c)'
<1>0. /\ UNCHANGED <<pending, overlapped, reopened>> /\ block' = Tail(block) /\ block \in Seq(Messages)
      /\ Head(block) = block[1]
  BY HeadOfBlock DEF Replay, history, IInv, QueueInv
<1>1. PICK a \in Checked : a.c = c /\ block = CreateBatch(a)
  BY DEF Creates
<1>2. block[1] = community(a) /\ a \in Arguments /\ a # None
  BY <1>1, CreateShape, ArgumentsAssumption DEF Checked
<1> DEFINE m == community(a)
<1>3. m.by = Sys /\ m.act = "post" /\ m.kind = "community" /\ m.c = c /\ m.val = a
  BY <1>1 DEF community, Msg
<1> HIDE DEF m
<1>4. /\ Rest(block', a)
      /\ \A s \in Range(a.spaces) : \E n \in 1 .. Len(block') : block'[n] = collection_config(c, s)
  BY <1>0, <1>1, CreateTail
<1>5. Apply(m) => desc'[c] = a /\ pol'[c] = pol[c] /\ cfg'[c] = cfg[c]
  BY <1>3 DEF Apply, IInv, ChainInv
<1>6. Apply(m) \/ (UNCHANGED chain /\ ~Admitted(m, fresh))
  BY <1>0, <1>2 DEF Replay, m
<1>7. CASE InForce(c) /\ overlapped
  <2>1. desc'[c] # None /\ pol'[c] = pol[c]
    BY <1>2, <1>5, <1>6, <1>7 DEF chain, InForce
  <2>2. InForce(c)' /\ overlapped'
    BY <1>0, <1>7, <2>1, SameKept DEF InForce
  <2> QED BY <1>1, <1>4, <2>2 DEF Standing
<1>8. CASE Absent(c) /\ NoClear(c) /\ (~overlapped => NoCreate(c))
  <2>1. Governor(m) = root
    BY <1>3, <1>8 DEF Absent, Governor
  <2>2. Apply(m)
    BY <1>3, <1>6, <2>1, AdminMay DEF IInv
  <2>3. Rising(a)'
    BY <1>0, <1>1, <1>4, <1>5, <1>8, <2>2, SameKept DEF Rising, Absent, Awaited
  <2> QED BY <1>1, <1>4, <2>3 DEF Standing
<1> QED BY <1>7, <1>8

\* The configs and the policy of a creation.
LEMMA ReplayRest ==
  ASSUME IInv, root # None, IsAdmin(Sys), Replay, NEW c \in Comms, NEW a \in Checked, a.c = c, Rest(block, a),
         (InForce(c) /\ overlapped) \/ Rising(a)
  PROVE  Standing(c)'
<1>0. /\ UNCHANGED <<pending, overlapped, reopened>> /\ block' = Tail(block) /\ block \in Seq(Messages)
      /\ Head(block) = block[1] /\ Len(block) \in Nat \ {0} /\ Len(block') = Len(block) - 1
      /\ \A n \in 1 .. Len(block) - 1 : block'[n] = block[n + 1]
  BY HeadOfBlock DEF Replay, history, IInv, QueueInv
<1> DEFINE m == block[1]
<1>1. Apply(m) \/ (UNCHANGED chain /\ ~Admitted(m, fresh))
  BY <1>0 DEF Replay
<1>2. a \in Arguments /\ a # None
  BY ArgumentsAssumption DEF Checked
<1>3. \/ block' = <<>> /\ m = Msg(Sys, "post", "policy", c, PolicyOf(a)) /\ Len(block) = 1
      \/ Rest(block', a) /\ \E s \in Segments : m = collection_config(c, s)
  BY <1>0, RestTail
<1>4. Rising(a) /\ m.by = Sys /\ m.act = "post" /\ m.kind \in {"config", "policy"} /\ m.c = c => Apply(m)
  <2>1. ASSUME Rising(a), m.by = Sys, m.act = "post", m.kind \in {"config", "policy"}, m.c = c PROVE Apply(m)
    <3>1. Governor(m) = root
      BY <2>1 DEF Rising, Governor, InSpaces
    <3>2. Admitted(m, fresh)
      BY <2>1, <3>1, AdminMay DEF IInv
    <3> QED BY <1>1, <3>2
  <2> QED BY <2>1
<1>5. ASSUME NEW s \in Segments, m = collection_config(c, s), Rest(block', a) PROVE Standing(c)'
  <2>1. m.by = Sys /\ m.act = "post" /\ m.kind = "config" /\ m.c = c /\ m.val = s
    BY <1>5 DEF collection_config, Msg
  <2> HIDE DEF m
  <2>2. Apply(m) => desc' = desc /\ pol' = pol /\ cfg'[c] = cfg[c] \cup {s}
    BY <2>1 DEF Apply, IInv, ChainInv
  <2>3. CASE InForce(c) /\ overlapped
    <3>1. desc'[c] = desc[c] /\ pol'[c] = pol[c]
      BY <1>1, <2>2 DEF chain
    <3>2. InForce(c)' /\ overlapped'
      BY <1>0, <2>3, <3>1, SameKept DEF InForce
    <3> QED BY <1>5, <3>2 DEF Standing
  <2>4. CASE Rising(a)
    <3>1. desc' = desc /\ pol' = pol /\ cfg'[c] = cfg[c] \cup {s}
      BY <1>4, <2>1, <2>2, <2>4
    <3>2. ASSUME NEW x \in Range(a.spaces)
          PROVE  x \in cfg'[c] \/ \E n \in 1 .. Len(block') : block'[n] = collection_config(c, x)
      <4>1. x \in cfg[c] \/ \E n \in 1 .. Len(block) : block[n] = collection_config(c, x)
        BY <2>4 DEF Rising, Awaited
      <4>2. ASSUME NEW n \in 1 .. Len(block), block[n] = collection_config(c, x)
            PROVE  x \in cfg'[c] \/ \E k \in 1 .. Len(block') : block'[k] = collection_config(c, x)
        <5>1. CASE n = 1
          <6>1. x = s
            BY <1>5, <4>2, <5>1 DEF collection_config, Msg, m
          <6> QED BY <3>1, <6>1
        <5>2. CASE n # 1
          <6>1. n - 1 \in 1 .. Len(block') /\ n - 1 \in 1 .. Len(block) - 1 /\ (n - 1) + 1 = n
            BY <1>0, <5>2
          <6> QED BY <1>0, <4>2, <6>1
        <5> QED BY <5>1, <5>2
      <4> QED BY <3>1, <4>1, <4>2
    <3>3. Rising(a)'
      BY <1>0, <2>4, <3>1, <3>2, SameKept DEF Rising, Awaited
    <3> QED BY <1>5, <3>3 DEF Standing
  <2> QED BY <2>3, <2>4
<1>6. ASSUME block' = <<>>, m = Msg(Sys, "post", "policy", c, PolicyOf(a)), Len(block) = 1 PROVE Standing(c)'
  <2>1. m.by = Sys /\ m.act = "post" /\ m.kind = "policy" /\ m.c = c /\ m.val = PolicyOf(a)
    BY <1>6 DEF Msg
  <2>2. PolicyOf(a) \in Policies
    BY DEF PolicyOf, Policies, Checked, Arguments
  <2> HIDE DEF m
  <2>3. Apply(m) => desc' = desc /\ cfg' = cfg /\ pol'[c] = PolicyOf(a)
    BY <2>1 DEF Apply, IInv, ChainInv
  <2>4. CASE InForce(c) /\ overlapped
    <3>1. desc'[c] = desc[c] /\ pol'[c] \in Policies
      BY <1>1, <2>2, <2>3, <2>4 DEF chain, InForce
    <3>2. InForce(c)'
      BY <1>0, <2>4, <3>1, SameKept DEF InForce
    <3> QED BY <1>6, <3>2, StandsBetween DEF Settled
  <2>5. CASE Rising(a)
    <3>1. desc' = desc /\ cfg' = cfg /\ pol'[c] = PolicyOf(a)
      BY <1>4, <2>1, <2>3, <2>5
    <3>2. Range(a.spaces) \subseteq cfg[c]
      <4>1. \A n \in 1 .. Len(block) : block[n].kind = "policy"
        BY <1>6, <2>1 DEF m
      <4>2. \A x : collection_config(c, x).kind = "config"
        BY DEF collection_config, Msg
      <4> QED BY <2>5, <4>1, <4>2 DEF Rising, Awaited
    <3>3. CreateFirst(c)' /\ (~overlapped' => NoCreate(c)')
      <4>1. CreateFirst(c)
        BY <2>5 DEF Rising, NoClear, CreateFirst
      <4> QED BY <1>0, <2>5, <4>1, SameKept DEF Rising
    <3>4. desc'[c] = a
      BY <2>5, <3>1 DEF Rising
    <3>5. Whole(c)'
      BY <3>1, <3>2, <3>4 DEF Whole
    <3>6. InForce(c)'
      BY <1>2, <2>2, <3>1, <3>3, <3>4, <3>5 DEF InForce
    <3> QED BY <1>6, <3>6, StandsBetween DEF Settled
  <2> QED BY <2>4, <2>5
<1> QED BY <1>3, <1>5, <1>6

\* The policy of a clearing.
LEMMA ReplayClears ==
  ASSUME IInv, root # None, IsAdmin(Sys), Replay, NEW c \in Comms, Clears(block, c),
         (InForce(c) /\ NoCreate(c)) \/ Absent(c) \/ Barred(c)
  PROVE  Standing(c)'
<1>0. UNCHANGED <<pending, overlapped, reopened>> /\ block' = Tail(block) /\ Head(block) = block[1]
  BY HeadOfBlock DEF Replay, history, IInv, QueueInv
<1> DEFINE m == signed_delete("policy", c)
<1>1. block[1] = m /\ Removes(block', c)
  BY <1>0, ClearTail
<1>2. m.by = Sys /\ m.act = "delete" /\ m.kind = "policy" /\ m.c = c
  BY DEF signed_delete, Msg
<1> HIDE DEF m
<1>3. Apply(m) \/ (UNCHANGED chain /\ ~Admitted(m, fresh))
  BY <1>0, <1>1 DEF Replay
<1>4. CASE InForce(c) /\ NoCreate(c)
  <2>1. Present(m)
    BY <1>2, <1>4, PolicyMarks DEF InForce, Present
  <2>2. Governor(m) = root
    BY <1>2 DEF Governor, InSpaces
  <2>3. Apply(m)
    BY <1>2, <1>3, <2>1, <2>2, AdminMay DEF IInv
  <2>4. pol'[c] \in {None, Ghost}
    BY <1>2, <2>3 DEF Apply, IInv, ChainInv
  <2>5. ClearFirst(c)' /\ CreateOnce(c)' /\ NoCreate(c)'
    BY <1>0, <1>4, SameKept DEF NoCreate, ClearFirst, CreateOnce
  <2> QED BY <1>1, <2>4, <2>5 DEF Standing
<1>5. CASE Absent(c) \/ Barred(c)
  <2>1. ~Present(m)
    BY <1>2, <1>5 DEF Absent, Barred, Present
  <2>2. UNCHANGED chain
    BY <1>2, <1>3, <2>1, <1>0, <1>1 DEF Admitted, Replay
  <2>3. (Absent(c) \/ Barred(c))'
    BY <1>0, <1>5, <2>2, SameKept DEF chain
  <2> QED BY <1>1, <2>3 DEF Standing, Absent, Barred
<1> QED BY <1>4, <1>5

\* The descriptor of a clearing.
LEMMA ReplayRemoves ==
  ASSUME IInv, root # None, Replay, NEW c \in Comms, Removes(block, c),
         \/ pol[c] = None /\ ClearFirst(c) /\ (~overlapped => CreateOnce(c))
         \/ pol[c] = Ghost /\ NoCreate(c)
  PROVE  Standing(c)'
<1>0. UNCHANGED <<pending, overlapped, reopened>> /\ block' = Tail(block) /\ Head(block) = block[1]
  BY HeadOfBlock DEF Replay, history, IInv, QueueInv
<1> DEFINE m == signed_delete("community", c)
<1>1. block[1] = m /\ block' = <<>>
  BY <1>0, RemoveTail
<1>2. m.by = Sys /\ m.act = "delete" /\ m.kind = "community" /\ m.c = c /\ m.val = None
  BY DEF signed_delete, Msg
<1> HIDE DEF m
<1>3. Apply(m) \/ (UNCHANGED chain /\ ~Admitted(m, fresh))
  BY <1>0, <1>1 DEF Replay
<1>4. pol'[c] = pol[c] /\ desc'[c] = None
  <2>1. CASE Apply(m)
    BY <1>2, <2>1 DEF Apply, IInv, ChainInv
  <2>2. CASE UNCHANGED chain /\ ~Admitted(m, fresh)
    <3>1. Sys \notin Users \cup Issuers
      BY CommunitiesAssumption
    <3>2. ~Present(m)
      BY <1>2, <2>2, <3>1 DEF Admitted, OwnerOf, Governing
    <3> QED BY <1>2, <2>2, <3>2 DEF Present, chain
  <2> QED BY <1>3, <2>1, <2>2
<1>5. Settled(c)'
  BY <1>0, <1>4, SameKept DEF Settled, Absent, Barred
<1> QED BY <1>1, <1>5, StandsBetween

\* Replay takes a community from one stand to the next.
LEMMA ReplayStands ==
  ASSUME IInv, root # None, IsAdmin(Sys), Replay, NEW c \in Comms \ reopened, Standing(c)
  PROVE  Standing(c)'
<1>1. CASE block = <<>>
  BY <1>1 DEF Replay
<1>2. CASE Settled(c) /\ (Plain(block, reopened) \/ \E d \in Comms \ {c} : Concerns(block, d))
  BY <1>2, ReplayOther
<1>3. CASE Creates(block, c) /\ ((InForce(c) /\ overlapped) \/ (Absent(c) /\ NoClear(c) /\ (~overlapped => NoCreate(c))))
  BY <1>3, ReplayCreates
<1>4. ASSUME NEW a \in Checked, a.c = c, Rest(block, a), (InForce(c) /\ overlapped) \/ Rising(a) PROVE Standing(c)'
  BY <1>4, ReplayRest
<1>5. CASE Clears(block, c) /\ ((InForce(c) /\ NoCreate(c)) \/ Absent(c) \/ Barred(c))
  BY <1>5, ReplayClears
<1>6. CASE Removes(block, c) /\ (\/ pol[c] = None /\ ClearFirst(c) /\ (~overlapped => CreateOnce(c))
                                 \/ pol[c] = Ghost /\ NoCreate(c))
  BY <1>6, ReplayRemoves
<1> QED BY <1>1, <1>2, <1>3, <1>4, <1>5, <1>6 DEF Standing

\* Once sys is retired a community stays whole or loses its descriptor.
LEMMA RetiredKept ==
  ASSUME IInv, Replay, root # None, ~IsAdmin(Sys), NEW c \in Comms, Kept(c)
  PROVE  Kept(c)' /\ ~IsAdmin(Sys)'
<1>1. root' = root /\ pol' = pol /\ cfg' = cfg /\ desc'[c] \in {desc[c], None}
  BY RetiredChange DEF Next
<1>2. UNCHANGED overlapped
  BY DEF Replay, history
<1>3. Kept(c)'
  BY <1>1, <1>2 DEF Kept, Whole
<1> QED BY <1>1, <1>3 DEF IsAdmin

-----------------------------------------------------------------------------
(* The communities of the genesis.                                         *)

\* A descriptor is followed by its policy, a policy follows its descriptor.
LEMMA GenesisFounds ==
  \A n \in 1 .. Len(genesis_communities) :
    /\ genesis_communities[n].kind = "community" =>
         /\ genesis_communities[n].c \in Range(GenesisComms)
         /\ genesis_communities[n].val = GenesisArgs(genesis_communities[n].c)
         /\ n < Len(genesis_communities) /\ genesis_communities[n + 1] = Founding(genesis_communities[n].c)
    /\ genesis_communities[n].kind = "policy" =>
         /\ genesis_communities[n] = Founding(genesis_communities[n].c) /\ n > 1
         /\ genesis_communities[n - 1].kind = "community"
         /\ genesis_communities[n - 1].c = genesis_communities[n].c
<1> DEFINE G == Len(GenesisComms)
           g == genesis_communities
<1>1. G \in Nat /\ 3 * G \in Nat /\ DOMAIN GenesisComms = 1 .. G /\ \A i \in 1 .. G : GenesisComms[i] \in Comms
  BY CommunitiesAssumption
<1>2. \A n \in 1 .. 3 * G : g[n] = genesis_community(GenesisComms[(n + 2) \div 3])[((n + 2) % 3) + 1]
  BY DEF genesis_communities
<1>3. Len(g) = 3 * G
  <2>1. g \in [1 .. 3 * G -> {g[n] : n \in 1 .. 3 * G}]
    BY DEF genesis_communities
  <2> QED BY <1>1, <2>1, SeqDef
<1>4. ASSUME NEW c
      PROVE  /\ genesis_community(c)[1] = community(GenesisArgs(c)) /\ genesis_community(c)[2] = Founding(c)
             /\ genesis_community(c)[3].kind = "config"
             /\ community(GenesisArgs(c)).kind = "community" /\ community(GenesisArgs(c)).c = c
             /\ community(GenesisArgs(c)).val = GenesisArgs(c)
             /\ Founding(c).kind = "policy" /\ Founding(c).c = c
  BY DEF genesis_community, Founding, community, collection_config, Msg, GenesisArgs
<1>5. \A n \in 1 .. 3 * G : (n + 2) \div 3 \in 1 .. G /\ ((n + 2) % 3) + 1 \in 1 .. 3
  BY <1>1
<1>6. \A n \in 1 .. 3 * G : ((n + 2) % 3) + 1 = 1 =>
        n < 3 * G /\ n + 1 \in 1 .. 3 * G /\ ((n + 1) + 2) \div 3 = (n + 2) \div 3 /\ (((n + 1) + 2) % 3) + 1 = 2
  BY <1>1
<1>7. \A n \in 1 .. 3 * G : ((n + 2) % 3) + 1 = 2 =>
        n > 1 /\ n - 1 \in 1 .. 3 * G /\ ((n - 1) + 2) \div 3 = (n + 2) \div 3 /\ (((n - 1) + 2) % 3) + 1 = 1
  BY <1>1
<1> SUFFICES ASSUME NEW n \in 1 .. 3 * G
             PROVE  /\ g[n].kind = "community" =>
                         /\ g[n].c \in Range(GenesisComms) /\ g[n].val = GenesisArgs(g[n].c)
                         /\ n < Len(g) /\ g[n + 1] = Founding(g[n].c)
                    /\ g[n].kind = "policy" =>
                         /\ g[n] = Founding(g[n].c) /\ n > 1
                         /\ g[n - 1].kind = "community" /\ g[n - 1].c = g[n].c
  BY <1>3
<1> HIDE DEF G, g
<1>8. PICK j : j = ((n + 2) % 3) + 1
  OBVIOUS
<1>9. PICK c : c = GenesisComms[(n + 2) \div 3]
  OBVIOUS
<1>10. j \in 1 .. 3 /\ g[n] = genesis_community(c)[j] /\ c \in Range(GenesisComms)
  BY <1>1, <1>2, <1>5, <1>8, <1>9 DEF Range
<1>11. j = 1 \/ j = 2 \/ j = 3
  BY <1>10
<1>12. CASE j = 1
  <2>1. n < 3 * G /\ g[n + 1] = genesis_community(c)[2]
    BY <1>2, <1>6, <1>8, <1>9, <1>12
  <2> QED BY <1>3, <1>4, <1>10, <1>12, <2>1
<1>13. CASE j = 2
  <2>1. n > 1 /\ g[n - 1] = genesis_community(c)[1]
    BY <1>2, <1>7, <1>8, <1>9, <1>13
  <2> QED BY <1>4, <1>10, <1>13, <2>1
<1>14. CASE j = 3
  BY <1>4, <1>10, <1>14
<1> QED BY <1>11, <1>12, <1>13, <1>14

\* The first state.
LEMMA InitStarting == Init => StartingInv
<1> SUFFICES ASSUME Init PROVE StartingInv
  OBVIOUS
<1>0. PICK evidence \in BOOLEAN : block = mingo_genesis(evidence)
  BY DEF Init
<1> DEFINE s == Opening(evidence)
           g == genesis_communities
           S == Len(s)
           G == Len(g)
           B == Len(block)
<1>1. \A n \in 1 .. S : s[n].kind \notin {"community", "policy"}
  BY GenesisIdentities DEF Opening, Identities
<1>2. \A n \in 1 .. G :
        /\ g[n].kind = "community" =>
             /\ g[n].c \in Range(GenesisComms) /\ g[n].val = GenesisArgs(g[n].c)
             /\ n < G /\ g[n + 1] = Founding(g[n].c)
        /\ g[n].kind = "policy" =>
             /\ g[n] = Founding(g[n].c) /\ n > 1
             /\ g[n - 1].kind = "community" /\ g[n - 1].c = g[n].c
  BY GenesisFounds
<1>3. RootMessage({Sys}).kind = "root"
  BY DEF RootMessage, Msg
<1>4. /\ S \in Nat /\ G \in Nat /\ B = S + G + 1
      /\ \A n \in 1 .. S : block[n] = s[n]
      /\ \A n \in 1 .. G : block[n + S] = g[n]
      /\ block[B] = RootMessage({Sys})
  BY <1>0, GenesisLayout
<1> HIDE DEF s, g, S, G, B
<1>5. \A n \in 1 .. B : n \in 1 .. S \/ n = B \/ \E k \in 1 .. G : n = k + S
  <2>1. \A n \in 1 .. B : n \in 1 .. S \/ n = B \/ (n - S \in 1 .. G /\ n = (n - S) + S)
    BY <1>4
  <2> QED BY <2>1
<1>6. ASSUME NEW k \in 1 .. G
      PROVE  /\ block[k + S].kind = "community" =>
                  /\ block[k + S].c \in Range(GenesisComms) /\ block[k + S].val = GenesisArgs(block[k + S].c)
                  /\ k + S < B /\ block[(k + S) + 1] = Founding(block[k + S].c)
             /\ block[k + S].kind = "policy" =>
                  /\ block[k + S] = Founding(block[k + S].c) /\ k + S # 1
                  /\ block[(k + S) - 1].kind = "community" /\ block[(k + S) - 1].c = block[k + S].c
  <2>1. block[k + S] = g[k] /\ k + S < B
    BY <1>4
  <2>2. k < G => k + 1 \in 1 .. G /\ (k + 1) + S = (k + S) + 1
    BY <1>4
  <2>3. k > 1 => k - 1 \in 1 .. G /\ (k - 1) + S = (k + S) - 1 /\ k + S # 1
    BY <1>4
  <2>4. k < G => block[(k + S) + 1] = g[k + 1]
    BY <1>4, <2>2
  <2>5. k > 1 => block[(k + S) - 1] = g[k - 1]
    BY <1>4, <2>3
  <2> QED BY <1>2, <2>1, <2>3, <2>4, <2>5
<1>7. ASSUME NEW n \in 1 .. B
      PROVE  /\ block[n].kind = "community" =>
                  /\ block[n].c \in Range(GenesisComms) /\ block[n].val = GenesisArgs(block[n].c)
                  /\ n < B /\ block[n + 1] = Founding(block[n].c)
             /\ block[n].kind = "policy" =>
                  /\ block[n] = Founding(block[n].c)
                  /\ IF n = 1 THEN desc[block[n].c] # None
                     ELSE block[n - 1].kind = "community" /\ block[n - 1].c = block[n].c
  <2>1. CASE n \in 1 .. S
    BY <1>1, <1>4, <2>1
  <2>2. CASE n = B
    BY <1>3, <1>4, <2>2
  <2>3. CASE \E k \in 1 .. G : n = k + S
    BY <1>6, <2>3
  <2> QED BY <1>5, <2>1, <2>2, <2>3
<1>8. pending = <<>> /\ \A c \in Comms : desc[c] = None /\ pol[c] = None
  BY DEF Init
<1> QED BY <1>7, <1>8 DEF StartingInv, B

\* The rest of the genesis.
LEMMA ReplayStarting ==
  ASSUME IInv, StartingInv, Replay, root' = None
  PROVE  StartingInv'
<1> DEFINE m == block[1]
           L == Len(block)
<1>0. root = None
  <2>1. Head(block) \in Messages
    BY HeadOfBlock DEF IInv, Replay
  <2>2. Head(block).kind = "root" => Head(block).val # None
    BY <2>1, PolicyAssumption DEF Messages, Sound, HubPolicies
  <2> QED BY <2>2 DEF Replay, Apply, chain
<1>1. /\ m \in Messages /\ m = Head(block) /\ L \in Nat \ {0} /\ Len(block') = L - 1
      /\ \A n \in 1 .. L - 1 : block'[n] = block[n + 1]
      /\ pending' = pending
  BY HeadOfBlock DEF IInv, Replay
<1>2. Apply(m)
  BY <1>0, <1>1, GenesisAdmits DEF Replay
<1>3. m.act = "post"
  BY <1>0, <1>1 DEF IInv, GenesisInv
<1>4. \A n \in 1 .. L :
        /\ block[n].kind = "community" =>
             /\ block[n].c \in Range(GenesisComms) /\ block[n].val = GenesisArgs(block[n].c)
             /\ n < L /\ block[n + 1] = Founding(block[n].c)
        /\ block[n].kind = "policy" =>
             /\ block[n] = Founding(block[n].c)
             /\ IF n = 1 THEN desc[block[n].c] # None
                ELSE block[n - 1].kind = "community" /\ block[n - 1].c = block[n].c
  BY <1>0 DEF StartingInv
<1>5. ASSUME NEW c \in Comms
      PROVE  \/ desc[c] = None /\ pol[c] = None
             \/ /\ desc[c] = GenesisArgs(c) /\ c \in Range(GenesisComms)
                /\ pol[c] = community_policy_open(c, IssuerAt[c]) \/ (pol[c] = None /\ m = Founding(c))
  BY <1>0, <1>5 DEF StartingInv
<1>6. \A c : Founding(c).kind = "policy" /\ Founding(c).act = "post" /\ Founding(c).c = c
             /\ Founding(c).val = community_policy_open(c, IssuerAt[c])
  BY DEF Founding, Msg
<1>7. /\ m.kind # "community" => desc' = desc
      /\ m.kind # "policy" => pol' = pol
      /\ m.kind = "community" => m.c \in Comms /\ desc' = [desc EXCEPT ![m.c] = m.val]
      /\ m.kind = "policy" => m.c \in Comms /\ pol' = [pol EXCEPT ![m.c] = m.val]
  BY <1>1, <1>2, <1>3 DEF Apply, Messages, Sound
<1>8. \A c : GenesisArgs(c) # None \/ c \notin Comms
  <2>1. ASSUME NEW c \in Comms PROVE GenesisArgs(c) \in Arguments
    BY CommunitiesAssumption DEF GenesisArgs, Arguments
  <2> QED BY <2>1, ArgumentsAssumption
<1>9. desc \in [Comms -> Arguments \cup {None}] /\ pol \in [Comms -> Policies \cup {None, Ghost}]
  BY DEF IInv, ChainInv
<1>10. 1 \in 1 .. L /\ \A n \in 1 .. L - 1 : n + 1 \in 1 .. L /\ n + 1 # 1 /\ (n + 1) - 1 = n
  BY <1>1
<1> HIDE DEF m, L
<1>11. m.kind = "community" =>
         /\ m.c \in Range(GenesisComms) /\ m.val = GenesisArgs(m.c)
         /\ 1 < L /\ block[1 + 1] = Founding(m.c)
  BY <1>4, <1>10 DEF m
<1>12. m.kind = "policy" => m = Founding(m.c) /\ desc[m.c] # None
  BY <1>4, <1>10 DEF m
<1>13. ASSUME NEW c \in Comms
       PROVE  \/ desc'[c] = None /\ pol'[c] = None
              \/ /\ desc'[c] = GenesisArgs(c) /\ c \in Range(GenesisComms)
                 /\ pol'[c] = community_policy_open(c, IssuerAt[c]) \/ (pol'[c] = None /\ block'[1] = Founding(c))
  <2>1. CASE m.kind = "community" /\ m.c = c
    <3>1. desc'[c] = GenesisArgs(c) /\ c \in Range(GenesisComms) /\ pol'[c] = pol[c]
      BY <1>7, <1>9, <1>11, <2>1
    <3>2. block'[1] = Founding(c)
      <4>1. 1 \in 1 .. L - 1
        BY <1>1, <1>11, <2>1 DEF L
      <4> QED BY <1>1, <1>11, <2>1, <4>1 DEF L
    <3>3. pol[c] \in {None, community_policy_open(c, IssuerAt[c])}
      BY <1>5
    <3> QED BY <3>1, <3>2, <3>3
  <2>2. CASE m.kind = "policy" /\ m.c = c
    <3>1. desc'[c] = desc[c] /\ pol'[c] = community_policy_open(c, IssuerAt[c])
      BY <1>6, <1>7, <1>9, <1>12, <2>2
    <3> QED BY <1>5, <1>12, <2>2, <3>1
  <2>3. CASE m.kind \in {"community", "policy"} => m.c # c
    <3>1. desc'[c] = desc[c] /\ pol'[c] = pol[c]
      BY <1>7, <1>9, <2>3
    <3>2. m # Founding(c)
      BY <1>6, <2>3
    <3> QED BY <1>5, <3>1, <3>2
  <2> QED BY <2>1, <2>2, <2>3
<1>14. ASSUME NEW n \in 1 .. L - 1
       PROVE  /\ block'[n].kind = "community" =>
                   /\ block'[n].c \in Range(GenesisComms) /\ block'[n].val = GenesisArgs(block'[n].c)
                   /\ n < L - 1 /\ block'[n + 1] = Founding(block'[n].c)
              /\ block'[n].kind = "policy" =>
                   /\ block'[n] = Founding(block'[n].c)
                   /\ IF n = 1 THEN desc'[block'[n].c] # None
                      ELSE block'[n - 1].kind = "community" /\ block'[n - 1].c = block'[n].c
  <2>1. block'[n] = block[n + 1] /\ n + 1 \in 1 .. L /\ (n + 1) - 1 = n /\ n + 1 # 1
    BY <1>1, <1>10 DEF L
  <2>2. block[n + 1].kind = "community" =>
          /\ block[n + 1].c \in Range(GenesisComms) /\ block[n + 1].val = GenesisArgs(block[n + 1].c)
          /\ n + 1 < L /\ block[(n + 1) + 1] = Founding(block[n + 1].c)
    BY <1>4, <2>1
  <2>3. n + 1 < L => n < L - 1 /\ block'[n + 1] = block[(n + 1) + 1]
    BY <1>1 DEF L
  <2>4. block[n + 1].kind = "policy" =>
          block[n + 1] = Founding(block[n + 1].c) /\ block[n].kind = "community" /\ block[n].c = block[n + 1].c
    BY <1>4, <2>1
  <2>5. n # 1 => block'[n - 1] = block[n]
    <3>1. n # 1 => n - 1 \in 1 .. L - 1 /\ (n - 1) + 1 = n
      BY <1>1 DEF L
    <3> QED BY <1>1, <3>1 DEF L
  <2>6. (n = 1 /\ m.kind = "community") => desc'[m.c] # None
    BY <1>7, <1>8, <1>9, <1>11
  <2> QED BY <2>1, <2>2, <2>3, <2>4, <2>5, <2>6 DEF m
<1>15. pending' = <<>> /\ Len(block') = L - 1
  BY <1>0, <1>1 DEF StartingInv, L
<1> QED BY <1>13, <1>14, <1>15 DEF StartingInv

\* When the root policy comes into force every community is absent or in force.
LEMMA FoundedStands ==
  ASSUME IInv, StartingInv, Replay, root = None, root' # None, NEW c \in Comms
  PROVE  Standing(c)'
<1> DEFINE m == Head(block)
<1>1. m \in Messages /\ m = block[1] /\ 1 \in 1 .. Len(block) /\ Len(block) \in Nat \ {0} /\ block \in Seq(Messages)
  BY HeadOfBlock DEF IInv, Replay, QueueInv
<1>2. Apply(m) /\ m.kind = "root"
  BY GenesisAdmits DEF Replay, Apply
<1>3. desc' = desc /\ pol' = pol /\ cfg' = cfg
  BY <1>2 DEF Apply
<1>4. pending' = <<>> /\ Len(pending') = 0
  BY DEF StartingInv, Replay
<1>5. block' = <<>>
  <2>1. Len(block) = 1
    BY <1>1, <1>2 DEF IInv, GenesisInv
  <2>2. block # <<>> /\ block' = Tail(block)
    BY DEF Replay
  <2> QED BY <1>1, <2>1, <2>2, TailOf
<1>6. NoCreate(c)' /\ NoClear(c)' /\ CreateFirst(c)' /\ ClearFirst(c)' /\ CreateOnce(c)'
  <2>1. 1 .. Len(pending') = {}
    BY <1>4
  <2> QED BY <2>1 DEF NoCreate, NoClear, CreateFirst, ClearFirst, CreateOnce
<1>7. CASE desc[c] = None /\ pol[c] = None
  <2>1. Absent(c)'
    BY <1>3, <1>6, <1>7 DEF Absent
  <2> QED BY <1>5, <2>1, StandsBetween DEF Settled
<1>8. CASE desc[c] = GenesisArgs(c) /\ c \in Range(GenesisComms) /\ pol[c] = community_policy_open(c, IssuerAt[c])
  <2>1. GenesisArgs(c) \in Arguments /\ IssuerAt[c] \in Issuers
    BY CommunitiesAssumption DEF GenesisArgs, Arguments
  <2>2. PolicyOf(GenesisArgs(c)) = community_policy_open(c, IssuerAt[c])
    BY DEF PolicyOf, GenesisArgs
  <2>3. Range(GenesisArgs(c).spaces) \subseteq {General}
    BY DEF GenesisArgs, Range
  <2>4. General \in cfg'[c]
    <3>1. GenesisComplete'
      BY ReplayComplete
    <3>2. PICK n \in DOMAIN GenesisComms : c = GenesisComms[n]
      BY <1>8 DEF Range
    <3> QED BY <3>1, <3>2 DEF GenesisComplete
  <2>5. desc'[c] = GenesisArgs(c) /\ pol'[c] = community_policy_open(c, IssuerAt[c])
    BY <1>3, <1>8
  <2>6. Whole(c)'
    BY <2>2, <2>3, <2>4, <2>5 DEF Whole
  <2>7. desc'[c] # None /\ pol'[c] \in Policies
    BY <2>1, <2>5, ArgumentsAssumption DEF Policies
  <2>8. InForce(c)'
    BY <1>6, <2>6, <2>7 DEF InForce
  <2> QED BY <1>5, <2>8, StandsBetween DEF Settled
<1>9. block[1] # Founding(c)
  BY <1>1, <1>2 DEF Founding, Msg
<1> QED BY <1>7, <1>8, <1>9 DEF StartingInv

-----------------------------------------------------------------------------
(* Communities survive their replacements.                                 *)

\* Replay keeps the life of every community.
LEMMA ReplayLife == ASSUME IInv, LifeInv, StartingInv, Replay PROVE LifeInv'
<1>0. UNCHANGED <<pending, overlapped, reopened>>
  BY DEF Replay, history
<1>1. \A n \in 1 .. Len(pending') : Queued(pending'[n], reopened')
  BY <1>0 DEF LifeInv
<1>2. CASE root = None
  <2>1. ASSUME NEW c \in Comms, root' # None PROVE Standing(c)' /\ Kept(c)'
    <3>1. Standing(c)'
      BY <1>2, <2>1, FoundedStands
    <3>2. Standing(c)' => Kept(c)'
      BY DEF Standing, Settled, InForce, Absent, Barred, Rising, Kept
    <3> QED BY <3>1, <3>2
  <2> QED BY <1>1, <2>1 DEF LifeInv, StandingInv
<1>3. CASE root # None
  <2>1. ASSUME NEW c \in Comms \ reopened, IsAdmin(Sys) PROVE Standing(c)' /\ Kept(c)'
    <3>1. Standing(c)
      BY <1>3, <2>1 DEF LifeInv, StandingInv
    <3>2. Standing(c)'
      BY <1>3, <2>1, <3>1, ReplayStands
    <3>3. Standing(c)' => Kept(c)'
      BY DEF Standing, Settled, InForce, Absent, Barred, Rising, Kept
    <3> QED BY <3>2, <3>3
  <2>2. ASSUME NEW c \in Comms \ reopened, ~IsAdmin(Sys) PROVE Kept(c)' /\ ~IsAdmin(Sys)'
    <3>1. Kept(c)
      BY <1>3, <2>2 DEF LifeInv, StandingInv
    <3> QED BY <1>3, <2>2, <3>1, RetiredKept
  <2> QED BY <1>0, <1>1, <2>1, <2>2 DEF LifeInv, StandingInv
<1> QED BY <1>2, <1>3

\* Every step keeps the life of every community.
LEMMA LifeNext == IInv /\ LifeInv /\ StartingInv /\ [Next]_vars => LifeInv' /\ StartingInv'
<1> SUFFICES ASSUME IInv, LifeInv, StartingInv, [Next]_vars PROVE LifeInv' /\ StartingInv'
  OBVIOUS
<1>1. CASE block = <<>> /\ Request
  <2>1. LifeInv'
    BY <1>1, CreateLife, WriteLife, DaemonLife DEF Request
  <2>2. root # None /\ root' = root
    <3>1. Replay => block # <<>>
      BY DEF Replay
    <3> QED BY <1>1, <3>1, Governed, ByReplay
  <2> QED BY <2>1, <2>2 DEF StartingInv
<1>2. CASE Replay
  <2>1. StartingInv'
    BY <1>2, ReplayStarting DEF StartingInv
  <2> QED BY <1>2, <2>1, ReplayLife
<1>3. CASE UNCHANGED vars
  <2>1. StartingInv'
    BY <1>3 DEF vars, chain, StartingInv
  <2>2. /\ \A n \in 1 .. Len(pending') : Queued(pending'[n], reopened')
        /\ IsAdmin(Sys)' <=> IsAdmin(Sys)
        /\ \A c : Kept(c) => Kept(c)'
    BY <1>3 DEF vars, chain, history, LifeInv, IsAdmin, Kept, Whole
  <2>3. ASSUME NEW c, Standing(c) PROVE Standing(c)'
    BY <1>3, <2>3 DEF vars, chain, history, Standing, Settled, InForce, Absent, Barred, Rising, Awaited, Whole,
       CreateFirst, ClearFirst, CreateOnce, NoCreate, NoClear
  <2> QED BY <1>3, <2>1, <2>2, <2>3 DEF LifeInv, StandingInv, vars, chain, history
<1> QED BY <1>1, <1>2, <1>3 DEF Next

\* The invariant of the life of communities holds throughout.
LEMMA LifeInvariant == Spec => [](IInv /\ LifeInv)
<1>1. Init => LifeInv
  <2>1. Init => \A n \in 1 .. Len(pending) : FALSE
    BY DEF Init
  <2>2. Init => root = None
    BY DEF Init
  <2> QED BY <2>1, <2>2 DEF LifeInv, StandingInv
<1>2. IInv /\ LifeInv /\ StartingInv /\ [Next]_vars => (IInv /\ LifeInv /\ StartingInv)'
  BY NextInv, LifeNext
<1> QED BY InitInv, InitStarting, <1>1, <1>2, PTL DEF Spec

\* A community whose policy is in force has every space its creation named and the
\* policy its descriptor announces, for any number of operators, communities and
\* batches, however replacements are lost, repeated or cut off by the cutover -
\* unless two creations overlapped.
THEOREM WholeSafe == Spec => []WholeUnlessOverlapped
<1>1. IInv /\ LifeInv => WholeUnlessOverlapped
  <2> SUFFICES ASSUME IInv, LifeInv, NEW c \in Comms, ~overlapped, desc[c] # None,
                      pol[c] \notin {None, Ghost}, c \notin reopened, block = <<>>
               PROVE  Whole(c)
    BY DEF WholeUnlessOverlapped, Whole
  <2>1. root # None
    BY Governed
  <2>2. Kept(c)
    BY <2>1, StandingKept DEF LifeInv, StandingInv
  <2> QED BY <2>2 DEF Kept
<1> QED BY LifeInvariant, <1>1, PTL

\* With nothing on its way, a community without a descriptor can be created again,
\* message by message, by a sys key that is admin - whatever has been left behind.
THEOREM RecoverableSafe == Spec => []RecoverableByRerun
<1>1. IInv /\ LifeInv => RecoverableByRerun
  <2> SUFFICES ASSUME IInv, LifeInv, Quiet, root # None, IsAdmin(Sys), NEW a \in Arguments,
                      desc[a.c] = None, pol[a.c] # Ghost, a.c \notin reopened,
                      NEW n \in DOMAIN CreateBatch(a)
               PROVE  Admitted(CreateBatch(a)[n], fresh)
    BY DEF RecoverableByRerun
  <2> DEFINE m == CreateBatch(a)[n]
  <2>1. a.c \in Comms
    BY DEF Arguments
  <2>2. Settled(a.c)
    BY <2>1, SettledBetween DEF LifeInv, StandingInv, Quiet
  <2>3. pol[a.c] = None
    BY <2>2 DEF Settled, InForce, Absent, Barred
  <2>4. \/ m = community(a) \/ m = Msg(Sys, "post", "policy", a.c, PolicyOf(a))
        \/ \E s \in Range(a.spaces) : m = collection_config(a.c, s)
    <3>1. \A L \in Nat : \A k \in 1 .. L : k = 1 \/ k = L \/ k \in 2 .. L - 1
      OBVIOUS
    <3>2. /\ Len(CreateBatch(a)) \in Nat /\ DOMAIN CreateBatch(a) = 1 .. Len(CreateBatch(a))
          /\ CreateBatch(a)[1] = community(a)
          /\ CreateBatch(a)[Len(CreateBatch(a))] = Msg(Sys, "post", "policy", a.c, PolicyOf(a))
          /\ \A k \in 2 .. Len(CreateBatch(a)) - 1 :
               \E s \in Range(a.spaces) : CreateBatch(a)[k] = collection_config(a.c, s)
      BY CreateShape
    <3>3. n = 1 \/ n = Len(CreateBatch(a)) \/ n \in 2 .. Len(CreateBatch(a)) - 1
      BY <3>1, <3>2
    <3> QED BY <3>2, <3>3
  <2>5. m.by = Sys /\ m.act = "post" /\ m.c = a.c /\ m.kind \in {"policy", "community", "config"}
    BY <2>4 DEF community, collection_config, Msg
  <2> HIDE DEF m
  <2>6. Governor(m) = root
    BY <2>3, <2>5 DEF Governor
  <2>7. Admitted(m, fresh)
    BY <2>5, <2>6, AdminMay DEF IInv
  <2> QED BY <2>7 DEF m
<1> QED BY LifeInvariant, <1>1, PTL
=============================================================================
