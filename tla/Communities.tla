---------------------------- MODULE Communities ----------------------------
(***************************************************************************)
(* Communities and who may write in them: the genesis batch and the policy *)
(* documents it installs (mingo-app/src/genesis.rs, bin/mingo.rs), `mingo  *)
(* create-community` (create_community.rs), `mingo open-community` and     *)
(* `mingo appoint-moderator` (appoint.rs).                                 *)
(*                                                                         *)
(* A policy document is data: roles, grants and the issuer whose bans      *)
(* count.  What a document allows is decided by the daemon, which is       *)
(* external: the nearest policy judges a write, a policy object is judged  *)
(* by its parent and needs `govern`, the owner of an object may always     *)
(* delete it, and before the root policy exists everything is admitted.    *)
(* /v1/submit judges every message of a batch against the current state    *)
(* and takes all or none; a synced block is judged again, in order, and    *)
(* requests meet the state before or after it.                             *)
(***************************************************************************)
EXTENDS Naturals, Sequences, FiniteSets, SequencesExt

CONSTANTS
  Comms,         \* community ids
  GenesisComms,  \* those of the genesis, in order
  Users, Issuers,\* email identities
  IssuerAt,      \* per community: <id>@<domain>
  Segments,      \* space names that are path segments
  SpaceLists,    \* the --space lists an operator may give
  General,       \* the space of a genesis community
  Sys, Successor,\* the sys key; the identity an admin cutover names
  Operators,     \* shells that create-community is run from
  None, Anyone, Ghost,
  MaxOps,
  MaxPending, MaxClientPending  \* batches in flight for a tool, a client to submit

ASSUME CommunitiesAssumption ==
  /\ GenesisComms \in Seq(Comms) /\ IssuerAt \in [Comms -> Issuers]
  /\ Users \cap Issuers = {} /\ {Sys, Successor} \cap (Users \cup Issuers) = {}
  /\ Sys # Successor
  /\ None \notin Users \cup Issuers \cup Comms \cup {Sys, Successor, Ghost} /\ Anyone \notin Issuers \cup {None}
  /\ General \in Segments /\ SpaceLists \subseteq Seq(STRING) /\ <<General>> \in SpaceLists
  /\ {MaxOps, MaxPending, MaxClientPending} \subseteq Nat

VARIABLES
  sysObjs,    \* domain, names and brokers on the chain
  fresh,      \* /sys/dnssec/<domain> holds a proof that is still valid
  root,       \* the hub root policy, or None
  desc, pol,  \* per community: descriptor; policy, None, or Ghost once deleted
  cfg,        \* per community: the spaces with a _config
  post,       \* per community: the owner of the object in a content slot
  att,        \* attestations
  captured,   \* communities with a policy installed below their spaces
  pending,    \* batches taken and in no synced block yet
  block,      \* the rest of the batch being replayed
  at, args,   \* per operator: the step of create-community, its arguments
  appoint,    \* the step of appoint-moderator and its arguments
  ops,        \* runs of the tools and writes of clients so far
  overlapped, \* history: two creations of communities overlapped
  reopened,   \* history: communities given a policy by open-community
  lost,       \* history: a taken batch was dropped, or a proof lapsed under it
  appointed   \* history: what appoint-moderator reported as done

chain == <<sysObjs, fresh, root, desc, pol, cfg, post, att, captured>>
tools == <<at, args, appoint, ops>>
history == <<overlapped, reopened, lost, appointed>>
vars == <<chain, pending, block, tools, history>>

-----------------------------------------------------------------------------
(* The policy documents.                                                   *)

Keyed(k) == [key |-> k, type |-> None, by |-> None]
Attested(type, by) == [key |-> None, type |-> type, by |-> by]
Grant(to, can, on) == [to |-> to, can |-> can, on |-> on]

Membership(c) == <<"membership", c>>
Moderator(c) == <<"role:moderator", c>>
Ban == <<"ban", None>>

POST == {"create", "update"}

\* The policy of a closed community.
community_policy(c, issuer) ==
  [roles |-> [member |-> {Attested(Membership(None), issuer)}],
   grants |-> {Grant("member", POST, "spaces")},
   banBy |-> issuer]

\* Mutant: members may post, which covers updates of what others own.
PolicyOpenPost(c, issuer) ==
  [roles |-> [member |-> {Attested(Membership(c), Anyone)},
              moderator |-> {Attested(Moderator(c), issuer)},
              sys |-> {Keyed(Sys)}],
   grants |-> {Grant("member", POST, "spaces"), Grant("moderator", {"delete"}, "spaces"),
               Grant("sys", {"delete"}, "subtree")},
   banBy |-> issuer]

\* Mutant: members hold every right on what is below the spaces.
PolicyOpenGovern(c, issuer) ==
  [roles |-> [member |-> {Attested(Membership(c), Anyone)},
              moderator |-> {Attested(Moderator(c), issuer)},
              sys |-> {Keyed(Sys)}],
   grants |-> {Grant("member", {"create", "govern"}, "spaces"), Grant("owner", {"update"}, "spaces"),
               Grant("moderator", {"delete"}, "spaces"), Grant("sys", {"delete"}, "subtree")},
   banBy |-> issuer]

community_policy_open(c, issuer) ==
  [roles |-> [member |-> {Attested(Membership(c), Anyone)},
              moderator |-> {Attested(Moderator(c), issuer)},
              sys |-> {Keyed(Sys)}],
   grants |-> {Grant("member", {"create"}, "spaces"), Grant("owner", {"update"}, "spaces"),
               Grant("moderator", {"delete"}, "spaces"), Grant("sys", {"delete"}, "subtree")},
   banBy |-> issuer]

\* Mutant: the admin rights are granted to the sys key as well as to the role.
HubPolicyOfKey(admins) ==
  [roles |-> [admin |-> {Keyed(k) : k \in admins}, sys |-> {Keyed(Sys)}],
   grants |-> {Grant("owner", POST \cup {"delete"}, "own"), Grant("*", POST, "dnssec"),
               Grant("admin", POST \cup {"transfer", "delete", "govern"}, "all"),
               Grant("sys", POST \cup {"transfer", "delete", "govern"}, "all")},
   banBy |-> Anyone]

\* The hub root policy, with the admins that set-root-admin may replace.  Its
\* grants on names and checkpoints concern no write of this module.
hub_policy(admins) ==
  [roles |-> [admin |-> {Keyed(k) : k \in admins}],
   grants |-> {Grant("owner", POST \cup {"delete"}, "own"), Grant("*", POST, "dnssec"),
               Grant("admin", POST \cup {"transfer", "delete", "govern"}, "all")},
   banBy |-> Anyone]

\* The marks of no policy and of a deleted one are not policies.
ASSUME PolicyAssumption ==
  /\ \A admins \in SUBSET {Sys, Successor} : hub_policy(admins) \notin {None, Ghost}
  /\ \A c \in Comms, i \in Issuers :
       {community_policy(c, i), community_policy_open(c, i)} \cap {None, Ghost} = {}

IsAdmin(k) == \E r \in root.roles.admin : r.key = k

-----------------------------------------------------------------------------
(* Messages, and what the daemon admits.                                   *)

Msg(by, act, kind, c, val) == [by |-> by, act |-> act, kind |-> kind, c |-> c, val |-> val]
Attestation(type, issuer, subject) == [type |-> type, issuer |-> issuer, subject |-> subject]

Governing == {"root", "policy", "subpolicy"}
Identities == {"domain", "sys", "sys-checkpointer", "brokers"}
InSpaces == {"config", "post", "subpolicy"}

Present(m) ==
  \/ m.kind = "community" /\ desc[m.c] # None
  \/ m.kind = "policy" /\ pol[m.c] \notin {None, Ghost}
  \/ m.kind = "config" /\ m.val \in cfg[m.c]
  \/ m.kind = "post" /\ post[m.c] # None
  \/ m.kind = "attestation" /\ m.val \in att

\* Descriptors and configs are written by the sys key only.
OwnerOf(m) ==
  IF m.kind = "post" /\ Present(m) THEN post[m.c]
  ELSE IF m.kind \in {"community", "config"} /\ Present(m) THEN Sys
  ELSE m.by

RightFor(m) ==
  IF m.kind \in Governing THEN "govern"
  ELSE IF m.act = "delete" THEN "delete"
  ELSE IF Present(m) THEN "update" ELSE "create"

Covers(area, m) ==
  \/ area = "all"
  \/ area = "own" /\ m.kind = "attestation" /\ m.val.issuer = m.by
  \/ area = "dnssec" /\ m.kind = "dnssec"
  \/ area = "spaces" /\ m.kind \in InSpaces
  \/ area = "subtree" /\ m.kind \in InSpaces \cup {"community"}

Holds(req, who) ==
  \/ req.key # None /\ req.key = who
  \/ \E a \in att : a.type = req.type /\ a.subject = who /\ req.by \in {a.issuer, Anyone}

Grantee(p, to, m) ==
  \/ to = "*"
  \/ to = "owner" /\ OwnerOf(m) = m.by
  \/ to \in DOMAIN p.roles /\ \E req \in p.roles[to] : Holds(req, m.by)

Banned(p, who) == \E a \in att : a.type = Ban /\ a.subject = who /\ p.banBy \in {a.issuer, Anyone}

Granted(p, m) ==
  /\ \E g \in p.grants : RightFor(m) \in g.can /\ Covers(g.on, m) /\ Grantee(p, g.to, m)
  /\ m.kind \in InSpaces => ~Banned(p, m.by)

Governor(m) ==
  IF m.kind \in InSpaces \cup {"community"} /\ pol[m.c] # None THEN pol[m.c] ELSE root

\* An email identity is recognised while the domain's proof is valid.
Admitted(m, proven) ==
  /\ m.act = "delete" => Present(m)
  /\ m.kind = "domain" => (m.val = "certified" => fresh)
  /\ \/ root = None
     \/ /\ m.by \in Users \cup Issuers => proven
        /\ \/ m.act = "delete" /\ m.kind \notin Governing /\ OwnerOf(m) = m.by
           \/ Governor(m) # Ghost /\ Granted(Governor(m), m)

ProofPending == \E n \in DOMAIN pending : pending[n][1].kind = "dnssec"

\* /v1/submit: a proof that is still pending may count.
Taken(batch) ==
  /\ Len(pending) < MaxPending
  /\ \E proven \in {fresh, fresh \/ ProofPending} : \A n \in DOMAIN batch : Admitted(batch[n], proven)
  /\ pending' = Append(pending, batch)

\* GET /v1/object serves what is confirmed and what is pending.
Served(c) == desc[c] # None \/ \E n \in DOMAIN pending : \E k \in DOMAIN pending[n] :
  pending[n][k].kind = "community" /\ pending[n][k].act = "post" /\ pending[n][k].c = c

-----------------------------------------------------------------------------
(* mingo genesis.                                                          *)

PolicyOf(a) ==
  IF a.open THEN community_policy_open(a.c, a.issuer) ELSE community_policy(a.c, a.issuer)

GenesisArgs(c) == [c |-> c, issuer |-> IssuerAt[c], open |-> TRUE, spaces |-> <<General>>, replace |-> FALSE]

community(a) == Msg(Sys, "post", "community", a.c, a)

collection_config(c, space) == Msg(Sys, "post", "config", c, space)

\* The starter communities: descriptor, policy, space config.
genesis_community(c) ==
  <<community(GenesisArgs(c)), Msg(Sys, "post", "policy", c, community_policy_open(c, IssuerAt[c])),
    collection_config(c, General)>>

genesis_communities ==
  [n \in 1 .. 3 * Len(GenesisComms) |-> genesis_community(GenesisComms[(n + 2) \div 3])[((n + 2) % 3) + 1]]

\* The domain's proof, if there is one, and the domain that refers to it.
genesis_domain(evidence) ==
  IF evidence THEN <<Msg(Sys, "post", "dnssec", None, None), Msg(Sys, "post", "domain", None, "certified")>>
              ELSE <<Msg(Sys, "post", "domain", None, "plain")>>

\* The identities of sys and of the checkpointer, and the pinned broker.
genesis_identities ==
  <<Msg(Sys, "post", "sys", None, None), Msg(Sys, "post", "sys-checkpointer", None, None),
    Msg(Sys, "post", "brokers", None, None)>>

RootMessage(admins) == Msg(Sys, "post", "root", None, hub_policy(admins))

\* Mutant: the root policy first.
GenesisRootFirst(evidence) ==
  <<RootMessage({Sys})>> \o genesis_domain(evidence) \o genesis_identities
  \o genesis_communities

mingo_genesis(evidence) ==
  genesis_domain(evidence) \o genesis_identities
  \o genesis_communities \o <<RootMessage({Sys})>>

NoAppointment == [at |-> "idle", c |-> None, subject |-> None]

Init ==
  /\ sysObjs = {} /\ fresh = FALSE /\ root = None /\ att = {} /\ captured = {}
  /\ desc = [c \in Comms |-> None] /\ pol = desc /\ post = desc
  /\ cfg = [c \in Comms |-> {}]
  /\ pending = <<>> /\ \E evidence \in BOOLEAN : block = mingo_genesis(evidence)
  /\ at = [o \in Operators |-> "idle"] /\ args = [o \in Operators |-> None]
  /\ appoint = NoAppointment
  /\ ops = 0
  /\ overlapped = FALSE /\ reopened = {} /\ lost = FALSE /\ appointed = {}

-----------------------------------------------------------------------------
(* mingo create-community.                                                 *)

\* Mutant: the order of the genesis.
PolicyFirst(a) ==
  <<community(a), Msg(Sys, "post", "policy", a.c, PolicyOf(a))>>
  \o [n \in DOMAIN a.spaces |-> collection_config(a.c, a.spaces[n])]

CreateBatch(a) ==
  <<community(a)>>
  \o [n \in DOMAIN a.spaces |-> collection_config(a.c, a.spaces[n])]
  \o <<Msg(Sys, "post", "policy", a.c, PolicyOf(a))>>

signed_delete(kind, c) == Msg(Sys, "delete", kind, c, None)

\* Mutant: only the descriptor is cleared.
ClearDescriptor(a) == <<signed_delete("community", a.c)>>

ClearBatch(a) == <<signed_delete("policy", a.c), signed_delete("community", a.c)>>

\* What exists answers: any error status reads as absent.
exists(c) == {FALSE, Served(c)}

\* submit: the POST is taken and answered, taken with its answer lost, or refused.
submit(batch) == Taken(batch) \/ UNCHANGED pending

Arguments ==
  [c : Comms, issuer : Issuers, open : BOOLEAN, spaces : SpaceLists, replace : BOOLEAN]

\* No descriptor is not a descriptor.
ASSUME ArgumentsAssumption == None \notin Arguments

\* The check of the arguments, then exists.
Begin(o) ==
  /\ at[o] = "idle" /\ ops < MaxOps /\ root # None
  /\ \E a \in Arguments :
       /\ a.spaces # <<>> /\ Range(a.spaces) \subseteq Segments
       /\ \E found \in exists(a.c) : found => a.replace
       /\ args' = [args EXCEPT ![o] = a]
       /\ at' = [at EXCEPT ![o] = IF a.replace THEN "clear" ELSE "write"]
  /\ ops' = ops + 1
  /\ UNCHANGED <<chain, pending, block, appoint, history>>

Ended(o) == at' = [at EXCEPT ![o] = "idle"] /\ args' = [args EXCEPT ![o] = None]

\* The batch that clears the old community; the tool goes on if it is answered.
Clear(o) ==
  /\ at[o] = "clear"
  /\ \/ Taken(ClearBatch(args[o])) /\ at' = [at EXCEPT ![o] = "wait"] /\ UNCHANGED args
     \/ submit(ClearBatch(args[o])) /\ Ended(o)
  /\ UNCHANGED <<chain, block, appoint, ops, history>>

\* The old community is no longer served, or the read failed with a status.
Cleared(o) ==
  /\ at[o] = "wait"
  /\ FALSE \in exists(args[o].c)
  /\ at' = [at EXCEPT ![o] = "write"]
  /\ UNCHANGED <<chain, pending, block, args, appoint, ops, history>>

\* Five minutes have passed, or a read got no answer at all.
GiveUp(o) ==
  /\ at[o] = "wait"
  /\ Ended(o)
  /\ UNCHANGED <<chain, pending, block, appoint, ops, history>>

InCreation ==
  \E s \in {block} \cup Range(pending) : \E n \in DOMAIN s : s[n].kind = "policy" /\ s[n].act = "post"

\* The POST of the new community.
Write(o) ==
  /\ at[o] = "write"
  /\ submit(CreateBatch(args[o]))
  /\ Ended(o)
  /\ overlapped' = (overlapped \/ InCreation \/ \E p \in Operators \ {o} : at[p] # "idle")
  /\ UNCHANGED <<chain, block, appoint, ops, reopened, lost, appointed>>

\* mingo open-community, and the operator who posts the file it writes.
OpenCommunity(c, issuer) ==
  /\ ops < MaxOps /\ root # None
  /\ Taken(<<Msg(Sys, "post", "policy", c, community_policy_open(c, issuer))>>)
  /\ ops' = ops + 1 /\ reopened' = reopened \cup {c}
  /\ UNCHANGED <<chain, block, at, args, appoint, overlapped, lost, appointed>>

-----------------------------------------------------------------------------
(* mingo appoint-moderator.                                                *)

\* A proof of the domain, which any signer may post.
Proof == Msg(None, "post", "dnssec", None, None)

AppointBegin(c, u) ==
  /\ appoint.at = "idle" /\ ops < MaxOps /\ root # None
  /\ appoint' = [at |-> "refresh", c |-> c, subject |-> u]
  /\ ops' = ops + 1
  /\ UNCHANGED <<chain, pending, block, at, args, history>>

\* ensure_dnssec_fresh: the daemon asks for no refresh or has no proof to offer,
\* or the proof is submitted; any failure ends the run.
AppointRefresh ==
  /\ appoint.at = "refresh"
  /\ \/ UNCHANGED pending /\ appoint' = [appoint EXCEPT !.at = "provision"]
     \/ Taken(<<Proof>>) /\ appoint' = [appoint EXCEPT !.at = "provision"]
     \/ submit(<<Proof>>) /\ appoint' = NoAppointment
  /\ UNCHANGED <<chain, block, at, args, ops, history>>

\* The IdP certifies the issuer's identity, or refuses.
AppointProvision ==
  /\ appoint.at = "provision"
  /\ appoint' \in {[appoint EXCEPT !.at = "submit"], NoAppointment}
  /\ UNCHANGED <<chain, pending, block, at, args, ops, history>>

\* Mutant: the subject attests itself.
build_plan_self(c, u) == Msg(u, "post", "attestation", None, Attestation(Moderator(c), u, u))

build_plan(c, u) ==
  Msg(IssuerAt[c], "post", "attestation", None, Attestation(Moderator(c), IssuerAt[c], u))

AppointSubmit ==
  /\ appoint.at = "submit"
  /\ \/ /\ Taken(<<build_plan(appoint.c, appoint.subject)>>)
        /\ appointed' \in {appointed, appointed \cup {<<appoint.c, appoint.subject>>}}
     \/ UNCHANGED <<pending, appointed>>
  /\ appoint' = NoAppointment
  /\ UNCHANGED <<chain, block, at, args, ops, overlapped, reopened, lost>>

-----------------------------------------------------------------------------
(* Writes of members, issuers and admins, by whatever client.              *)

UserMessages ==
  {Msg(u, act, "post", c, None) : u \in Users, act \in {"post", "delete"}, c \in Comms}
  \cup {Msg(u, "post", "subpolicy", c, None) : u \in Users, c \in Comms}
  \cup {Msg(u, "post", "attestation", None, Attestation(type, u, u)) :
          u \in Users, type \in {Membership(c) : c \in Comms} \cup {Moderator(c) : c \in Comms}}
  \cup {Msg(i, "post", "attestation", None, Attestation(type, i, u)) :
          i \in Issuers, u \in Users, type \in {Membership(None), Ban}}
  \cup {Msg(Sys, "delete", "post", c, None) : c \in Comms}
  \cup {RootMessage(admins) : admins \in {{Sys, Successor}, {Successor}}}
  \cup {Proof}

ClientWrite(m) ==
  /\ ops < MaxOps /\ root # None /\ Len(pending) < MaxClientPending
  /\ Taken(<<m>>)
  /\ ops' = ops + 1
  /\ UNCHANGED <<chain, block, at, args, appoint, history>>

-----------------------------------------------------------------------------
(* The daemon: a block is synced message by message.                       *)

StartBlock ==
  /\ pending # <<>>
  /\ block' = Head(pending) /\ pending' = Tail(pending)
  /\ UNCHANGED <<chain, tools, history>>

\* The oldest batch is in no block.
Drop ==
  /\ pending # <<>>
  /\ pending' = Tail(pending) /\ lost' = TRUE
  /\ UNCHANGED <<chain, block, tools, overlapped, reopened, appointed>>

\* The validity of the proof ends.
Lapse ==
  /\ fresh /\ root # None
  /\ fresh' = FALSE
  /\ lost' = (lost \/ pending # <<>> \/ block # <<>>)
  /\ UNCHANGED <<sysObjs, root, desc, pol, cfg, post, att, captured, pending, block, tools,
                 overlapped, reopened, appointed>>

Apply(m) ==
  /\ sysObjs' = IF m.kind \in Identities THEN sysObjs \cup {m.kind} ELSE sysObjs
  /\ fresh' = (fresh \/ m.kind = "dnssec")
  /\ root' = IF m.kind = "root" THEN m.val ELSE root
  /\ desc' = IF m.kind = "community" THEN [desc EXCEPT ![m.c] = m.val] ELSE desc
  /\ pol' \in IF m.kind # "policy" THEN {pol}
             ELSE {[pol EXCEPT ![m.c] = p] : p \in IF m.act = "delete" THEN {None, Ghost} ELSE {m.val}}
  /\ cfg' = IF m.kind = "config" THEN [cfg EXCEPT ![m.c] = @ \cup {m.val}] ELSE cfg
  /\ post' = IF m.kind # "post" THEN post
             ELSE [post EXCEPT ![m.c] = IF m.act = "delete" THEN None ELSE m.by]
  /\ att' = IF m.kind = "attestation" THEN att \cup {m.val} ELSE att
  /\ captured' = IF m.kind = "subpolicy" THEN captured \cup {m.c} ELSE captured

Replay ==
  /\ block # <<>>
  /\ IF Admitted(Head(block), fresh) THEN Apply(Head(block)) ELSE UNCHANGED chain
  /\ block' = Tail(block)
  /\ UNCHANGED <<pending, tools, history>>

Request ==
  \/ \E o \in Operators : Begin(o) \/ Clear(o) \/ Cleared(o) \/ GiveUp(o) \/ Write(o)
  \/ \E c \in Comms, i \in Issuers : OpenCommunity(c, i)
  \/ \E c \in Comms, u \in Users : AppointBegin(c, u)
  \/ AppointRefresh \/ AppointProvision \/ AppointSubmit
  \/ \E m \in UserMessages : ClientWrite(m)
  \/ StartBlock \/ Drop \/ Lapse

Next == (block = <<>> /\ Request) \/ Replay

Spec == Init /\ [][Next]_vars

-----------------------------------------------------------------------------
(* Properties.                                                             *)

Policies == {community_policy(c, i) : c \in Comms, i \in Issuers}
            \cup {community_policy_open(c, i) : c \in Comms, i \in Issuers}

HubPolicies == {hub_policy(admins) : admins \in SUBSET {Sys, Successor}}
PoliciesFor(c) == {community_policy(c, i) : i \in Issuers} \cup {community_policy_open(c, i) : i \in Issuers}

\* Nobody is a member on another's word.
Types == {Membership(c) : c \in Comms \cup {None}} \cup {Moderator(c) : c \in Comms} \cup {Ban}
Attestations ==
  {a \in [type : Types, issuer : Users \cup Issuers, subject : Users] :
     \A c \in Comms : a.type = Membership(c) => a.issuer = a.subject}

Kinds == Governing \cup Identities \cup InSpaces \cup {"dnssec", "community", "attestation"}
Payloads == {None, "certified", "plain"} \cup HubPolicies \cup Policies \cup Arguments \cup Segments \cup Attestations

\* Who writes what, of all the tools and clients: the documents that govern come
\* from sys only, and a user installs at most a policy below the spaces.
Sound(m) ==
  /\ m.kind = "root" => m.by = Sys /\ m.act = "post" /\ m.val \in HubPolicies
  /\ m.kind = "policy" => m.by = Sys /\ m.c \in Comms /\ (m.act = "post" => m.val \in PoliciesFor(m.c))
  /\ m.kind = "subpolicy" => m.by \in Users /\ m.c \in Comms
  /\ m.kind = "community" =>
       m.by = Sys /\ m.c \in Comms /\ m.val \in Arguments \cup {None} /\ (m.act = "delete" => m.val = None)
  /\ m.kind = "config" => m.by = Sys /\ m.act = "post" /\ m.c \in Comms /\ m.val \in Segments
  /\ m.kind = "post" => m.c \in Comms /\ (m.by \in Users \/ (m.by = Sys /\ m.act = "delete"))
  /\ m.kind = "attestation" => m.val \in Attestations
  /\ m.kind = "dnssec" => m.act = "post" /\ m.by \in {Sys, None}

Messages ==
  {m \in [by : Users \cup Issuers \cup {Sys, None}, act : {"post", "delete"}, kind : Kinds,
          c : Comms \cup {None}, val : Payloads] : Sound(m)}
Batches == Seq(Messages) \ {<<>>}

\* The arguments that pass create-community's own check.
Checked == {a \in Arguments : Range(a.spaces) \subseteq Segments}

\* What is on its way to the chain is written by the tools and clients, and by each
\* of them only what it may write.
TypeOK ==
  /\ sysObjs \subseteq Identities
  /\ fresh \in BOOLEAN
  /\ root \in {None} \cup HubPolicies
  /\ desc \in [Comms -> Arguments \cup {None}]
  /\ pol \in [Comms -> Policies \cup {None, Ghost}]
  /\ cfg \in [Comms -> SUBSET Segments]
  /\ post \in [Comms -> Users \cup {None}]
  /\ att \subseteq Attestations /\ captured \subseteq Comms
  /\ pending \in Seq(Batches) /\ block \in Seq(Messages)
  /\ at \in [Operators -> {"idle", "clear", "wait", "write"}]
  /\ args \in [Operators -> Checked \cup {None}]
  /\ \A o \in Operators : at[o] # "idle" => args[o] # None
  /\ appoint \in [at : {"idle", "refresh", "provision", "submit"}, c : Comms \cup {None},
                  subject : Users \cup {None}]
  /\ appoint.at # "idle" => appoint.c # None /\ appoint.subject # None
  /\ appointed \subseteq Comms \X Users
  /\ ops \in 0 .. MaxOps

Quiet == block = <<>> /\ pending = <<>>

\* "Emitted in dependency order so every write before the hub root policy is
\* admitted in genesis mode": once the root policy is in force nothing of the
\* genesis is missing, with and without DNSSEC evidence.
GenesisComplete ==
  root # None =>
    /\ sysObjs = Identities
    /\ \A n \in DOMAIN GenesisComms : General \in cfg[GenesisComms[n]]

\* "leaving a community with no spaces": a community whose policy is in force
\* has every space its creation named, and the policy is the one its descriptor
\* announces, however submits are refused, lost, dropped or repeated, across
\* replacements and an admin cutover in the middle of one.  The reservation is
\* needed: of two creations in flight the later one takes the policy only.
WholeUnlessOverlapped ==
  \A c \in Comms : (~overlapped /\ desc[c] # None /\ pol[c] \notin {None, Ghost} /\ c \notin reopened
                    /\ block = <<>>) =>
    pol[c] = PolicyOf(desc[c]) /\ Range(desc[c].spaces) \subseteq cfg[c]

\* Whatever a failed, lost or abandoned replacement left behind, running
\* create-community again is accepted message by message, unless the daemon
\* keeps deleted policies or the sys key is no longer admin.
RecoverableByRerun ==
  (Quiet /\ root # None) => (IsAdmin(Sys) =>
    \A a \in Arguments : (desc[a.c] = None /\ pol[a.c] # Ghost /\ a.c \notin reopened) =>
      \A n \in DOMAIN CreateBatch(a) : Admitted(CreateBatch(a)[n], fresh))

\* "Members are NOT granted `govern`, so they cannot install a shadowing
\* policy": no member ever does, under any policy a community goes through and
\* while it has none.
Uncaptured == captured = {}

\* What appoint-moderator reported as done is so: the subject can delete any
\* content of a community governed by its open policy.
AppointedCanModerate ==
  \A x \in appointed :
    (/\ Quiet /\ ~lost
     /\ pol[x[1]] = community_policy_open(x[1], IssuerAt[x[1]]) /\ post[x[1]] # None
     /\ ~Banned(pol[x[1]], x[2])) => Admitted(Msg(x[2], "delete", "post", x[1], None), TRUE)

\* The reasons a content slot may change: a new object by a member who is not
\* banned; an update by its owner, or in a closed community by any member; and
\* a removal by its owner, a moderator the issuer appointed, or sys.
ContentStep(c) ==
  LET by == Head(block).by
      issuer == pol[c].banBy
      member == \/ pol[c] = community_policy(c, issuer) /\ Attestation(Membership(None), issuer, by) \in att
                \/ pol[c] = community_policy_open(c, issuer) /\ Attestation(Membership(c), by, by) \in att
  IN \/ post'[c] = by /\ post[c] = by
     \/ post'[c] = by /\ member /\ Attestation(Ban, issuer, by) \notin att
        /\ (post[c] = None \/ pol[c] = community_policy(c, issuer))
     \/ post'[c] = None /\ (by = Sys \/ by = post[c] \/ Attestation(Moderator(c), issuer, by) \in att)

\* No step changes content for any other reason, whatever was written in the
\* meantime: self-made moderator roles, bans, new policies, replaced communities.
ContentRule == [][\A c \in Comms : post'[c] # post[c] => ContentStep(c)]_vars

\* After the cutover the sys key creates nothing and governs nothing, messages
\* of it that were pending included; it can only still remove.
RetiredKeyOnlyRemoves ==
  [][(root # None /\ ~IsAdmin(Sys)) =>
       /\ root' = root /\ pol' = pol /\ cfg' = cfg
       /\ \A c \in Comms : desc'[c] \in {desc[c], None}]_vars
=============================================================================
