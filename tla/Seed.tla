-------------------------------- MODULE Seed --------------------------------
(***************************************************************************)
(* `mingo seed` (mingo-app/src/seed.rs): the validation of a corpus, the   *)
(* plan of writes built from it, and its execution against a live daemon:  *)
(* DNSSEC refresh, provisioning, widening of each space's authoring lag,   *)
(* the writes with their retries, and the restoring of the lag.            *)
(*                                                                         *)
(* Ages are minutes.  An object id is the tuple of what it is derived      *)
(* from; bodies, labels and wire bytes are left out.  The daemon is        *)
(* external: it takes an attributed write of a member within the lag, and  *)
(* of two versions of an object it keeps the one with the later HLC, that  *)
(* is the start of the run that wrote it less its age.                     *)
(***************************************************************************)
EXTENDS Integers, Sequences, FiniteSets, SequencesExt, FiniteSetsExt

CONSTANTS
  Personas,      \* the handles of the corpus
  External,      \* those with an external_email, certified by the broker
  Communities,   \* LIVE_COMMUNITIES
  Candidates,    \* corpora offered to the tool, valid or not
  KNEE, CAP,     \* CLAMP_KNEE_HOURS, CLAMP_CAP_HOURS
  GENESIS_LAG, WIDENED_LAG,
  MAX_CORPUS_AGE,
  RETRIES,       \* Len(RETRY_BACKOFF_S)
  MaxRuns

ASSUME SeedAssumption ==
  /\ External \subseteq Personas
  /\ {KNEE, CAP, GENESIS_LAG, WIDENED_LAG, MAX_CORPUS_AGE, RETRIES, MaxRuns} \subseteq Nat
  /\ KNEE < CAP /\ CAP < GENESIS_LAG /\ MAX_CORPUS_AGE < WIDENED_LAG

\* A corpus is a JSON file.
ASSUME CorporaAssumption ==
  \A c \in Candidates :
    /\ IsFiniteSet(c.comms) /\ IsFiniteSet(c.posts) /\ IsFiniteSet(c.replies)
    /\ IsFiniteSet(c.attests)
    /\ \A x \in c.posts \cup c.replies : x.age \in Int

VARIABLES
  pc,        \* the step of execute, or idle, ok, failed
  plan,      \* Plan.items
  comms,     \* Plan.communities
  keyed,     \* --sys-key was given
  i,         \* the index in the list the step walks
  tries,     \* retries used by the current submit
  result,    \* what submit_items returned
  runs,      \* runs started
  fresh,     \* daemon: issuers with a valid DNSSEC proof
  lag,       \* daemon: max_authoring_lag of each community's space
  objects,   \* daemon: the objects written, each with its age and the run that wrote it
  unproven,  \* history: the issuers this run passed over without a proof, or whose proof ended since
  refused,   \* history: what the daemon turned down in this run, and why
  configLost \* history: a _config write failed, or the tool was killed

tool == <<pc, i, tries, result>>
setup == <<plan, comms, keyed, runs>>
proofs == <<fresh, unproven>>
daemon == <<proofs, lag, objects>>
vars == <<tool, setup, daemon, refused, configLost>>

Idp == "idp"
Broker == "broker"
Issuer(h) == IF h \in External THEN Broker ELSE Idp

-----------------------------------------------------------------------------
(* The corpus: its communities, and sets of posts, replies (comments and   *)
(* upvotes) and attestations (vouches and badges).                         *)

CheckAge(age) == age > 0 /\ age <= MAX_CORPUS_AGE

\* Corpus::validate.  Only vouches are of type vouch.  A reply sits inside its
\* post; an upvote is identified by its voter, a comment by its position.
Valid(c) ==
  /\ c.comms \subseteq Communities
  /\ \A p \in c.posts : p.comm \in c.comms /\ p.author \in Personas /\ CheckAge(p.age)
  /\ \A p, q \in c.posts : (p.comm = q.comm /\ p.slug = q.slug) => p = q
  /\ \A r \in c.replies :
       \E p \in c.posts : /\ p.comm = r.comm /\ p.slug = r.slug
                          /\ r.author \in Personas \ {p.author}
                          /\ CheckAge(r.age) /\ r.age < p.age
  /\ \A r, s \in c.replies : (r.id = s.id /\ r.comm = s.comm /\ r.slug = s.slug) => r = s
  /\ \A a \in c.attests : {a.from, a.to} \subseteq Personas /\ a.from # a.to
  /\ \A a \in c.attests : a.kind = "badge" => a.type \notin {"vouch", "ban"}

\* max_age_hours: of the posts, which are older than their replies.
MaxAge(c) == Max({p.age : p \in c.posts} \cup {0})

\* Mutant: ages are spread over the cap above the knee, not up to it.
LooseClamp(age, max, clamp) ==
  IF ~clamp \/ max <= CAP \/ age <= KNEE THEN age
  ELSE KNEE + ((age - KNEE) * CAP) \div (max - KNEE)

effective_age(age, max, clamp) ==
  IF ~clamp \/ max <= CAP \/ age <= KNEE THEN age
  ELSE KNEE + ((age - KNEE) * (CAP - KNEE)) \div (max - KNEE)

-----------------------------------------------------------------------------
(* build_plan.                                                             *)

PostKey(comm, slug) == <<"space", comm, "p", slug>>
MemberKey(h, comm) == <<"u", h, h, "membership-" \o comm>>

\* An item: its object, its owner, its age if it carries an HLC, the
\* membership it needs and the object it answers.
Content(key, h, comm, age, parent) ==
  [key |-> key, owner |-> h, dated |-> TRUE, age |-> age, comm |-> comm,
   needs |-> {MemberKey(h, comm)}, parent |-> parent]
Attestation(from, to, id) ==
  [key |-> <<"u", from, to, id>>, owner |-> from, dated |-> FALSE, age |-> 0, comm |-> "",
   needs |-> {}, parent |-> {}]

\* The closure eff of build_plan.
age_of(c, x, clamp) == effective_age(x.age, MaxAge(c), clamp)

Memberships(c) ==
  {Attestation(x.author, x.author, "membership-" \o x.comm) : x \in c.posts \cup c.replies}
Posts(c, clamp) ==
  {Content(PostKey(p.comm, p.slug), p.author, p.comm, age_of(c, p, clamp), {}) : p \in c.posts}
Replies(c, kind, clamp) ==
  {Content(<<"space", r.comm, kind, r.slug, r.id>>, r.author, r.comm, age_of(c, r, clamp),
           {PostKey(r.comm, r.slug)}) : r \in {x \in c.replies : x.kind = kind}}
Attested(c, kind) ==
  {Attestation(a.from, a.to, a.type) : a \in {x \in c.attests : x.kind = kind}}

\* Sorted by age; of two of the same age either comes first.
OldestFirst(S) ==
  LET D == 1 .. Cardinality(S)
  IN CHOOSE f \in [D -> S] : IsInjective(f) /\ \A m, n \in D : m < n => f[m].age >= f[n].age

\* Mutant: the replies before what they answer.
PlanRepliesFirst(c, clamp) ==
  SetToSeq(Memberships(c)) \o OldestFirst(Replies(c, "c", clamp)) \o OldestFirst(Posts(c, clamp))
    \o OldestFirst(Replies(c, "r", clamp))

\* In the order of submission.
build_plan(c, clamp) ==
  SetToSeq(Memberships(c)) \o OldestFirst(Posts(c, clamp))
    \o OldestFirst(Replies(c, "c", clamp)) \o OldestFirst(Replies(c, "r", clamp))
    \o SetToSeq(Attested(c, "vouch")) \o SetToSeq(Attested(c, "badge"))

-----------------------------------------------------------------------------
(* execute.                                                                *)

Running == {"dnssec", "dnssec_broker", "provision", "widen", "items", "restore"}

Init ==
  /\ pc = "idle" /\ plan = <<>> /\ comms = <<>> /\ keyed = FALSE
  /\ i = 1 /\ tries = 0 /\ result = "ok" /\ runs = 0
  /\ fresh \in SUBSET {Idp, Broker}
  /\ lag = [c \in Communities |-> GENESIS_LAG]
  /\ objects = <<>> /\ unproven = {} /\ refused = {} /\ configLost = FALSE

\* run: a valid corpus is planned, for all of its communities, also those without
\* posts, and the ages clamped without a sys key.  A re-run takes the corpus of
\* the first run.
Run ==
  /\ pc \in {"idle", "ok", "failed"} /\ runs < MaxRuns
  /\ \E c \in Candidates, k \in BOOLEAN :
       /\ Valid(c)
       /\ plan' = build_plan(c, ~k)
       /\ comms' = SetToSeq(c.comms)
       /\ runs > 0 => /\ {plan'[n].key : n \in DOMAIN plan'} = {plan[n].key : n \in DOMAIN plan}
                      /\ comms' = comms
       /\ keyed' = k
  /\ runs' = runs + 1
  /\ pc' = "dnssec" /\ i' = 1 /\ tries' = 0 /\ result' = "ok"
  /\ unproven' = {} /\ refused' = {}
  /\ UNCHANGED <<fresh, lag, objects, configLost>>

\* Go on to step p.
Goto(p) == pc' = p /\ i' = 1 /\ tries' = 0
\* execute returns early with `?`.
Abort == Goto("failed") /\ UNCHANGED result

\* A rate-limited submit is sent again after a sleep.
Retry ==
  /\ tries < RETRIES
  /\ tries' = tries + 1
  /\ UNCHANGED <<pc, i, result>>

\* The next step after a refresh: the broker's proof if any persona is external.
AfterDnssec == IF pc = "dnssec" /\ External # {} THEN "dnssec_broker" ELSE "provision"

\* ensure_dnssec_fresh, for the IdP and, with external personas, the broker:
\* fresh already; refreshed; due for a refresh, but without a proof to submit,
\* which is passed over as fresh; or an error that ends the run.
EnsureDnssec ==
  /\ pc \in {"dnssec", "dnssec_broker"}
  /\ LET d == IF pc = "dnssec" THEN Idp ELSE Broker IN
     \/ fresh' = fresh \cup {d} /\ unproven' = unproven \ {d} /\ Goto(AfterDnssec) /\ UNCHANGED result
     \/ d \notin fresh /\ unproven' = unproven \cup {d} /\ Goto(AfterDnssec) /\ UNCHANGED <<result, fresh>>
     \/ Retry /\ UNCHANGED proofs
     \/ Abort /\ fresh' \in {fresh, fresh \cup {d}} /\ UNCHANGED unproven
  /\ UNCHANGED <<setup, lag, objects, refused, configLost>>

\* All personas, at the IdP or at the broker; the first failure aborts.
Provision ==
  /\ pc = "provision"
  /\ \/ Goto(IF keyed THEN "widen" ELSE "items") /\ UNCHANGED result
     \/ Abort
  /\ UNCHANGED <<setup, daemon, refused, configLost>>

\* One _config write.  It may be taken although its answer is lost.
SubmitConfig(value, onFailure, whenDone) ==
  /\ \/ /\ lag' = [lag EXCEPT ![comms[i]] = value]
        /\ IF i < Len(comms) THEN i' = i + 1 /\ tries' = 0 /\ UNCHANGED pc ELSE Goto(whenDone)
        /\ UNCHANGED <<result, configLost>>
     \/ Retry /\ UNCHANGED <<lag, configLost>>
     \/ /\ lag' \in {lag, [lag EXCEPT ![comms[i]] = value]}
        /\ Goto(onFailure) /\ UNCHANGED result
        /\ configLost' = TRUE
  /\ UNCHANGED <<setup, proofs, objects, refused>>

\* Step 3: a failure returns at once.
Widen ==
  /\ pc = "widen"
  /\ IF comms = <<>> THEN Goto("items") /\ UNCHANGED <<setup, daemon, refused, configLost, result>>
     ELSE SubmitConfig(WIDENED_LAG, "failed", "items")

\* The daemon takes the write of an attributed member within the lag: what an
\* item lacks of it.
Lacks(item) ==
  (IF Issuer(item.owner) \in fresh THEN {} ELSE {"proof"})
    \cup (IF item.needs \subseteq DOMAIN objects THEN {} ELSE {"membership"})
    \cup (IF item.dated => item.age <= lag[item.comm] THEN {} ELSE {"lag"})
Admits(item) == Lacks(item) = {}

\* The objects with the item written by this run.  An older version is replaced;
\* whether this run is later by more than the difference is open when what is
\* there is younger.
Stamped(item) ==
  [k \in DOMAIN objects \cup {item.key} |->
     IF k = item.key THEN [age |-> item.age, run |-> runs] ELSE objects[k]]
Younger(item) == item.key \in DOMAIN objects /\ objects[item.key].age < item.age
Written(item) == {Stamped(item)} \cup (IF Younger(item) THEN {objects} ELSE {})

\* Mutant: a failed write ends the run before the configs are restored.
FinishAtOnce(r) == IF r = "ok" /\ keyed /\ comms # <<>> THEN "restore" ELSE r

\* Where submit_items leaves the run.
Finish(r) == IF keyed /\ comms # <<>> THEN "restore" ELSE r

\* submit_items has run out of items.
ItemsDone ==
  /\ pc = "items" /\ i > Len(plan)
  /\ Goto(Finish("ok"))
  /\ UNCHANGED <<setup, daemon, refused, configLost, result>>

\* Step 4, one item: taken, rate limited, or failed: refused, or lost on the way
\* there or back.  A failure ends the loop.
SubmitItem ==
  /\ pc = "items" /\ i <= Len(plan)
  /\ LET item == plan[i] IN
     \/ /\ Admits(item)
        /\ objects' \in Written(item)
        /\ i' = i + 1 /\ tries' = 0
        /\ UNCHANGED <<pc, result, refused>>
     \/ Retry /\ UNCHANGED <<objects, refused>>
     \/ /\ objects' \in {objects} \cup (IF Admits(item) THEN Written(item) ELSE {})
        /\ refused' = IF Admits(item) THEN refused
                      ELSE refused \cup {[owner |-> item.owner, lacks |-> Lacks(item)]}
        /\ Goto(Finish("failed")) /\ result' = "err"
  /\ UNCHANGED <<setup, proofs, lag, configLost>>

\* Mutant: the outcome of submit_items is dropped.
RestoreDropsResult ==
  /\ pc = "restore"
  /\ SubmitConfig(GENESIS_LAG, "failed", "ok")

\* Step 5, whatever submit_items returned; then its result is returned.
Restore ==
  /\ pc = "restore"
  /\ SubmitConfig(GENESIS_LAG, "failed", IF result = "ok" THEN "ok" ELSE "failed")

\* The operator interrupts the tool.
Killed ==
  /\ pc \in Running
  /\ Abort
  /\ configLost' = TRUE
  /\ UNCHANGED <<setup, daemon, refused>>

\* A proof ends: the check asks for an hour more, and a run may take longer.
ProofLapses ==
  /\ \E d \in fresh : fresh' = fresh \ {d} /\ unproven' = unproven \cup {d}
  /\ UNCHANGED <<tool, setup, lag, objects, refused, configLost>>

execute == EnsureDnssec \/ Provision \/ Widen \/ SubmitItem \/ ItemsDone \/ Restore

Next == Run \/ execute \/ Killed \/ ProofLapses

Spec == Init /\ [][Next]_vars

-----------------------------------------------------------------------------
(* Properties.                                                             *)

TypeOK ==
  /\ pc \in Running \cup {"idle", "ok", "failed"}
  /\ comms \in Seq(Communities)
  /\ \A n \in DOMAIN plan : /\ plan[n].owner \in Personas /\ plan[n].dated \in BOOLEAN
                            /\ plan[n].age \in Int /\ plan[n].dated => plan[n].comm \in Communities
  /\ i \in 1 .. Len(plan) + Len(comms) + 1
  /\ tries \in 0 .. RETRIES /\ result \in {"ok", "err"} /\ runs \in 0 .. MaxRuns
  /\ keyed \in BOOLEAN /\ configLost \in BOOLEAN
  /\ fresh \subseteq {Idp, Broker} /\ unproven \subseteq {Idp, Broker}
  /\ lag \in [Communities -> {GENESIS_LAG, WIDENED_LAG}]
  /\ \A k \in DOMAIN objects : objects[k].age \in Int /\ objects[k].run \in 1 .. runs
  /\ refused \subseteq [owner : Personas, lacks : SUBSET {"proof", "membership", "lag"}]

\* The daemon has no reason to turn an item down for what the plan did: at its
\* turn its owner's membership has been written and its age, clamped or widened,
\* is within the lag.  What is left is an issuer whose proof was due and not to be
\* had, which the run passes over as fresh, or ended while the run went on.
RefusedOnlyUnproven ==
  \A x \in refused : x.lacks = {"proof"} /\ Issuer(x.owner) \in unproven

\* Whatever was aborted, killed and run again, no comment or upvote is on the
\* chain without the post it answers, and none is older than it when one run
\* wrote both.  (A run that died may leave a reply of its own and the post of
\* another, clamped the one and the other not: nothing is promised of their
\* order.)
RepliesFollowPosts ==
  \A n \in DOMAIN plan : plan[n].key \in DOMAIN objects =>
     \A p \in plan[n].parent :
        /\ p \in DOMAIN objects
        /\ objects[p].run = objects[plan[n].key].run => objects[plan[n].key].age <= objects[p].age

\* "Restore the genesis 24h configs (even when a submit failed)": when a run
\* has ended and no _config write failed, every lag is the genesis one.
RestoredUnlessConfigLost ==
  (pc \notin Running /\ ~configLost) => \A c \in Communities : lag[c] = GENESIS_LAG

\* A run that reports success has written its whole plan over what earlier runs
\* left, except what they had dated younger, and has left the lag as it was in
\* the communities of the corpus.
OkMeansSeeded ==
  pc = "ok" =>
    /\ \A n \in DOMAIN plan :
         /\ plan[n].key \in DOMAIN objects
         /\ objects[plan[n].key].run = runs \/ objects[plan[n].key].age < plan[n].age
    /\ keyed => \A n \in DOMAIN comms : lag[comms[n]] = GENESIS_LAG
=============================================================================
