# mingo: a TLA+ verification project

mingo is a community site whose content lives on an SBO chain.  A post, a vote
or a membership is a signed object; who may write it is decided by certificates
and warrants that a BrowserID broker and mingo's own identity provider (IdP)
issue.  This project models the parts of the repository that carry this logic,
checks them with TLC on small instances and proves the most important safety
properties with TLAPS for every value of the constants.

Run one check with `tlc -config <run>.cfg <MC module>`, and the proofs of a
module with `tlapm <module>Proofs.tla` (`DaemonToolsProofs` takes about ten minutes, the
others less).  `PROJECT.json` lists every run, what it checks, the lines each definition stands for, the
hazards of the code and the mutants that show each property can fail.

## Inventory

| component | state | operations | talks to | what is hard |
|---|---|---|---|---|
| IdP store and session routes (`mingo-idp/src/store.rs`, `routes.rs`) | tables `accounts`, `sessions`, `agent_identities` behind one mutex | sign-in, claim a handle, use the external email, logout, admin seed and delete, agent names | browser cookies, admin | a handler is several Store calls; others run in between |
| mingo-poster (`mingo-idp/src/poster.rs`) | tables `poster_pending`, `poster_warrants` | enable, poll, status, disable, submit | broker, own mint, daemon | rows read before an await and written after it; expiry, revocation, lost answers |
| Device certificates (`mingo-idp/src/device.rs`, `static/device-authorize.html`) | none beside the session; the page holds what `whoami` said | issue device certs, mint access certs, the authorize page | session store, opener window | the session changes between two calls; reloads; a page that must answer |
| Presentation verification (`verify.rs`) | none | issuer resolution and the trust rule | DNS | pure |
| Web client, write path (`mingo-web/app.js`) | poster state and preference, popup, refresh in flight | posting through poster or popup, enabling and disabling the poster, DNSSEC refresh | IdP, broker, popup, daemon | callbacks in any order, reloads, timers racing late answers |
| Web client, views (`mingo-web/app.js`) | the session, the page, a live poller, caches | sign-in, routing, polling, editing, voting | IdP, broker, daemon | a view resumes after the user has left it |
| `mingo seed` (`mingo-app/src/seed.rs`) | spaces' `_config`, the objects it writes | validate, plan, widen, submit, restore | IdP, broker, daemon | one step of several failing; retries; re-runs |
| `mingo set-root-admin`, `add-policy-layer` | the root policy | fetch, edit, submit | daemon | read-modify-write without `prev`; unsynced and lost submissions |
| genesis, `create-community`, `open-community`, `appoint-moderator` (`genesis.rs`, `community.rs`, `create_community.rs`, `appoint.rs`) | policies, descriptors, space configs, attestations on the chain | write the first batch, create or replace a community, open it, appoint | daemon, IdP | order within a batch, replacement in two phases, which policy judges which write |
| `mingo login`, `post`, `whoami`, device import (`login.rs`, `device_login.rs`) | one credential file | device flow, import, post with read-back | broker, IdP, daemon | commands in several shells rewrite one file without a lock and may be killed |
| `mingo live-test` (`livetest.rs`) | what it installed, one verdict per scenario | thirteen scenarios of writes and waits, a sweep | daemon, IdP | verdicts drawn from timeouts, failed reads and an overlay that forgets |

What makes each part correct: a name has one holder and a session one owner
(store); what the poster stores and signs is what that user approved, and
switching it off ends it (poster); certs go to the identity that is signed in
and was asked for (device); a write lands once, by the route the user chose,
with proofs that are valid (web client); a run leaves the chain's settings as it
found them and can be repeated (seed); an edit changes only what it says, and
authority is not lost by accident (root policy); a community is whole or absent,
and its content changes only by those its policy names (communities); a command
posts only under a grant a human gave (command line); the list on the page comes
to agree with the daemon (views); a verdict means what it says (live test).

## Modules

| module | models | state and actions |
|---|---|---|
| `NameRegistry` | what the IdP promises about names: one table, one holder per name | abstract specification: `Claim`, `Remove`, `Enrol` |
| `IdpAccounts` | `store.rs` and the handlers of `routes.rs` | the tables by columns; each Store method is atomic, each handler a sequence of such steps in `req[r]` |
| `Poster` | `poster.rs` and its two tables | one action per handler segment between two awaits; broker, mint and daemon are external |
| `PosterPickup` | `pollPoster` and `pickupPoster` of `app.js`, on top of `Poster` | per account one loop with the tries it has left; its calls are polls of `Poster`, and may fail, be throttled or come without a session |
| `DeviceAuthorize` | `device-authorize.html` and the three handlers of `device.rs` | one visit of the page at a time; a handler is its lookups one by one (session, handle, enrolment, cert), and other tabs change session and handle between any two |
| `PosterClient` | the write gate of `app.js` and its poster switch | every fetch is sent, served and applied in three steps; each enable modal has a Continue and a poll of its own, which go on when the modal is closed; a reload keeps localStorage |
| `SignerClient` | the signer popup, the DNSSEC refresh and the client-signed half of `writeContent` | several writes share one popup and one refresh slot; a proof comes due, an hour before it ends, and ends |
| `Seed` | `seed.rs` | the plan is computed from a corpus by operators, `execute` is the state machine |
| `RootPolicy` | `set_root_admin.rs`, `add_policy_layer.rs` | operators with an edited copy each; a daemon that syncs, or drops, what is pending, and whose overlay may forget it first |
| `LiveView` | `route`, the views, the poller and its reconciliation in `app.js` | the page is its heading, the list in it and the rows; a view is a record that goes on after each await, whatever the page shows by then |
| `Communities` | `genesis.rs`, `create_community.rs`, `community.rs`, `appoint.rs` | policy documents are data; batches are judged at submit and again, message by message, when their block is replayed |
| `CliLogin` | `login.rs`, `device_login.rs` | one command per shell, each file operation a step; a command may be killed between any two |
| `LiveTest` | `livetest.rs` | a scenario is a script of writes and waits with what the code makes of each result; the engine under test may misjudge |
| `IdpAccountsProofs`, `PosterProofs`, `DeviceAuthorizeProofs`, `RootPolicyProofs`, `CommunitiesProofs`, `CliLoginProofs` | theorems about the module of that name | invariants, lemmas and proofs |
| `DaemonToolsProofs` | theorems about `Seed` and `LiveTest`, the tools that write through a daemon and judge by its answers (the definitions of `LiveTest` have names of their own: `LiveInit`, `LiveNext`, `LiveSpec`) | invariants, lemmas and proofs |
| `WebClientProofs` | theorems about `PosterClient`, `SignerClient` and `LiveView`, whose definitions have names of their own (`GateInit`, `SignerInit`, `ViewInit`) so that one module can take all three parts of the page | invariants, lemmas and proofs |
| `MC*` | instances for TLC | small sets and bounds |

Names of actions follow the functions of the source; where a function is split
at its awaits or Store calls the parts are named after it (`ClaimSetHandle`,
`PollApproved`, ...).  An operator marked *Mutant* in a comment is a faulty
variant of the definition that follows it and is used by no specification.

How the modules meet: `Poster` and `DeviceAuthorize` use the account's name and
session as `IdpAccounts` maintains them, cut down to what they read (`Rename`,
`DeleteAccount`, `SwitchSession`, `ClaimHandle`).  `PosterClient` contains the
server of `Poster` cut down to what a page can see of it.  `Communities` takes
the admin cutover of `RootPolicy` as one action (the sys key loses its role at
any time), and `CliLogin` and `LiveTest` meet the same daemon as `Communities`,
judging at submit and again on replay, cut down to their own objects.  `IdpAccounts`
implements `NameRegistry` by the mapping `HolderOf`: a name is held by the
account that has it as handle, or else by the agent row.

## What the runs show

| run | shows |
|---|---|
| `idp_accounts` | with two requests interleaving sign-ins, claims, seeds, deletions, expiry and agent enrolment, no name is held twice, an account shown by its handle has one, a session never resolves to the account of an email that did not sign in with it, and the tables implement `NameRegistry` |
| `poster_consent` | what is stored, and the owner under which a write is signed, stay those of one checked identity under renames, deletions and concurrent handlers; a disable that no poll overlaps ends the poster |
| `poster_clock` | a write is sent only while the DNSSEC proofs of both issuers are valid, and an approval that comes while the page has tries enough left is picked up, or found to be for somebody else, instead of being polled for until the tries are gone |
| `device_page` | agent access stays with agents that were certified; the dialog is handed the certs it asked for unless another tab changes session or handle after the page has compared; every visit ends, also one that was held and whose dialog never speaks again |
| `client_gate` | a write lands at most once; "off" survives stale answers, reloads, failed disables and the polls of modals that are gone |
| `signer_writes` | with two certifying domains and proofs that come due and end at any time, a write is submitted with valid proofs unless it joined the refresh of the other domain, could not check or took an hour after its check; every started write ends, whatever the popup and the user do |
| `live_view` | a poller belongs to the page shown unless views overtook each other; the list in the page comes to hold what the daemon serves, whatever polls failed or came late; a poll closes no open edit box of an item that is still served |
| `seed_runs` | for every corpus of the instance the daemon refuses an item for nothing but a proof that was not to be had or ended on the way; no reply is on the chain without its post, nor dated before it if the same run wrote both; a failed write still restores the lag; and success means the whole plan is written |
| `policy` | two operators never drop the sys key unacknowledged nor install an entry twice, and as long as their edits do not overlap, and none reads past a policy that the overlay has forgotten, no entry in force is lost or moved |
| `communities` | nothing of the genesis is refused; a community in force has its spaces and the policy it announces, however submits are refused, lost or repeated; a replacement that was abandoned can be run again; members never govern; content changes only by those the policy names; the retired sys key only removes |
| `cli_login` | a write that leaves the machine is covered by a grant a human gave, over any logins and imports; a login that reports success is stored; a confirmed post is this command's |
| `live_test` | a PASS is given only to an engine that judged every write rightly, a FAIL only to one that did not, with the reservations below; the sweep removes every policy it may |

No run checks the type invariants by itself: every module of a component
states its own as `TypeOK` (`GateTypeOK`, `SignerTypeOK`, `ViewTypeOK` and `LiveTypeOK` where two
modules share one of proofs), and all of them are proved.

Several properties carry a reservation that the code makes necessary; each is
named in the comment of the property:

* `PriorEntriesKept` excepts overlapping edits: an update of the root policy
  carries no `prev`, so the second of two concurrent edits removes the first.  It
  excepts as well an edit that read the policy in force while a later one was on its
  way and the overlay had forgotten it (`blind`): the tools cannot see that one.
* `CertsAsRequested` excepts a session or handle that changes after the page has
  compared what `whoami` said with what was asked (`moved`): the handlers of
  `device.rs` look both up anew, and the identity in the answer is not compared.
* `VisitIsAnswered` allows the state "stuck": the re-issue in hold mode has no
  rejection handler, and its timer and listener are removed before it.  That is a
  visit without an answer, and the property does not hide it: it says that there is
  no other.
* `ApprovalIsPickedUp` promises nothing to a page that is closed, signed out or has
  fewer tries left than calls may fail: `pollPoster` gives up after 60 polls,
  `pickupPoster` after 5 or the first error.  The approval then waits for the next
  load of the page.
* `OffSurvives` excepts a poll, or a Continue, that was under way in any modal:
  `disablePoster` does not stop `pollPoster`, which stores "on".
* `RefusedOnlyUnproven` excepts an issuer without a proof: `ensure_one` of
  `seed.rs` takes an answer that says `needs_refresh` and brings no `proof_b64` for a
  fresh proof (1208-1211), and checks once per run, so that a proof may end during
  the hours of backoff.  The items are then refused and the run reports them failed.
* `RepliesFollowPosts` compares ages only of objects that one run wrote.  A run with
  the sys key that is killed after a reply, and then one without it, leave a reply in
  the widened range and its post clamped below the cap, hence younger: the tool
  promises nothing there, and an earlier wording of the property that did was wrong.
* `RestoredUnlessConfigLost` excepts a failed `_config` write: a widen or restore
  that fails ends the run with spaces left widened (`seed.rs:1079`), where the
  comments at 1084 and 1088 mean the restore to happen whatever else failed.
* `DisableSticks` excepts a poll that waits for the broker while `disable` runs:
  it stores the warrant afterwards (`poster.rs:443`).
* `ProofsFreshAtSubmit` excepts a write that joined the refresh of another
  domain (`dnssecRefreshInFlight`, `app.js:840` and `863`, is not kept per domain), one
  whose check failed, after which the code submits all the same, and one that was not
  submitted within the margin of a check, an hour, while its popup was waited for.
* `OnlyActiveViewPolls` excepts a route that overtook a view: nothing stops the
  older view, which draws its rows or its error later and starts its poller
  (`app.js:1538`; the comment at 2452 says "only the active view polls").
* `DraftSurvivesPoll` excepts a poll of one board that takes hold of the list of
  another, both being `#posts`, and rows read before the list was drawn again.
* `WholeUnlessOverlapped` excepts two creations of one community in flight.
* `RecoverableByRerun` excepts a daemon that keeps a deleted policy in force.
* `NoFalsePass` excepts a write that was dropped, actors whose attribution lapsed, an
  error of `wait_version_change` that S9 to S11 pass over (swallowed), and an overlay that
  forgot a write (hidden) in a scenario that also read a head too early, or as 0, for its
  POST, or did not wait for it to the end (loose).
* `NoFalseFail` excepts dropped writes and lapsed attribution as well, a deadline or an
  error folded into a flag (S9 to S13), and S9 and S11 where they take an update that
  was accepted and disregarded on replay for applied (lenient).
* `SweptUnlessRevoked` excepts the child of S9, whose right to delete its own
  script revoked (`livetest.rs:1405` says policy objects "CAN be swept"); deletions that
  were dropped, whose answer or whose install's was lost, or that were denied because
  they came ahead of the install still in flight; and two misjudged writes after an error that was passed over: S11 goes on when the wait
  for its amendment fails, the amendment was disregarded, and a child pinned to the
  version that does not exist was let through, which nobody may then delete.
* `ConfirmedIsMine` excepts two posts of the same millisecond, which have the
  same id.

One comment of the source contradicts the code and another comment, and no run shows
it as a violation: `scopes_for` says that without an `as:` scope a named agent
"authors as ITSELF ... not the approver's" (`login.rs:115-119`), while `login.rs:16-24` and
220-222 make the grantor, its approver, the owner of what it writes.  `post` does the
latter, so that is what `CliLogin` models and `WriteWithinGrant` states, with a named
agent (`ann+cli`) in the instance; whether the daemon takes such a write is not
decided in this repository.

Without their reservations `DisableSticks`, `ProofsFreshAtSubmit`,
`RestoredUnlessConfigLost`, `OnlyActiveViewPolls` and `DraftSurvivesPoll` are
violated, by behaviours of up to a dozen steps.

Behaviour of the handlers that the modules contain and no property forbids:
`set_handle` answers success when the account row is gone; a sign-in overtaken
by a deletion leaves a session without an account (which resolves to nobody);
`PollClear`, `PollBlank` (an answer without a status counts as expired) and
`SubmitForget` delete by account, and may hit a newer row; two
enables at once park two requests; `pickupPoster` leaves an earlier "off" in
place; after a popup that loaded late every write fails until it is closed; the
capture script of `device-authorize.html` (line 52) treats a combined request as
a user request, so the branch for it (line 78) is not reached; `exists` of
`create_community.rs` reads any failing answer as absent; the policy of a closed
community lets members `post` and names no moderator; expired sessions are
removed only when presented; an empty credential file is a parse error, where a
comment of `device_login.rs` (line 37) promises a new login; and `live-test`
ends with success although scenarios failed.

## Bounds

Every bound is a constant named in the configuration.  Races in this code need
two requests, one row and one intervening change, so two requests (or writes,
or operators) and one or two accounts, names and codes are enough to reach each
of them; the behaviours behind the reservations are a few to a dozen steps long
and lie well inside.  Clocks run only where a property is about time (`idp_accounts`,
`poster_clock`): elsewhere `MaxTime = 0` and rows that are
expired from the start take the place of time passing.  Lifetimes and margins
keep their order (a margin is shorter than the life it is taken from), not
their length.  `poster_consent` runs `StillSpec`, in which no `Tick` occurs, with both
issuers; the clock is in `poster_clock`, and the proofs are about `Spec`, which has
all of it.  `Seed` keeps its real ages in minutes, so that the knee, the cap
and the lag are those of the code, and its corpora have ages on both sides of
each; its candidates are all subsets of three posts and three replies, with good, bad or
no attestations, over one community or two, one of them possibly without posts.
`poster_clock` has one account, one code, two tries for each loop and one call that
fails, so that a loop may outlast the failure or not.  `client_gate` checks one write at a
time because each write takes the gate anew, with two modals, since the poll of one
that was closed meets that of the next (4.6 million states).  `signer_writes` has three writes
and two domains: two that share a refresh and one of the other domain.  `communities` has one community, two users and four operations after
the genesis: a replacement, what goes on during it, and what a member tries.
`live_view` has two boards, since the confusions it looks for are between places
of one kind, one navigation and three views under way at once, and two events (a
write, a change by others, a failed request).  `cli_login` allows four commands:
two logins that disagree, an import and a post.  `live_test` runs each of the
thirteen scenarios with up to two misjudged writes and blocks that come up to two
late, which is the finality it waits for.  Symmetry is used in safety runs over
model values only.

## Fairness

`FairSpec` of `PosterPickup`: the server runs every request to its end (a handler does
not stop between two awaits, and the broker's call answers or times out), and the
timer of a loop fires.  Nothing keeps a page polling for ever: a loop has the tries the
code gives it and ends earlier with a terminal answer, at an error in `pickupPoster`, or
when the page is closed; the user may sign out, which makes every further call an
error.  The loop's call has strong fairness only because the model has as many
request slots as `Requests`, where the server has any number: others may not take
the slot from it for ever.  Of `DeviceAuthorize`: the browser runs the page's callbacks
and its 60-second timer, and a fetch answers or fails; the dialog's "done" is not
assumed.  Of `SignerClient`: timers fire and fetches settle; nothing is assumed
of the popup or the user.  Of `LiveView`: fetches settle and the interval fires.
The other runs check safety only.  No run assumes that a user acts, that a
message arrives or that a retry succeeds.

## Proofs

Assumed of the constants are only the `ASSUME`s of the modules, which TLC
evaluates in every run.

`IdpAccountsProofs` proves, for any number of requests, sessions, accounts and
names:

* `TypeCorrect`: the type invariant.  Beside the types of the columns (`StoreTypes`)
  `TypeOK` says that a request past its first step carries an id that was handed out
  (`StepTypes`), and so does a session (`SessionTypes`); that only such ids have a row
  (`RowTypes`) is what makes it inductive.
* `NamespaceSafe`: no name has two holders.  Each Store method checks the table
  it does not write and relies on the unique index of the one it does; the proof
  rests on `NamesStep`, which says what any step does to the names and which
  every action is shown to satisfy.
* `RegistryRefined`: every step is a step of `NameRegistry` or leaves the names
  alone, under the mapping `HolderOf`.
* `SessionSafe`: the invariant `SignerInv` follows an email from the sign-in
  through the request to the session; it needs that ids are never reused
  (`AUTOINCREMENT`), which the mutant `ReusedNextId` takes away.
* `ModeSafe`: `ModeInv` adds what a request between `set_handle` and
  `set_identity_mode` knows.

`RootPolicyProofs` proves, for any number of operators, runs, identities and
layers of any length:

* `CutoverSafe`: the sys key leaves the policy in force only after an
  acknowledgement.  The invariant `CutoverInv` extends the claim to every pending
  policy and every copy a tool holds, since an update carries no `prev` and any of
  them may take effect later.
* `TypeCorrect` and `NoDuplicateSafe` (`NoDuplicateEntry`) from `DocInv`: in none of
  these policies does an entry occur twice.  `MergeKeeps` is what they rest on:
  whatever the length of the layer, a merge keeps the entries that are there and
  their order and duplicates nothing.  `merge` is a recursive function, and the
  induction over the layer goes through its smallest counterexample
  (`InductionSet`).
* `PriorSafe` (the action property `PriorEntriesKept`): `OrderInv` says that until
  the tools overlap or one reads past a forgotten policy, the policy in force, the
  pending ones in their order and the one copy that may be under way each begin with
  the entries of the one before.

`PosterProofs` proves, for any number of accounts, requests, names and codes:

* `TypeCorrect`, `WarrantSafe` (`StoredWarrantIsTheUsers`) and `OwnerSafe`
  (`OwnerIsCheckedIdentity`) from one invariant.  `enable` records who asked, the
  broker who approved, `poll` stores and `submit` reads, each in a handler of its
  own, so `IInv` follows the user from the code (`CodeInv`) through the pending row
  and the copies that handlers hold across an await (`ReqInv`) to the stored row
  (`StoreInv`).
* `DisableSafe` (`DisableSticks`): `OffInv` says that of an account switched off
  neither a row nor a handler in flight can still make a warrant.
* `SendSafe` (`ProofsFreshAtSend`): `PhaseInv` says that a handler past
  a check looked at most a margin ago at proofs that last a margin longer, so
  that no clock the model allows makes one of them end before the send.

`DeviceAuthorizeProofs` proves `TypeCorrect`, `AgentAccessSafe` and `RequestSafe`.  `PageInv` says what the page holds between two calls; access for an
agent rests on the server's look at the certs it issued, which are never taken
back, and not on the page.  `RequestInv` says that as long as no
other tab interferes after the page has compared, the identity it compared is still that
of the session, and the account a handler runs for is the session's.

`WebClientProofs` proves, about the three parts of the web client:

* the write gate: `GateTypeCorrect`, `OnceSafe` and `OffSafe`.  `LandedInv` names the
  states of a write in which nothing was accepted yet: only the poster's refusal
  leads from the poster to the browser's signer.  `QuietInv` is the strengthening of
  `OffSurvives`: no modal has a poll or a Continue under way and the preference is "off".
* the signer, for any number of writes and domains: `SignerTypeCorrect` and
  `SubmitSafe`.  `ProofsFreshAtSubmit` is not inductive: `FreshInv` adds that of a write
  which is not slow the issuer's proof, found not due, is still valid once the broker's
  is looked at, and that the refresh a write awaits is the one of its domain;
  `PopupInv` (an open popup has a promise) is what the types need.  `ProceedFresh` is the heart: the two calls of
  `ensureDnssecFresh` add up to both proofs.
* the pages, for any places, items, views and navigations: `ViewTypeCorrect`,
  `PollerSafe` (`OnlyActiveViewPolls`) and the action property `DraftSafe`
  (`DraftSurvivesPoll`).  `AloneInv` is what "only the active view polls" rests on: as
  long as no route overtook a view, at most one is under way, that of the hash, and
  no poller runs before it has drawn its list.  `RowsInv` says that the rows of a poll
  that is not old lack nothing of what its place serves, whatever this user deleted
  meanwhile.

`CliLoginProofs` proves `TypeCorrect`, `GrantSafe`, `StoredSafe` and
`ConfirmedSafe` for any number of shells, commands and milliseconds.  `GrantInv`
extends the claim on a write to everything it can come from: the file, whoever
wrote it last, and the login in the memory of each command; `StepInv` says what a
command holds at each step; `FileInv` that two commands which rewrite the file at once
both know it, and that one alone finds it as it left it; `IdInv` that, before two
posts share a millisecond, whatever has the id of a write is that write.

`CommunitiesProofs` proves, for any number of users, issuers, communities,
operators and batches in flight, `TypeCorrect` and all seven properties of the
run:

* `Sound` (in `Communities`, where `TypeOK` uses it) says who of all tools and clients
  writes what; that it holds of every message in the queue and in the block is `QueueInv`.  `HubGrants`, `ClosedGrants`
  and `OpenGrants` say once and for all what each of the three policy documents
  allows, `ByRight` which of them can admit a message.
* `TypeCorrect` includes what is on its way: the batches in flight and the rest of the
  block hold messages that their authors may write, and a report names a community and a
  user, for which it needs `AppointInv` beside the types.
* `GenesisSafe`: `GenesisInv` describes the rest of the first block in every state
  before the root policy: the proof precedes the domain that refers to it, the
  root policy is last, and what is not on the chain yet is still to come.
* `UncapturedSafe` from `NoSubpolicy`, and the action properties `ContentSafe` and
  `RetiredSafe` from `ContentChange` and `SysWrites`: one step per reason for
  which the daemon may admit the message at the head of the block.
* `AppointSafe`: `AppointInv` follows a reported appointment through the queue.  It
  arrives because the proof it needs is valid, or precedes it in the queue and is
  itself always admitted (`ProofAdmitted`).
* `WholeSafe` (`WholeUnlessOverlapped`) and `RecoverableSafe` (`RecoverableByRerun`)
  from `LifeInv`, the life of a community that `open-community` did not touch while
  sys is admin.  Where the community is in force, creations precede clearings in
  the queue, and without an overlap there are no creations; where it is absent,
  clearings precede creations, and without an overlap there is at most one creation;
  where its policy is a ghost, there are clearings only.  `StandingInv` and
  `StartingInv` say what of a community is on the chain and what is still in the
  block when the daemon is halfway through a batch, or through the genesis; `Kept`,
  that what was whole when sys retired stays whole.

`DaemonToolsProofs` proves about `Seed`, for any finite corpora, personas,
communities, runs and retries, `TypeCorrect` and the four invariants of the run:

* the plan: `PlanFacts` says what the execution relies on of `build_plan`.  Every
  part of it is a list of its items (`SetToSeqList`, `OldestFirstList`; `SortedExists`
  shows by induction on the size of a set that the sorted list exists), what an item
  needs or answers stands before it (`Follows`, one part at a time), and the clamp
  keeps the order of ages and stays below the cap (`ClampKeeps`, integer division
  included).  `WithinMaxAge` and `Ages` tie that to what `validate` accepts.
* `RefusedSafe` (`RefusedOnlyUnproven`): at its turn an item's issuer has a fresh proof
  or is one of those known to have none (`IssuersFresh`), what the item needs is written
  (`PlanWritten`, `OnChain`), and its age is below the lag, clamped or widened
  (`LagWidened`, `Admitted`).  `Refusals` collects what is left.
* `FollowSafe` (`RepliesFollowPosts`): `Stamps` keeps with each object its age and the run
  that wrote it.  The parent of an object is read off its id (`ParentOf`), so that the
  claim covers what any run wrote, whatever its plan was; and what the present run wrote
  is as its plan has it.
* `RestoredSafe` and `SeededSafe`: `LagOwed` says that every lag that is not the
  genesis one belongs to a community which the run has yet to restore, unless a
  _config write was lost; `LagRestored`, that those behind it are restored.

and about `LiveTest`, for any choice of the scenarios, any depth of finality, delay of
the blocks and number of misjudged writes, `LiveTypeCorrect` and the three invariants
of the run:

* the scripts: each of the thirteen is shown once (`Held`, `Traces`) to lead through
  situations of the chain: what is stored before each of its lines if nothing was
  misjudged, and whether a write was to be denied by then.  `WriteFacts`, `WaitFacts`
  and `AwaitFacts` are what the three proofs use of a script: a write has its wait in
  the next line, `Permits` holds of it in its situation exactly when that line waits
  for its effect, and a line that reads relies on what the situation has.  The proofs
  after that speak of lines, and name a scenario only where the property does.
* All three rest on `LiveTestAssumption`: an accepted write is replayed within
  `FINALITY_BLOCKS`.  The code waits for that many blocks and cannot check that they were
  enough; on a slower chain a write that is still to come is taken for one disregarded.
* `NoFalsePassHolds`: `PassInv` says that as long as nothing that `NoFalsePass` names
  went wrong every write before the one awaited was judged rightly, and that this one
  is denied, in the queue, ignored or applied (`Known`).  `Certain` is the heart: a wait
  that lets a scenario go on to a pass has seen enough to tell these four apart,
  because the overlay still shows what is in the queue, or because the head was read
  before the POST and the wait lasted longer than a block may be late.
* `NoFalseFailHolds`: `FailInv` says that with a right engine and none of the mishaps
  named the chain is in the situation of the script: before the line of a permitted
  write that is still in the queue, which is the one awaited, or before the next line,
  with nothing in the queue but writes that will be disregarded (`Steady`, `Scripted`,
  `Caught`).  `Fair` goes through the waits: none of them then ends in a
  fail; in particular the deadline of a wait for a permitted write is never reached
  with the write ignored.
* `SweptUnlessRevokedHolds`: `SweepInv` says that every policy on the chain or in the
  queue is recorded in `written_policies` (`Recording`); that the pins of the children,
  and of the installs in the queue, are on versions in which the sys key governs
  (`KidsPinned`, `QueuePinned`, `Archived`), so that the key may delete them
  (`Deletable`); and that of a policy the sweep has passed nothing is left, or its
  deletion is in the queue (`Sweeping`), behind every install (`Lined`).  `Amending` and `Watched`
  follow the amendment of the ancestor, which the pins of S11 wait for.

The proofs changed the models where they could not be reasoned about or said less
than was meant.  A `CASE` with overlapping guards leaves its value open, which no
run notices, since TLC takes the first that holds: `whoami` of `DeviceAuthorize`,
`RightFor`, `OwnerOf` and `Covers` of `Communities` and two operators of
`LiveTest` now decide in order, as the code does.  `merge` of `RootPolicy` is a
recursive function, which the prover can follow, in place of a fold.  The sorted
lists of `Seed` were defined by a strict order, under which two posts of the same age
leave the list open; they are now ordered by "no younger than".
`CorporaAssumption` states that a corpus is finite and its ages are numbers.
`CommunitiesAssumption`, `PolicyAssumption`, `ArgumentsAssumption` and
`LiveViewAssumption` state that marks such as "no policy" or "no poll" are no
values, which holds of model values by themselves, and that the list of spaces of
the genesis is one an operator may give; `NoneAssumption` and `ChosenAssumption` of
`LiveTest` the same of `None`, and that the scenarios chosen exist.  The rules of the
engine in `LiveTest` take the situation they judge as arguments (`Permits`), so that
the same rules judge the script and the chain.  `SweptUnlessRevoked` was stated too
strongly: TLC found it true with one misjudged write, the proof for any number did not
go through, and with two TLC shows the behaviour that its last reservation names.

Only model-checked is everything under fairness (`ApprovalIsPickedUp`,
`VisitIsAnswered`, `EveryWriteEnds`, `ListHeals`): liveness and ENABLED are out of the
prover's reach.  Every invariant and every action property of the runs is stated by a
theorem.

## Not modelled, and the plan

In this order:

1. `SignIn`: `requestAssertion`, `watch`, `silentLogin`, `signIn`, `signOut`,
   the identity switch: answers in any order around one entry of localStorage.
2. The rest of the views: optimistic vote counts, the receipt drawer and the
   caches of spaces and moderated boards.
3. `NameRules`: `normalize_name` and `check_handle` as operators, checked
   against each other; the issuer rule of `verify.rs`.

Left out for good: cryptography and encodings (a signature is the fact of who
signed), HTML and CSS, logging and printed reports, argument parsing, start-up
and configuration, deployment scripts and the examples.
The SBO daemon, the broker and the signer popup are not in this repository; they
appear as external actions, with every answer the code is prepared for.
