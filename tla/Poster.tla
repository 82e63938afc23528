------------------------------- MODULE Poster -------------------------------
(***************************************************************************)
(* The mingo-poster: the server-side signer of mingo-idp/src/poster.rs and *)
(* the two tables it keeps in store.rs.  A user consents once at the       *)
(* broker (enable, poll), the warrant is stored, and every later write of  *)
(* the user is signed and forwarded by the server (submit) until the       *)
(* warrant expires, is revoked or is forgotten (disable).                  *)
(*                                                                         *)
(* A handler reads its row, awaits the broker, the IdP or the daemon, and  *)
(* then writes the row: req[r] is where request r stands and the copy it   *)
(* holds of what it read.  Other handlers of the same account run at every *)
(* await and between any two Store calls.                                  *)
(*                                                                         *)
(* External, and modelled from how poster.rs uses them: the broker         *)
(* (Broker* actions), the daemon's DNSSEC proofs (valid_until) and its     *)
(* revocation check, and the account's name, which claim_handle changes    *)
(* and admin_delete_account removes (see IdpAccounts).                     *)
(***************************************************************************)
EXTENDS Naturals, FiniteSets

CONSTANTS
  Accounts,       \* account ids
  Identities,     \* public identities: external emails and <handle>@<domain>
  EmailOf,        \* the external email: [Accounts -> Identities]
  IssuerOf,       \* who certifies an identity: [Identities -> Issuers]
  Issuers,
  OwnIssuer,      \* the IdP itself, issuer of the poster's own access cert
  Poster,         \* the identity mingo-poster@<domain>
  Requests,       \* the requests that may be in flight together
  MaxCodes,       \* bound on the provisioning requests ever raised
  MaxTime,        \* bound on the clock
  REUSE_MARGIN,   \* enable reuses a pending request that lives longer than this
  CODE_LIFE,      \* expires_in of a provisioning request
  WARRANT_LIFE,   \* lifetime the broker gives a warrant
  DNSSEC_MARGIN,  \* headroom asked of a DNSSEC proof
  PROOF_LIFE,     \* how long a freshly captured proof is valid
  None

ASSUME PosterAssumption ==
  /\ EmailOf \in [Accounts -> Identities]
  /\ IssuerOf \in [Identities -> Issuers]
  /\ OwnIssuer \in Issuers
  /\ Poster \notin Identities /\ None \notin Identities /\ None # Poster
  /\ \A n \in {MaxCodes, MaxTime, REUSE_MARGIN, CODE_LIFE, WARRANT_LIFE,
               DNSSEC_MARGIN, PROOF_LIFE} : n \in Nat
  /\ DNSSEC_MARGIN <= PROOF_LIFE

VARIABLES
  identity,       \* account -> current public identity, None once deleted
  session,        \* the accounts a browser holds a live session of
  pending,        \* table poster_pending, by account
  warrant,        \* table poster_warrants, by account
  req,            \* the requests in flight
  code_state,     \* broker: the provisioning requests by code,
  code_user,      \*   the identity each one asks for,
  code_exp,       \*   when it runs out,
  code_grant,     \*   and the warrant the user approved
  last_code,
  revoked,        \* the codes whose warrant was revoked
  valid_until,    \* daemon: end of validity of /sys/dnssec/<issuer>
  now,
  off             \* history: the accounts last disabled with no enable or poll under way

store == <<pending, warrant>>
broker == <<code_state, code_user, code_exp, code_grant, last_code, revoked>>
vars == <<identity, session, store, req, broker, valid_until, now, off>>

Codes == 1..MaxCodes
MaybeIdentity == Identities \cup {None}
Times == 0..(MaxTime + CODE_LIFE + WARRANT_LIFE + PROOF_LIFE)

\* A warrant as the broker signs it: who delegates to whom, the identity in its
\* as: scope, and when it ends.  A row that is absent has user = None; a row
\* from before the device model has device = FALSE.  A grantee None is anybody
\* but the poster.
Grants == [code : 0..MaxCodes, grantor : MaybeIdentity, grantee : {Poster, None},
           as : MaybeIdentity, exp : Times]
NoGrant == [code |-> 0, grantor |-> None, grantee |-> None, as |-> None, exp |-> 0]

PendingRows == [user : MaybeIdentity, code : 0..MaxCodes, exp : Times, device : BOOLEAN]
NoPending == [user |-> None, code |-> 0, exp |-> 0, device |-> FALSE]

WarrantRows == [user : MaybeIdentity, grant : Grants, device : BOOLEAN]
NoWarrant == [user |-> None, grant |-> NoGrant, device |-> FALSE]

CodeStates == {"unused", "pending", "approved", "dead"}

Points == {"idle", "enable:pending", "enable:await", "poll:await", "poll:clear",
           "disable:clear", "submit:identity", "submit:mint", "submit:access", "submit:config", "submit:send", "submit:forget"}
ReqRows == [at : Points, acct : Accounts, user : MaybeIdentity, since : 0..MaxTime,
            pend : PendingRows, row : WarrantRows]
Req(at, a, user, since, pend, row) ==
  [at |-> at, acct |-> a, user |-> user, since |-> since, pend |-> pend, row |-> row]
Idle(a) == Req("idle", a, None, 0, NoPending, NoWarrant)

TypeOK ==
  /\ identity \in [Accounts -> MaybeIdentity]
  /\ session \subseteq Accounts
  /\ pending \in [Accounts -> PendingRows]
  /\ warrant \in [Accounts -> WarrantRows]
  /\ req \in [Requests -> ReqRows]
  /\ code_state \in [Codes -> CodeStates]
  /\ code_user \in [Codes -> MaybeIdentity]
  /\ code_exp \in [Codes -> Times]
  /\ code_grant \in [Codes -> Grants]
  /\ last_code \in 0..MaxCodes
  /\ revoked \subseteq Codes
  /\ valid_until \in [Issuers -> Times]
  /\ now \in 0..MaxTime
  /\ off \subseteq Accounts

\* The rows an older release left behind: a pending row without device_seed,
\* and a warrant without device columns, granted without as:.
LegacyPending(a) == [user |-> EmailOf[a], code |-> 0, exp |-> 0, device |-> FALSE]
LegacyWarrant(a) ==
  [user |-> EmailOf[a], device |-> FALSE,
   grant |-> [code |-> 0, grantor |-> EmailOf[a], grantee |-> None, as |-> None,
              exp |-> WARRANT_LIFE]]

Init ==
  /\ identity = EmailOf
  /\ session = Accounts
  /\ \E old \in SUBSET Accounts :
       /\ pending = [a \in Accounts |-> IF a \in old THEN LegacyPending(a) ELSE NoPending]
       /\ warrant = [a \in Accounts |-> IF a \in old THEN LegacyWarrant(a) ELSE NoWarrant]
  /\ \E a \in Accounts : req = [r \in Requests |-> Idle(a)]
  /\ code_state = [c \in Codes |-> "unused"]
  /\ code_user = [c \in Codes |-> None]
  /\ code_exp = [c \in Codes |-> 0]
  /\ code_grant = [c \in Codes |-> NoGrant]
  /\ last_code = 0
  /\ revoked = {}
  /\ valid_until = [d \in Issuers |-> 0]
  /\ now = 0
  /\ off = {}

-----------------------------------------------------------------------------
(* Helpers of the handlers.                                                *)

Begin(r, next) == req[r].at = "idle" /\ req' = [req EXCEPT ![r] = next]
Goto(r, point) ==
  req' = [req EXCEPT ![r] = Req(point, req[r].acct, req[r].user, req[r].since,
                                req[r].pend, req[r].row)]
Finish(r) == req' = [req EXCEPT ![r] = Idle(req[r].acct)]

clear_poster_pending(a) == pending' = [pending EXCEPT ![a] = NoPending]
delete_poster_warrant(a) == warrant' = [warrant EXCEPT ![a] = NoWarrant]

\* The grant carries the exact scope as:<user>.
warrant_authors_as(row, user) == row.grant.as = user

\* enable answers with the outstanding request of the same identity while it
\* has more than a minute to live, counted from the time t that enable read.
Reusable(row, user, t) ==
  row.user = user /\ row.device /\ row.exp > t + REUSE_MARGIN

\* Mutant: any grant delegated to the poster is taken.
AnyDelegation(pend, g) == g.grantee = Poster

\* The broker's warrant delegates from the user of the request to the poster.
\* (The code compares the grantor ignoring case: identities stand for themselves
\* in lower case, as every name of the accounts' tables is kept.)
DelegationMatches(pend, g) == g.grantor = pend.user /\ g.grantee = Poster

-----------------------------------------------------------------------------
(* POST /poster/enable                                                     *)

enable(r, a) ==
  /\ a \in session /\ identity[a] # None
  /\ Begin(r, Req("enable:pending", a, identity[a], now, NoPending, NoWarrant))
  /\ off' = off \ {a}
  /\ UNCHANGED <<identity, session, store, broker, valid_until, now>>

\* The outstanding request is answered again, or a new one is sent off.
EnableReadPending(r) ==
  /\ req[r].at = "enable:pending"
  /\ IF Reusable(pending[req[r].acct], req[r].user, req[r].since)
     THEN Finish(r)
     ELSE Goto(r, "enable:await")
  /\ UNCHANGED <<identity, session, store, broker, valid_until, now, off>>

\* The broker files the request under a fresh code; enable stores it with the
\* expiry counted from the time it read before the call.
EnableStorePending(r) ==
  /\ req[r].at = "enable:await"
  /\ last_code < MaxCodes
  /\ last_code' = last_code + 1
  /\ code_state' = [code_state EXCEPT ![last_code + 1] = "pending"]
  /\ code_user' = [code_user EXCEPT ![last_code + 1] = req[r].user]
  /\ code_exp' = [code_exp EXCEPT ![last_code + 1] = now + CODE_LIFE]
  /\ pending' = [pending EXCEPT ![req[r].acct] =
                   [user |-> req[r].user, code |-> last_code + 1,
                    exp |-> req[r].since + CODE_LIFE, device |-> TRUE]]
  /\ Finish(r)
  /\ UNCHANGED <<identity, session, warrant, code_grant, revoked, valid_until, now, off>>

\* post_json failed: nothing is stored.
EnableFailed(r) ==
  /\ req[r].at = "enable:await"
  /\ Finish(r)
  /\ UNCHANGED <<identity, session, store, broker, valid_until, now, off>>

-----------------------------------------------------------------------------
(* POST /poster/poll                                                       *)

poll(r, a) ==
  /\ a \in session
  /\ pending[a].user # None
  /\ Begin(r, Req(IF pending[a].device THEN "poll:await" ELSE "poll:clear",
                  a, None, 0, pending[a], NoWarrant))
  /\ UNCHANGED <<identity, session, store, broker, valid_until, now, off>>

\* 429, "pending", no answer or an answer without a warrant: the row stays and
\* the client tries again later.
PollKeepWaiting(r) ==
  /\ req[r].at = "poll:await"
  /\ Finish(r)
  /\ UNCHANGED <<identity, session, store, broker, valid_until, now, off>>

\* "completed" with the grant asked for: the credential is stored.
PollApproved(r) ==
  /\ req[r].at = "poll:await"
  /\ LET p == req[r].pend IN
       /\ code_state[p.code] = "approved"
       /\ DelegationMatches(p, code_grant[p.code])
       /\ warrant' = [warrant EXCEPT ![req[r].acct] =
                        [user |-> p.user, grant |-> code_grant[p.code], device |-> TRUE]]
  /\ Goto(r, "poll:clear")
  /\ UNCHANGED <<identity, session, pending, broker, valid_until, now, off>>

\* Mutant: a mismatched approval is reported and the pending row kept.
GiveUpOnlyDead(r) ==
  /\ req[r].at = "poll:await"
  /\ code_state[req[r].pend.code] = "dead"
  /\ Goto(r, "poll:clear")
  /\ UNCHANGED <<identity, session, store, broker, valid_until, now, off>>

\* "completed" with another grantor or grantee, or denied, expired, gone: the
\* pending row is given up.
PollGiveUp(r) ==
  /\ req[r].at = "poll:await"
  /\ LET p == req[r].pend IN
       \/ code_state[p.code] = "dead"
       \/ /\ code_state[p.code] = "approved"
          /\ ~DelegationMatches(p, code_grant[p.code])
  /\ Goto(r, "poll:clear")
  /\ UNCHANGED <<identity, session, store, broker, valid_until, now, off>>

\* An answer without a status the handler knows (a proxy's error page) is taken
\* for a dead code, whatever the code is.
PollBlank(r) ==
  /\ req[r].at = "poll:await"
  /\ Goto(r, "poll:clear")
  /\ UNCHANGED <<identity, session, store, broker, valid_until, now, off>>

PollClear(r) ==
  /\ req[r].at = "poll:clear"
  /\ clear_poster_pending(req[r].acct)
  /\ Finish(r)
  /\ UNCHANGED <<identity, session, warrant, broker, valid_until, now, off>>

-----------------------------------------------------------------------------
(* GET /poster/status and POST /poster/disable                             *)

\* What status answers: is the stored credential one submit can use?
status(a) ==
  /\ warrant[a].user # None /\ warrant[a].grant.exp > now /\ warrant[a].device
  /\ identity[a] # None
  /\ warrant_authors_as(warrant[a], identity[a])

disable(r, a) ==
  /\ a \in session
  /\ delete_poster_warrant(a)
  /\ Begin(r, Req("disable:clear", a, None, 0, NoPending, NoWarrant))
  /\ UNCHANGED <<identity, session, pending, broker, valid_until, now, off>>

\* No enable or poll of the account is under way, or stored anything meanwhile.
Undisturbed(r) ==
  /\ warrant[req[r].acct] = NoWarrant
  /\ \A q \in Requests \ {r} :
       req[q].acct = req[r].acct => req[q].at \notin {"enable:pending", "enable:await", "poll:await", "poll:clear"}

\* Mutant: only the credential is forgotten.
DisableKeepsPending(r) ==
  /\ req[r].at = "disable:clear"
  /\ off' = IF Undisturbed(r) THEN off \cup {req[r].acct} ELSE off
  /\ Finish(r)
  /\ UNCHANGED <<identity, session, pending, warrant, broker, valid_until, now>>

DisableClear(r) ==
  /\ req[r].at = "disable:clear"
  /\ clear_poster_pending(req[r].acct)
  /\ off' = IF Undisturbed(r) THEN off \cup {req[r].acct} ELSE off
  /\ Finish(r)
  /\ UNCHANGED <<identity, session, warrant, broker, valid_until, now>>

-----------------------------------------------------------------------------
(* POST /poster/submit                                                     *)

\* The stored row is read first: it must be there, alive and of the device era.
WarrantUsable(row) == row.user # None /\ ~(row.grant.exp <= now) /\ row.device

submit(r, a) ==
  /\ a \in session
  /\ WarrantUsable(warrant[a])
  /\ Begin(r, Req("submit:identity", a, None, 0, NoPending, warrant[a]))
  /\ UNCHANGED <<identity, session, store, broker, valid_until, now, off>>

\* Mutant: the as: scope of the stored warrant is not compared.
AnyIdentity(row, user) == user # None

\* Then the account: the grant must author as the identity it has now.
AuthorsAsAccount(row, user) == user # None /\ warrant_authors_as(row, user)

SubmitReadAccount(r) ==
  /\ req[r].at = "submit:identity"
  /\ LET user == identity[req[r].acct] IN
       IF AuthorsAsAccount(req[r].row, user)
       THEN req' = [req EXCEPT ![r] = Req("submit:mint", req[r].acct, user, 0,
                                          NoPending, req[r].row)]
       ELSE Finish(r)
  /\ UNCHANGED <<identity, session, store, broker, valid_until, now, off>>

\* The IdP mints the poster's access cert; the DNSSEC phase starts.
SubmitMinted(r) ==
  /\ req[r].at = "submit:mint"
  /\ req' = [req EXCEPT ![r] = Req("submit:access", req[r].acct, req[r].user, now,
                                   NoPending, req[r].row)]
  /\ UNCHANGED <<identity, session, store, broker, valid_until, now, off>>

\* ensure_dnssec_fresh: a proof that does not reach now + margin is replaced by
\* the one the daemon captured; if that fails the request fails.
ensure_dnssec_fresh(d) ==
  IF valid_until[d] >= now + DNSSEC_MARGIN
  THEN UNCHANGED valid_until
  ELSE valid_until' = [valid_until EXCEPT ![d] = now + PROOF_LIFE]

\* Mutant: only the issuer of the config cert is ensured.
SkipAccessIssuer(r) ==
  /\ req[r].at = "submit:access"
  /\ Goto(r, "submit:config")
  /\ UNCHANGED <<identity, session, store, broker, valid_until, now, off>>

\* presentation_issuers: first the issuer of the access cert ...
SubmitAccessIssuer(r) ==
  /\ req[r].at = "submit:access"
  /\ ensure_dnssec_fresh(OwnIssuer)
  /\ Goto(r, IF IssuerOf[req[r].row.grant.grantor] = OwnIssuer
             THEN "submit:send" ELSE "submit:config")
  /\ UNCHANGED <<identity, session, store, broker, now, off>>

\* ... then that of the user's config cert, when it is another one.
SubmitConfigIssuer(r) ==
  /\ req[r].at = "submit:config"
  /\ ensure_dnssec_fresh(IssuerOf[req[r].row.grant.grantor])
  /\ Goto(r, "submit:send")
  /\ UNCHANGED <<identity, session, store, broker, now, off>>

\* Signed with owner = row.user and handed to the daemon, which refuses a
\* revoked warrant: the handler then forgets the stored credential.
SubmitSend(r) ==
  /\ req[r].at = "submit:send"
  /\ IF req[r].row.grant.code \in revoked THEN Goto(r, "submit:forget") ELSE Finish(r)
  /\ UNCHANGED <<identity, session, store, broker, valid_until, now, off>>

SubmitForget(r) ==
  /\ req[r].at = "submit:forget"
  /\ delete_poster_warrant(req[r].acct)
  /\ Finish(r)
  /\ UNCHANGED <<identity, session, pending, broker, valid_until, now, off>>

\* The mint, a freshness check, an unsupported action or the daemon fails.
SubmitFailed(r) ==
  /\ req[r].at \in {"submit:mint", "submit:access", "submit:config", "submit:send"}
  /\ Finish(r)
  /\ UNCHANGED <<identity, session, store, broker, valid_until, now, off>>

-----------------------------------------------------------------------------
(* The outside world.                                                      *)

\* The user approves while the code lives; the page may delegate from another
\* of the user's identities than the one asked for, and nothing but the poll's
\* own check says that it delegates to the poster.
BrokerApprove(c) ==
  /\ code_state[c] = "pending"
  /\ now < code_exp[c]
  /\ \E g \in Identities, h \in {Poster, None} :
       code_grant' = [code_grant EXCEPT ![c] =
                        [code |-> c, grantor |-> g, grantee |-> h,
                         as |-> code_user[c], exp |-> now + WARRANT_LIFE]]
  /\ code_state' = [code_state EXCEPT ![c] = "approved"]
  /\ UNCHANGED <<identity, session, store, req, code_user, code_exp, last_code, revoked,
                 valid_until, now, off>>

\* The user denies, the code runs out, or the broker forgets a code it settled.
BrokerDrop(c) ==
  /\ code_state[c] \in {"pending", "approved"}
  /\ code_state' = [code_state EXCEPT ![c] = "dead"]
  /\ UNCHANGED <<identity, session, store, req, code_user, code_exp, code_grant, last_code, revoked,
                 valid_until, now, off>>

\* The user revokes the warrant at the broker.
BrokerRevoke(c) ==
  /\ code_grant[c].code = c
  /\ revoked' = revoked \cup {c}
  /\ UNCHANGED <<identity, session, store, req, code_state, code_user, code_exp, code_grant,
                 last_code, valid_until, now, off>>

\* claim_handle gives the account another handle, one nobody else has.
Rename(a) ==
  /\ identity[a] # None
  /\ \E i \in Identities :
       /\ \A b \in Accounts : identity[b] # i /\ EmailOf[b] # i
       /\ identity' = [identity EXCEPT ![a] = i]
  /\ UNCHANGED <<session, store, req, broker, valid_until, now, off>>

\* delete_account ends the sessions and leaves the poster tables alone.
DeleteAccount(a) ==
  /\ identity[a] # None
  /\ identity' = [identity EXCEPT ![a] = None]
  /\ session' = session \ {a}
  /\ UNCHANGED <<store, req, broker, valid_until, now, off>>

\* The user signs out everywhere, and in again while the account exists.
Logout(a) ==
  /\ a \in session
  /\ session' = session \ {a}
  /\ UNCHANGED <<identity, store, req, broker, valid_until, now, off>>

SignIn(a) ==
  /\ a \notin session /\ identity[a] # None
  /\ session' = session \cup {a}
  /\ UNCHANGED <<identity, store, req, broker, valid_until, now, off>>

\* The calls of the DNSSEC phase time out well within the margin.
Tick ==
  /\ now < MaxTime
  /\ \A r \in Requests :
       req[r].at \in {"submit:access", "submit:config", "submit:send"}
         => now < req[r].since + DNSSEC_MARGIN
  /\ now' = now + 1
  /\ UNCHANGED <<identity, session, store, req, broker, valid_until, off>>

PollStep(r) == PollKeepWaiting(r) \/ PollApproved(r) \/ PollGiveUp(r) \/ PollClear(r)
SubmitStep(r) == SubmitReadAccount(r) \/ SubmitMinted(r) \/ SubmitAccessIssuer(r) \/ SubmitConfigIssuer(r)
                   \/ SubmitSend(r) \/ SubmitForget(r) \/ SubmitFailed(r)
EnableStep(r) == EnableReadPending(r) \/ EnableStorePending(r) \/ EnableFailed(r)

\* What handlers, users and the broker do.
Handling ==
  \/ \E r \in Requests :
       \/ \E a \in Accounts : enable(r, a) \/ poll(r, a) \/ disable(r, a) \/ submit(r, a)
       \/ EnableStep(r)
       \/ PollStep(r) \/ PollBlank(r)
       \/ DisableClear(r)
       \/ SubmitStep(r)
  \/ \E c \in Codes : BrokerApprove(c) \/ BrokerDrop(c) \/ BrokerRevoke(c)
  \/ \E a \in Accounts : Rename(a) \/ DeleteAccount(a) \/ Logout(a) \/ SignIn(a)

Next == Handling \/ Tick

Spec == Init /\ [][Next]_vars

\* The same within one moment of the clock; rows may have expired before it.
StillSpec == Init /\ [][Handling]_vars

-----------------------------------------------------------------------------
(* Properties.                                                             *)

\* A stored credential is what it was asked for: whatever was renamed,
\* replaced or approved between enable and pickup, its warrant delegates from
\* the row's user to the poster and makes that user the author.
StoredWarrantIsTheUsers ==
  \A a \in Accounts :
    warrant[a].device =>
      LET w == warrant[a] IN
        w.grant.grantor = w.user /\ w.grant.grantee = Poster /\ w.grant.as = w.user

\* A write that goes to the daemon is owned by the public identity the account
\* had when submit checked it, and the warrant that travels with it authors as
\* that owner, although owner, warrant and identity were recorded by three
\* handlers with awaits in between.
OwnerIsCheckedIdentity ==
  \A r \in Requests :
    req[r].at \in {"submit:send", "submit:forget"} =>
      /\ req[r].row.user = req[r].user
      /\ req[r].row.grant.as = req[r].row.user

\* When the write is sent, the proof of every issuer in its presentation is
\* still valid on chain: that of the poster's own issuer and that of the
\* user's, neither of which aged out while the other was being refreshed.
ProofsFreshAtSend ==
  \A r \in Requests :
    req[r].at = "submit:send" =>
      \A d \in {OwnIssuer, IssuerOf[req[r].row.grant.grantor]} : valid_until[d] >= now

\* disable: "forget the stored credential ... this just stops mingo from using
\* it": after disable, and until the user enables again, no approval that comes
\* late makes the poster enabled.  Excepted is a disable that met an enable or a
\* poll in flight: a poll stores the warrant for the row it read before.
DisableSticks == \A a \in off : ~status(a)
=============================================================================
