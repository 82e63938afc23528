---------------------------- MODULE IdpAccounts ----------------------------
(***************************************************************************)
(* Accounts, handles, agent names and sessions of the mingo IdP: the       *)
(* SQLite store (mingo-idp/src/store.rs) and the HTTP handlers that drive  *)
(* it (mingo-idp/src/routes.rs).                                           *)
(*                                                                         *)
(* The store is one connection behind one mutex, so each Store method is   *)
(* one atomic step.  A handler is a sequence of Store methods, and the     *)
(* handlers of other requests run between any two of them: req[r] is the   *)
(* point where request r stands and what it has read so far.  A handler    *)
(* that returns an error before it changes anything is not a step.         *)
(*                                                                         *)
(* The accounts table is kept by columns: row i exists iff                 *)
(* external_email[i] # None.  In the same way session s exists iff         *)
(* sess_account[s] # 0, and the agent row for n iff agent_account[n] # 0.  *)
(***************************************************************************)
EXTENDS Naturals, FiniteSets

CONSTANTS
  Emails,        \* external addresses, lower-cased
  RawEmails,     \* the spellings clients send
  LowerEmail,    \* to_lowercase: [RawEmails -> Emails]
  OwnDomain,     \* the addresses at the IdP's own domain
  Names,         \* local parts that pass normalize_name
  RawNames,      \* the spellings clients send
  Canon,         \* normalize_name: [RawNames -> Names \cup {None}]
  Requests,      \* the requests that may be in flight together
  SessionIds,    \* the uuids create_session may draw
  MaxAccounts,   \* bound on the rows ever inserted in accounts
  MaxTime,       \* bound on the clock
  SESSION_TTL,   \* how long a session stays valid
  None

ASSUME ConstantsAssumption ==
  /\ LowerEmail \in [RawEmails -> Emails]
  /\ Canon \in [RawNames -> Names \cup {None}]
  /\ OwnDomain \subseteq Emails
  /\ None \notin Emails /\ None \notin Names /\ None # "handle"
  /\ MaxAccounts \in Nat /\ MaxTime \in Nat /\ SESSION_TTL \in Nat

VARIABLES
  external_email, handle, identity_mode,   \* table accounts, by id
  last_id,                                 \* sqlite_sequence of accounts
  agent_account, revoked,                  \* table agent_identities, by name
  sess_account, created_at,                \* table sessions, by session id
  req,                                     \* the requests in flight
  now,                                     \* the wall clock
  signed_in                                \* history: who each session id was issued to

accounts == <<external_email, handle, identity_mode, last_id>>
agents == <<agent_account, revoked>>
sessions == <<sess_account, created_at, signed_in>>
vars == <<accounts, agents, sessions, req, now>>

Ids == 1..MaxAccounts
Modes == {"handle", "email"}
Steps == {"idle", "session:create", "external:mode", "claim:set", "claim:mode",
          "seed:set", "logout:delete"}

Idle == [at |-> "idle", id |-> 0, name |-> None, email |-> None]
At(step, i, n, e) == [at |-> step, id |-> i, name |-> n, email |-> e]

StoreTypes ==
  /\ external_email \in [Ids -> Emails \cup {None}]
  /\ handle \in [Ids -> Names \cup {None}]
  /\ identity_mode \in [Ids -> Modes \cup {None}]
  /\ last_id \in 0..MaxAccounts
  /\ agent_account \in [Names -> 0..MaxAccounts]
  /\ revoked \subseteq Names
  /\ sess_account \in [SessionIds -> 0..MaxAccounts]
  /\ created_at \in [SessionIds -> 0..MaxTime]
  /\ signed_in \in [SessionIds -> Emails \cup {None}]
  /\ req \in [Requests -> [at : Steps, id : 0..MaxAccounts,
                           name : Names \cup {None}, email : Emails \cup {None}]]
  /\ now \in 0..MaxTime

\* A request past its first step carries the id of a row, taken or since deleted,
\* and the name and email its next step writes; so does every session row.
StepTypes ==
  \A r \in Requests :
    /\ req[r].at # "idle" => req[r].id \in 1..last_id
    /\ req[r].at \in {"claim:set", "claim:mode", "seed:set"} => req[r].name \in Names
    /\ req[r].at \in {"session:create", "seed:set"} => req[r].email \in Emails

SessionTypes == \A s \in SessionIds : sess_account[s] \in 0..last_id

TypeOK == StoreTypes /\ StepTypes /\ SessionTypes

Init ==
  /\ external_email = [i \in Ids |-> None]
  /\ handle = [i \in Ids |-> None]
  /\ identity_mode = [i \in Ids |-> None]
  /\ last_id = 0
  /\ agent_account = [n \in Names |-> 0]
  /\ revoked = {}
  /\ sess_account = [s \in SessionIds |-> 0]
  /\ created_at = [s \in SessionIds |-> 0]
  /\ signed_in = [s \in SessionIds |-> None]
  /\ req = [r \in Requests |-> Idle]
  /\ now = 0

-----------------------------------------------------------------------------
(* The Store methods.                                                      *)

\* Mutant: without AUTOINCREMENT SQLite hands out the largest rowid in use plus one.
ReusedNextId == IF \E i \in Ids : external_email[i] # None
                THEN 1 + CHOOSE i \in Ids : /\ external_email[i] # None
                                            /\ \A j \in Ids : j > i => external_email[j] = None
                ELSE 1

\* AUTOINCREMENT: an id is never handed out twice, deleted rows included.
NextId == last_id + 1

\* INSERT OR IGNORE, then SELECT by email; i is the row found or inserted.
find_or_create_account(e, i) ==
  \/ /\ external_email[i] = e
     /\ UNCHANGED accounts
  \/ /\ \A j \in Ids : external_email[j] # e
     /\ i = NextId
     /\ external_email' = [external_email EXCEPT ![i] = e]
     /\ handle' = [handle EXCEPT ![i] = None]
     /\ identity_mode' = [identity_mode EXCEPT ![i] = None]
     /\ last_id' = i

\* UPDATE accounts SET identity_mode: no row, no effect.
set_identity_mode(i, m) ==
  identity_mode' = IF external_email[i] = None THEN identity_mode
                   ELSE [identity_mode EXCEPT ![i] = m]

\* Mutant: set_handle forgets its lookup in agent_identities.
AvailableUnlessHandle(i, n) == \A j \in Ids \ {i} : handle[j] # n

\* set_handle refuses a name an agent has or had, or another account has.
handle_available(i, n) ==
  /\ agent_account[n] = 0
  /\ \A j \in Ids \ {i} : handle[j] # n

\* The UPDATE of set_handle, which drops the previous handle of the account.
set_handle(i, n) ==
  handle' = IF external_email[i] = None THEN handle ELSE [handle EXCEPT ![i] = n]

\* now - created_at <= SESSION_TTL_SECS
session_valid(s) == now <= created_at[s] + SESSION_TTL

\* account_for_session(s) = Some(i)
account_for_session(s, i) ==
  /\ i # 0
  /\ sess_account[s] = i
  /\ session_valid(s)

delete_account_sessions(i) ==
  sess_account' = [s \in SessionIds |-> IF sess_account[s] = i THEN 0 ELSE sess_account[s]]

-----------------------------------------------------------------------------
(* The handlers.                                                           *)

Begin(r, next) == req[r].at = "idle" /\ req' = [req EXCEPT ![r] = next]
Goto(r, next) == req' = [req EXCEPT ![r] = next]
Finish(r) == req' = [req EXCEPT ![r] = Idle]

reject_own_domain(e) == e \in OwnDomain

\* session_from_presentation: the verified email gets its account ...
SessionFindAccount(r) ==
  \E raw \in RawEmails, i \in Ids :
    LET e == LowerEmail[raw] IN
    /\ ~reject_own_domain(e)
    /\ find_or_create_account(e, i)
    /\ Begin(r, At("session:create", i, None, e))
    /\ UNCHANGED <<agents, sessions, now>>

\* ... and then a session under a fresh uuid, which becomes the cookie.
create_session(r) ==
  /\ req[r].at = "session:create"
  /\ \E s \in SessionIds :
       /\ signed_in[s] = None
       /\ sess_account' = [sess_account EXCEPT ![s] = req[r].id]
       /\ created_at' = [created_at EXCEPT ![s] = now]
       /\ signed_in' = [signed_in EXCEPT ![s] = req[r].email]
  /\ Finish(r)
  /\ UNCHANGED <<accounts, agents, now>>

\* Any cookie that was ever issued may come back with a request.
use_external(r) ==
  /\ \E s \in SessionIds, i \in Ids :
       /\ account_for_session(s, i)
       /\ Begin(r, At("external:mode", i, None, None))
  /\ UNCHANGED <<accounts, agents, sessions, now>>

UseExternalSetMode(r) ==
  /\ req[r].at = "external:mode"
  /\ set_identity_mode(req[r].id, "email")
  /\ Finish(r)
  /\ UNCHANGED <<external_email, handle, last_id, agents, sessions, now>>

claim_handle(r) ==
  /\ \E s \in SessionIds, i \in Ids, raw \in RawNames :
       /\ account_for_session(s, i)
       /\ Canon[raw] # None
       /\ Begin(r, At("claim:set", i, Canon[raw], None))
  /\ UNCHANGED <<accounts, agents, sessions, now>>

\* Mutant: the mode is recorded before the handle is known to be available.
ClaimSetModeFirst(r) ==
  /\ req[r].at = "claim:set"
  /\ set_identity_mode(req[r].id, "handle")
  /\ IF handle_available(req[r].id, req[r].name)
     THEN set_handle(req[r].id, req[r].name)
     ELSE UNCHANGED handle
  /\ Finish(r)
  /\ UNCHANGED <<external_email, last_id, agents, sessions, now>>

ClaimSetHandle(r) ==
  /\ req[r].at = "claim:set"
  /\ \/ /\ handle_available(req[r].id, req[r].name)
        /\ set_handle(req[r].id, req[r].name)
        /\ Goto(r, At("claim:mode", req[r].id, req[r].name, None))
     \/ /\ ~handle_available(req[r].id, req[r].name)
        /\ Finish(r)
        /\ UNCHANGED handle
  /\ UNCHANGED <<external_email, identity_mode, last_id, agents, sessions, now>>

ClaimSetMode(r) ==
  /\ req[r].at = "claim:mode"
  /\ set_identity_mode(req[r].id, "handle")
  /\ Finish(r)
  /\ UNCHANGED <<external_email, handle, last_id, agents, sessions, now>>

admin_seed(r) ==
  \E raw \in RawEmails, rawname \in RawNames, i \in Ids :
    LET e == LowerEmail[raw] IN
    /\ Canon[rawname] # None
    /\ ~reject_own_domain(e)
    /\ find_or_create_account(e, i)
    /\ Begin(r, At("seed:set", i, Canon[rawname], e))
    /\ UNCHANGED <<agents, sessions, now>>

\* admin_seed binds the handle and leaves identity_mode undecided.
SeedSetHandle(r) ==
  /\ req[r].at = "seed:set"
  /\ IF handle_available(req[r].id, req[r].name)
     THEN set_handle(req[r].id, req[r].name)
     ELSE UNCHANGED handle
  /\ Finish(r)
  /\ UNCHANGED <<external_email, identity_mode, last_id, agents, sessions, now>>

\* delete_account: the sessions and the row, under one lock.  The agent names
\* of the account stay in agent_identities.
admin_delete_account ==
  \E raw \in RawEmails, i \in Ids :
    /\ external_email[i] = LowerEmail[raw]
    /\ external_email' = [external_email EXCEPT ![i] = None]
    /\ handle' = [handle EXCEPT ![i] = None]
    /\ identity_mode' = [identity_mode EXCEPT ![i] = None]
    /\ delete_account_sessions(i)
    /\ UNCHANGED <<last_id, agents, created_at, signed_in, req, now>>

logout(r) ==
  /\ \E s \in SessionIds, i \in Ids :
       /\ account_for_session(s, i)
       /\ Begin(r, At("logout:delete", i, None, None))
  /\ UNCHANGED <<accounts, agents, sessions, now>>

LogoutDeleteSessions(r) ==
  /\ req[r].at = "logout:delete"
  /\ delete_account_sessions(req[r].id)
  /\ Finish(r)
  /\ UNCHANGED <<accounts, agents, created_at, signed_in, now>>

\* Every handler resolves its cookie first; an expired session is deleted
\* there and the handler answers 401 (logout: deletes the same row again).
PruneExpired ==
  \E s \in SessionIds :
    /\ sess_account[s] # 0
    /\ ~session_valid(s)
    /\ sess_account' = [sess_account EXCEPT ![s] = 0]
    /\ UNCHANGED <<accounts, agents, created_at, signed_in, req, now>>

\* The agent half of the namespace (Store methods; no route calls them yet).
create_agent_identity ==
  \E i \in Ids, n \in Names :
    /\ i <= last_id
    /\ \A j \in Ids : handle[j] # n
    /\ agent_account[n] = 0
    /\ agent_account' = [agent_account EXCEPT ![n] = i]
    /\ UNCHANGED <<accounts, revoked, sessions, req, now>>

\* Mutant: revoking deletes the row.
RevokeDeletes ==
  \E n \in Names :
    /\ agent_account[n] # 0
    /\ agent_account' = [agent_account EXCEPT ![n] = 0]
    /\ UNCHANGED <<accounts, revoked, sessions, req, now>>

\* A soft revocation: the row stays.
revoke_agent_identity ==
  \E n \in Names :
    /\ agent_account[n] # 0
    /\ revoked' = revoked \cup {n}
    /\ UNCHANGED <<accounts, agent_account, sessions, req, now>>

Tick == now < MaxTime /\ now' = now + 1 /\ UNCHANGED <<accounts, agents, sessions, req>>

Continue(r) ==
  \/ create_session(r)
  \/ UseExternalSetMode(r)
  \/ ClaimSetHandle(r)
  \/ ClaimSetMode(r)
  \/ SeedSetHandle(r)
  \/ LogoutDeleteSessions(r)

Next ==
  \/ \E r \in Requests :
       \/ SessionFindAccount(r)
       \/ use_external(r)
       \/ claim_handle(r)
       \/ admin_seed(r)
       \/ logout(r)
       \/ Continue(r)
  \/ admin_delete_account
  \/ PruneExpired
  \/ create_agent_identity
  \/ revoke_agent_identity
  \/ Tick

Spec == Init /\ [][Next]_vars

-----------------------------------------------------------------------------
(* Properties.                                                             *)

\* Human handles and agent names share one `<local>@<domain>` namespace: no
\* name is held by two accounts, nor by an account and an agent, although
\* each table is checked by a handler that only looks at the other one.
OneNamespace ==
  /\ \A i, j \in Ids : (i # j /\ handle[i] # None) => handle[i] # handle[j]
  /\ \A i \in Ids : handle[i] # None => agent_account[handle[i]] = 0

\* A session never comes to stand for somebody else: whatever accounts are
\* deleted and created between find_or_create_account and create_session, or
\* after it, the account a session resolves to is the one of the email that
\* signed in.
SessionResolvesToSigner ==
  \A s \in SessionIds : \A i \in Ids :
    (sess_account[s] = i /\ external_email[i] # None) => external_email[i] = signed_in[s]

\* An account that is shown as a handle has one: claim_handle records the
\* choice only after set_handle gave it the name, and no interleaving of
\* claims, seeds and deletions takes the name away and leaves the choice.
ModeHasHandle ==
  \A i \in Ids : identity_mode[i] = "handle" => handle[i] # None

\* The one table the two tables stand for.
HolderOf(n) ==
  IF agent_account[n] # 0 THEN [kind |-> "agent", id |-> agent_account[n]]
  ELSE IF \E i \in Ids : handle[i] = n
       THEN [kind |-> "human", id |-> CHOOSE i \in Ids : handle[i] = n]
       ELSE [kind |-> "free", id |-> 0]

Registry == INSTANCE NameRegistry WITH holder <- [n \in Names |-> HolderOf(n)]

\* The store implements the name registry: a name changes hands only through
\* being free, and an agent name, revoked or not, is never recycled.
RegistryImplemented == Registry!Spec
=============================================================================
