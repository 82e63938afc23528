------------------------------ MODULE CliLogin ------------------------------
(***************************************************************************)
(* The command line's identity: mingo login, whoami and post               *)
(* (mingo-app/src/login.rs) and the credential file they share with the    *)
(* import of a credential (device_login.rs).  Commands run in several      *)
(* shells on one home directory and may be killed between any two steps;   *)
(* the file is truncated and written in place, with no lock.               *)
(*                                                                         *)
(* External: the broker, which delivers what a human approved; the SDK,    *)
(* which takes a grant only for the identity of the credential; the IdP,   *)
(* which mints access certs; and the daemon.                               *)
(***************************************************************************)
EXTENDS Naturals, Sequences, FiniteSets, SequencesExt

CONSTANTS
  Shells,
  Approvals,     \* what a human may approve: an identity and grants for it
  Imports,       \* identities of credentials that may be imported
  Audience,      \* the audience of the posts
  None, Absent, Empty, Torn,
  MaxRuns,       \* commands run
  MaxMs          \* milliseconds the clock advances

ASSUME CliAssumption ==
  /\ MaxRuns \in Nat /\ MaxMs \in Nat
  /\ \A a \in Approvals : \A g \in a.grants :
       g = [audience |-> g.audience, grantor |-> g.grantor, grantee |-> a.ident]

VARIABLES
  file,       \* device-credential.json: Absent, Empty, Torn or a login
  cmd, at,    \* per shell: the command and its next step
  mem,        \* per shell: the login in memory
  draft,      \* per shell: the write being posted
  said,       \* per shell: what the last command reported
  now,        \* the clock, in milliseconds
  object,     \* confirmed posts, by the millisecond their id is derived from
  pending,    \* writes accepted and not yet synced
  runs,       \* commands run
  approved,   \* history: grants the broker delivered
  overlapped, \* history: shells whose rewrite of the file met another one
  collided    \* history: two posts in one millisecond

local == <<cmd, at, mem, draft, said>>
vars == <<file, local, now, object, pending, runs, approved, overlapped, collided>>

Login(ident, grants) == [ident |-> ident, grants |-> grants]
Default == Login(None, {})

Identities == Imports \cup {a.ident : a \in Approvals}
Logins == {Login(i, g) : i \in Identities, g \in {{}} \cup {a.grants : a \in Approvals}}

\* A write of a post: owner and signer, and the millisecond of its id.
Writes == [by : Shells, owner : {g.grantor : g \in UNION {a.grants : a \in Approvals}},
           signer : Identities, ms : 0 .. MaxMs, run : 0 .. MaxRuns]

Reports == {"killed", "declined", "error", "stored", "relogin", "loggedin", "dryrun",
            "confirmed", "foreign", "unconfirmed"}

\* None is none of the values it stands beside.
ASSUME NoneAssumption == None \notin Writes /\ None \notin Reports /\ None \notin Identities

-----------------------------------------------------------------------------
(* The stored login.                                                       *)

\* load: a missing file is an empty login, one that does not parse an error.
load == IF file = Absent THEN {Default} ELSE IF file \in {Empty, Torn} THEN {} ELSE {file}

\* Mutant: grants that do not fit are left out.
agent_lenient(l) == l.ident # None

\* agent: a credential, and every grant names its identity.
agent(l) == l.ident # None /\ \A g \in l.grants : g.grantee = l.ident

grantor_for(l) == {g.grantor : g \in {x \in l.grants : x.audience = Audience}}

-----------------------------------------------------------------------------

Init ==
  /\ file = Absent
  /\ cmd = [s \in Shells |-> None] /\ at = [s \in Shells |-> "idle"]
  /\ mem = [s \in Shells |-> Default] /\ draft = [s \in Shells |-> None]
  /\ said = [s \in Shells |-> None]
  /\ now = 0 /\ object = [t \in 0 .. MaxMs |-> None] /\ pending = <<>> /\ runs = 0
  /\ approved = {} /\ overlapped = {} /\ collided = FALSE

Run(s, command, first) ==
  /\ at[s] = "idle" /\ runs < MaxRuns
  /\ runs' = runs + 1
  /\ cmd' = [cmd EXCEPT ![s] = command] /\ at' = [at EXCEPT ![s] = first]
  /\ said' = [said EXCEPT ![s] = None]
  /\ overlapped' = overlapped \ {s}
  /\ UNCHANGED <<file, mem, draft, now, object, pending, approved, collided>>

Report(s, what) ==
  /\ at' = [at EXCEPT ![s] = "idle"] /\ said' = [said EXCEPT ![s] = what]
  /\ mem' = [mem EXCEPT ![s] = Default] /\ draft' = [draft EXCEPT ![s] = None]
  /\ UNCHANGED cmd

Goto(s, step) == at' = [at EXCEPT ![s] = step] /\ UNCHANGED <<cmd, said>>

\* The command is killed.  In write_private that leaves what was written so far.
Kill(s) ==
  /\ at[s] # "idle"
  /\ Report(s, "killed")
  /\ file' \in IF at[s] = "write" THEN {file, Torn} ELSE {file}
  /\ UNCHANGED <<now, object, pending, runs, approved, overlapped, collided>>

-----------------------------------------------------------------------------
(* login and import: two ways to rewrite the file.                         *)

LoginBegin(s) == Run(s, "login", "wait")

Rewriting(s) == at[s] \in {"truncate", "write"}

\* From reading the file to writing it back.
Overlapping(s) == {t \in Shells \ {s} : Rewriting(t)}

MetBy(s) == overlapped' = IF Overlapping(s) = {} THEN overlapped ELSE overlapped \cup {s} \cup Overlapping(s)

\* wait delivers a credential and grants; without a grant nothing is stored.
\* load().unwrap_or_default() then keeps nothing of the old login, since both
\* fields are replaced.
LoginDelivered(s, a) ==
  /\ cmd[s] = "login" /\ at[s] = "wait"
  /\ \/ a.grants = {} /\ Report(s, "declined") /\ UNCHANGED overlapped
     \/ /\ a.grants # {}
        /\ mem' = [mem EXCEPT ![s] = Login(a.ident, a.grants)]
        /\ Goto(s, "truncate") /\ MetBy(s) /\ UNCHANGED draft
  /\ approved' = approved \cup a.grants
  /\ UNCHANGED <<file, now, object, pending, runs, collided>>

\* The request is refused, denied or expires.
LoginRefused(s) ==
  /\ cmd[s] = "login" /\ at[s] = "wait"
  /\ Report(s, "error")
  /\ UNCHANGED <<file, now, object, pending, runs, approved, overlapped, collided>>

ImportBegin(s) == Run(s, "import", "read")

\* import keeps the grants of the login it finds.
Import(s, ident) ==
  /\ cmd[s] = "import" /\ at[s] = "read"
  /\ \/ /\ load # {}
        /\ \E l \in load : mem' = [mem EXCEPT ![s] = Login(ident, l.grants)]
        /\ Goto(s, "truncate") /\ MetBy(s) /\ UNCHANGED draft
     \/ load = {} /\ Report(s, "error") /\ UNCHANGED overlapped
  /\ UNCHANGED <<file, now, object, pending, runs, approved, collided>>

\* Mutant: the new contents are written over the old ones.
TruncateNot(s) ==
  /\ at[s] = "truncate"
  /\ file' = IF file = Absent THEN Empty ELSE file
  /\ Goto(s, "write")
  /\ UNCHANGED <<mem, draft, now, object, pending, runs, approved, overlapped, collided>>

\* write_private opens with truncate, or fails.
Truncate(s) ==
  /\ at[s] = "truncate"
  /\ \/ file' = Empty /\ Goto(s, "write") /\ UNCHANGED <<mem, draft>>
     \/ Report(s, "error") /\ UNCHANGED file
  /\ UNCHANGED <<now, object, pending, runs, approved, overlapped, collided>>

\* What the file holds after write_all: a longer text of another shell keeps its tail.
Written(s) == IF file = Empty THEN {mem[s]} ELSE {mem[s], Torn}

\* write_all, and the report; a full disk leaves part of it.  The rehydration
\* looks at the login in memory.
Save(s) ==
  /\ at[s] = "write"
  /\ \/ /\ file' \in Written(s)
        /\ Report(s, IF cmd[s] = "import" \/ agent(mem[s]) THEN "stored" ELSE "error")
     \/ file' = Torn /\ Report(s, "error")
  /\ UNCHANGED <<now, object, pending, runs, approved, overlapped, collided>>

-----------------------------------------------------------------------------
(* whoami and post.                                                        *)

WhoamiBegin(s) == Run(s, "whoami", "look")

Whoami(s) ==
  /\ at[s] = "look"
  /\ Report(s, IF load = {} THEN "error" ELSE IF load = {Default} THEN "relogin" ELSE "loggedin")
  /\ UNCHANGED <<file, now, object, pending, runs, approved, overlapped, collided>>

PostBegin(s) == Run(s, "post", "open")

\* The login is read once; owner and signer come from it.  The id is derived
\* from community, space and millisecond.
PostOpen(s) ==
  /\ at[s] = "open"
  /\ \/ /\ \E l \in load, owner \in UNION {grantor_for(x) : x \in {y \in load : agent(y)}} :
             draft' = [draft EXCEPT ![s] = [by |-> s, owner |-> owner, signer |-> l.ident, ms |-> now, run |-> runs]]
        /\ collided' = (collided \/ object[now] # None
                        \/ (\E n \in DOMAIN pending : pending[n].ms = now)
                        \/ (\E t \in Shells : draft[t] # None /\ draft[t].ms = now))
        /\ Goto(s, "sign") /\ UNCHANGED mem
     \/ /\ \A l \in load : ~agent(l) \/ grantor_for(l) = {}
        /\ Report(s, IF load = {} THEN "error" ELSE "relogin") /\ UNCHANGED collided
  /\ UNCHANGED <<file, now, object, pending, runs, approved, overlapped>>

\* sign_as_logged_in_user, which mints an access cert, then the refresh of the
\* DNSSEC proof of each issuer.  Without --execute the plan is shown and no more.
PostSign(s) ==
  /\ at[s] = "sign"
  /\ \/ Goto(s, "submit") /\ UNCHANGED <<mem, draft>>
     \/ \E what \in {"error", "dryrun"} : Report(s, what)
  /\ UNCHANGED <<file, now, object, pending, runs, approved, overlapped, collided>>

\* The submit is accepted, or refused, or its answer is lost.
PostSubmit(s) ==
  /\ at[s] = "submit"
  /\ \/ /\ pending' = Append(pending, draft[s])
        /\ Goto(s, "confirm") /\ UNCHANGED <<mem, draft>>
     \/ pending' \in {pending, Append(pending, draft[s])} /\ Report(s, "error")
  /\ UNCHANGED <<file, now, object, runs, approved, overlapped, collided>>

\* GET /v1/object serves the newest pending write of the id, or the confirmed one.
Newest(ms) == {n \in DOMAIN pending : /\ pending[n].ms = ms
                                      /\ \A k \in DOMAIN pending : k > n => pending[k].ms # ms}
Served(ms) == IF \E n \in DOMAIN pending : pending[n].ms = ms THEN {pending[n] : n \in Newest(ms)}
                                                              ELSE {object[ms]} \ {None}

\* Mutant: any answer confirms.
PostConfirmAny(s) ==
  /\ at[s] = "confirm"
  /\ Report(s, "confirmed")
  /\ UNCHANGED <<file, now, object, pending, runs, approved, overlapped, collided>>

\* The read-back: what is served is compared with the owner, confirmed or not;
\* after twenty attempts without an answer the command ends well.
PostConfirm(s) ==
  /\ at[s] = "confirm"
  /\ \/ \E w \in Served(draft[s].ms) : Report(s, IF w.owner = draft[s].owner THEN "confirmed" ELSE "foreign")
     \/ Report(s, "unconfirmed")
  /\ UNCHANGED <<file, now, object, pending, runs, approved, overlapped, collided>>

-----------------------------------------------------------------------------
(* The world.                                                              *)

Tick ==
  /\ now < MaxMs /\ now' = now + 1
  /\ UNCHANGED <<file, local, object, pending, runs, approved, overlapped, collided>>

\* The oldest write is synced: it creates an object or updates one of its owner,
\* or the replay denies it.
Sync ==
  /\ pending # <<>>
  /\ LET w == Head(pending)
     IN \/ (object[w.ms] # None => object[w.ms].owner = w.owner) /\ object' = [object EXCEPT ![w.ms] = w]
        \/ UNCHANGED object
  /\ pending' = Tail(pending)
  /\ UNCHANGED <<file, local, now, runs, approved, overlapped, collided>>

Command(s) ==
  \/ \E a \in Approvals : LoginDelivered(s, a)
  \/ LoginRefused(s)
  \/ \E i \in Imports : Import(s, i)
  \/ Truncate(s) \/ Save(s) \/ Whoami(s)
  \/ PostOpen(s) \/ PostSign(s) \/ PostSubmit(s) \/ PostConfirm(s)

Begin(s) == LoginBegin(s) \/ ImportBegin(s) \/ WhoamiBegin(s) \/ PostBegin(s)

Next == \/ \E s \in Shells : Begin(s) \/ Command(s) \/ Kill(s)
        \/ Tick \/ Sync

Spec == Init /\ [][Next]_vars

-----------------------------------------------------------------------------
(* Properties.                                                             *)

TypeOK ==
  /\ file \in {Absent, Empty, Torn} \cup Logins
  /\ cmd \in [Shells -> {None, "login", "import", "whoami", "post"}]
  /\ at \in [Shells -> {"idle", "wait", "read", "truncate", "write", "look", "open", "sign", "submit", "confirm"}]
  /\ mem \in [Shells -> Logins \cup {Default}] /\ draft \in [Shells -> Writes \cup {None}]
  /\ said \in [Shells -> Reports \cup {None}]
  /\ now \in 0 .. MaxMs /\ runs \in 0 .. MaxRuns
  /\ object \in [0 .. MaxMs -> Writes \cup {None}] /\ pending \in Seq(Writes)
  /\ overlapped \subseteq Shells /\ collided \in BOOLEAN

\* The owner of a write is "the warrant grantor" and its signer "the grantee"
\* (login.rs:16-24): every write that leaves the machine is covered by one grant
\* that a human approved, whatever logins and imports replaced the file before or
\* meanwhile.  For a named agent the owner is thus its approver, as login.rs:21-24
\* and 220-222 say; scopes_for says of the same login that it "authors as ITSELF"
\* (login.rs:115-119), which the code of post does not do.
WriteWithinGrant ==
  \A w \in Range(pending) \cup {draft[s] : s \in Shells} \cup {object[t] : t \in 0 .. MaxMs} :
    w # None => [audience |-> Audience, grantor |-> w.owner, grantee |-> w.signer] \in approved

\* A login or import that reports success and met no other rewrite has stored
\* just what it held, whatever it found: a torn file is repaired by a login.  And
\* after a login this is one that post can use, since an identity whose
\* "permission was declined" is not stored.
SuccessIsStored ==
  [][\A s \in Shells :
       (at[s] = "write" /\ said'[s] = "stored" /\ s \notin overlapped)
         => /\ file' = mem[s]
            /\ cmd[s] = "login" => agent(file') /\ file'.grants # {}]_vars

\* "attribution confirmed: authored by <user>" is only said of a post of this
\* command that is accepted, unless another post of the same millisecond has
\* the same id.
ConfirmedIsMine ==
  [][\A s \in Shells : (at[s] = "confirm" /\ said'[s] = "confirmed" /\ ~collided)
       => draft[s] \in Range(pending) \cup {object[draft[s].ms]}]_vars
=============================================================================
