--------------------------- MODULE DeviceAuthorize ---------------------------
(***************************************************************************)
(* Device certificates: the page mingo-idp/static/device-authorize.html    *)
(* that the broker's dialog opens, and the three handlers of device.rs     *)
(* that sign for it (/device_cert, /agent_device_cert, /access/mint).      *)
(*                                                                         *)
(* The page asks whoami, compares the answer with the identity the dialog  *)
(* wants and then calls an issuing handler, which looks up the session     *)
(* again, and after it the account.  Other tabs of the browser share the   *)
(* cookie: between any two of these steps the session may change hands,    *)
(* the account may claim another handle or be deleted (routes.rs, see      *)
(* IdpAccounts).                                                           *)
(*                                                                         *)
(* An identity <handle>[+<tag>]@<domain> is a pair; tag = None is the      *)
(* handle itself.                                                          *)
(***************************************************************************)
EXTENDS Naturals, FiniteSets

CONSTANTS
  Accounts,
  Handles,
  Tags,         \* the +tags agents use
  Holders,      \* the holder ids the broker hands out
  MaxVisits,    \* bound on the times the dialog opens the page
  MaxReloads,   \* bound on the reloads of the page
  MaxSwitches,  \* bound on what the other tabs do
  None

ASSUME DeviceAssumption ==
  /\ None \notin Accounts /\ None \notin Handles /\ None \notin Tags
  /\ MaxVisits \in Nat /\ MaxReloads \in Nat /\ MaxSwitches \in Nat

VARIABLES
  handle,       \* accounts.handle, by account
  session,      \* the account the browser's cookie resolves to, or None
  page,         \* where the page and the call it waits for stand
  params,       \* what sessionStorage holds for it
  certs,        \* the device certs signed so far
  inbox,        \* what the dialog was sent
  minted,       \* the access certs signed so far
  visits, reloads, switches

idp == <<handle, session>>
counters == <<visits, reloads, switches>>
vars == <<idp, page, params, certs, inbox, minted, counters>>

Identities == [handle : Handles, tag : Tags \cup {None}]
Self(h) == [handle |-> h, tag |-> None]
Certs == [identity : Identities, purpose : {"authentication", "authorization"},
          holder : Holders]

\* What the opener puts in the fragment.  email: the identity it wants a device
\* and config pair for, with the two keys; agent: the agent it wants a cert for,
\* with the agent's key; a combined request carries both.  hold: the page stays
\* for one re-issue.  proof: the account a parent presentation proves.
Fragments ==
  {f \in [email : Handles \cup {None}, agent : Identities \cup {None}, holder : Holders,
          hold : BOOLEAN, popup : BOOLEAN, proof : Accounts \cup {None}] :
     /\ f.email # None \/ f.agent # None
     /\ f.agent # None => ~f.hold /\ f.popup /\ f.proof = None}

\* What the page makes of it, kept in sessionStorage.
Params == [mode : {"user", "agent"}, email : Identities,
           holder : Holders, hold : BOOLEAN, popup : BOOLEAN, proof : Accounts \cup {None}]

\* The stages at which an issuing call is out, and those after the comparison.
Calls == {"issue", "reissue", "agent"}
Compared == Calls \cup {"held"}
At == Compared \cup {"closed", "whoami", "proof", "recheck", "failed", "stuck"}

\* holder: the holder asked for; acct: the account the handler of the call runs
\* for, once it has looked up the session, or that the proof proves; timer: the page closes itself in a
\* minute; moved (history): another tab changed the session or its handle since
\* the page compared.
Pages == [at : At, holder : Holders \cup {None}, acct : Accounts \cup {None},
          timer : BOOLEAN, moved : BOOLEAN]
Fresh(at) == [at |-> at, holder |-> None, acct |-> None, timer |-> FALSE, moved |-> FALSE]
Closed == Fresh("closed")
Loaded == Fresh("whoami")
Goto(at) == page' = [page EXCEPT !.at = at]
Call(at, holder) == page' = [page EXCEPT !.at = at, !.holder = holder, !.acct = None]

\* A message to the dialog: the identity asked for and the one the certs are for.
Messages == [type : {"certs", "agent_cert", "error"},
             asked : Identities, signed : Identities \cup {None}, moved : BOOLEAN]

TypeOK ==
  /\ handle \in [Accounts -> Handles \cup {None}]
  /\ session \in Accounts \cup {None}
  /\ page \in Pages
  /\ params \in Params \cup {None}
  /\ certs \subseteq Certs
  /\ inbox \subseteq Messages
  /\ minted \subseteq [identity : Identities, holder : Holders]
  /\ visits \in 0..MaxVisits /\ reloads \in 0..MaxReloads /\ switches \in 0..MaxSwitches

Init ==
  /\ handle \in [Accounts -> Handles \cup {None}]
  /\ \A a, b \in Accounts : (a # b /\ handle[a] # None) => handle[a] # handle[b]
  /\ session \in Accounts \cup {None}
  /\ page = Closed
  /\ params = None
  /\ certs = {} /\ inbox = {} /\ minted = {}
  /\ visits = 0 /\ reloads = 0 /\ switches = 0

-----------------------------------------------------------------------------
(* What the page sends and shows.                                          *)

\* A fragment with the fields of a pair is a user request; only one without
\* them is looked at for an agent.  So a combined request loses its agent, and
\* the branch that issues both is never taken.
CaptureParams(f) ==
  [mode |-> IF f.email # None THEN "user" ELSE "agent",
   email |-> IF f.email # None THEN Self(f.email) ELSE f.agent,
   holder |-> f.holder, hold |-> f.hold, popup |-> f.popup, proof |-> f.proof]

Message(type, signed) ==
  [type |-> type, asked |-> params.email, signed |-> signed, moved |-> page.moved]
Error == Message("error", None)

\* The opener is gone or the return URL is not the dialog's, and the page says
\* so.  Of a re-issue nobody sees the error, and the page stays open.
Undelivered ==
  /\ Goto(IF page.at = "reissue" THEN "stuck" ELSE "failed")
  /\ UNCHANGED inbox

\* Otherwise the message is delivered and the page closes.
Send(m) == (inbox' = inbox \cup {m} /\ page' = Closed) \/ Undelivered

\* A popup reports not_signed_in and closes; in redirect mode the page offers
\* a link to the sign-in.
NotSignedIn == IF params.popup THEN Send(Error) ELSE Goto("failed") /\ UNCHANGED inbox

-----------------------------------------------------------------------------
(* The handlers: require_session first, then the account of that session.  *)

\* The handle of the session's account, which /whoami reports.
SessionHandle == IF session = None THEN None ELSE handle[session]

\* require_session: the handler goes on for the account it found.
require_session ==
  /\ page.at \in Calls /\ page.acct = None
  /\ session # None
  /\ page' = [page EXCEPT !.acct = session]
  /\ UNCHANGED <<idp, params, certs, inbox, minted, counters>>

\* The handle get_account reports for it by then.
AccountHandle == IF page.acct = None THEN None ELSE handle[page.acct]

\* POST /device_cert: a pair for the handle of the account, under the holder
\* that came with the request.
device_cert(holder) ==
  /\ AccountHandle # None
  /\ certs' = certs \cup {[identity |-> Self(AccountHandle), purpose |-> p, holder |-> holder] :
                            p \in {"authentication", "authorization"}}

\* POST /agent_device_cert: the agent is the account's handle or a +tag of it.
agent_device_cert(email, holder) ==
  /\ email.handle = AccountHandle
  /\ certs' = certs \cup {[identity |-> email, purpose |-> "authentication", holder |-> holder]}

\* An authorization cert also covers the handle's +* sub-addresses.
authorizes_identity(c, i) ==
  \/ i = c.identity
  \/ c.purpose = "authorization" /\ i.handle = c.identity.handle /\ i.tag # None

\* Mutant: the purpose of the device cert is not looked at.
MintFromAnyCert(c) == TRUE

\* Only an authentication cert mints.
MintableCert(c) == c.purpose = "authentication"

\* POST /access/mint: no session; the access cert copies the holder.
access_mint ==
  /\ \E c \in certs, i \in Identities :
       /\ MintableCert(c)
       /\ authorizes_identity(c, i)
       /\ minted' = minted \cup {[identity |-> i, holder |-> c.holder]}
  /\ UNCHANGED <<idp, page, params, certs, inbox, counters>>

-----------------------------------------------------------------------------
(* The page.                                                               *)

\* The dialog opens the page with its request in the fragment.
Open ==
  /\ page.at = "closed"
  /\ visits < MaxVisits
  /\ \E f \in Fragments : params' = CaptureParams(f)
  /\ page' = Loaded
  /\ visits' = visits + 1
  /\ UNCHANGED <<idp, certs, inbox, minted, reloads, switches>>

\* Mutant: the page issues for whoever is signed in.
NeverOther == FALSE

\* Somebody else is signed in than the request is for.
SignedInAsOther == params.email.handle # SessionHandle

\* The page compares the signed-in handle with what is asked and calls the
\* issuing handler, or shows why not.
Compare ==
  /\ SessionHandle # None
  /\ IF SignedInAsOther THEN Goto("failed")
     ELSE Call(IF params.mode = "user" THEN "issue" ELSE "agent", params.holder)
  /\ UNCHANGED <<params, inbox>>

\* Nobody is signed in and there is a proof: one attempt, and the proof is
\* erased, in sessionStorage too, before the call.
TryProof ==
  /\ SessionHandle = None /\ params.proof # None
  /\ params' = [params EXCEPT !.proof = None]
  /\ page' = [page EXCEPT !.at = "proof", !.acct = params.proof]
  /\ UNCHANGED inbox

NoSession == SessionHandle = None /\ NotSignedIn /\ UNCHANGED params

whoami ==
  /\ page.at = "whoami"
  /\ Compare \/ TryProof \/ (params.proof = None /\ NoSession)
  /\ UNCHANGED <<idp, certs, minted, counters>>

\* Whatever the answer of /session/from-presentation is, whoami is asked once
\* more; if there is none, the first answer stands.
withParentProof ==
  /\ page.at = "proof"
  /\ \/ session' \in {session, page.acct} /\ Goto("recheck") /\ UNCHANGED inbox
     \/ UNCHANGED session /\ NotSignedIn
  /\ UNCHANGED <<handle, params, certs, minted, counters>>

\* The second answer is final: no proof is tried again.
recheck ==
  /\ page.at = "recheck"
  /\ Compare \/ NoSession
  /\ UNCHANGED <<idp, certs, minted, counters>>

Signed == Message("certs", Self(AccountHandle))

\* Mutant: the page that stays arms no timer.
HoldUntimed == inbox' = inbox \cup {Signed} /\ Goto("held")

\* Hold mode: the certs are posted and the page stays, for a minute at most.
Hold ==
  /\ inbox' = inbox \cup {Signed}
  /\ page' = [page EXCEPT !.at = "held", !.timer = TRUE]

\* User mode: the pair is signed and posted.
issuePair ==
  /\ page.at = "issue"
  /\ device_cert(page.holder)
  /\ IF params.hold /\ params.popup THEN Hold \/ Undelivered ELSE Send(Signed)
  /\ UNCHANGED <<idp, params, minted, counters>>

\* The hold is over: the dialog is done ...
HoldDone ==
  /\ page.at = "held"
  /\ page' = Closed
  /\ UNCHANGED <<idp, params, certs, inbox, minted, counters>>

\* ... or the timer fires.
HoldTimeout ==
  /\ page.timer
  /\ HoldDone

\* Hold mode: the dialog asks for the same keys under another holder; timer and
\* listener are removed.
HoldReissue ==
  /\ page.at = "held"
  /\ \E h \in Holders :
       page' = [page EXCEPT !.at = "reissue", !.holder = h, !.acct = None, !.timer = FALSE]
  /\ UNCHANGED <<idp, params, certs, inbox, minted, counters>>

Reissue ==
  /\ page.at = "reissue"
  /\ device_cert(page.holder)
  /\ Send(Signed)
  /\ UNCHANGED <<idp, params, minted, counters>>

\* Agent mode: the server compares once more, and answers for the agent asked.
AgentIssue ==
  /\ page.at = "agent"
  /\ agent_device_cert(params.email, page.holder)
  /\ Send(Message("agent_cert", params.email))
  /\ UNCHANGED <<idp, params, minted, counters>>

\* The handler refuses: no session, no account or handle any more, another
\* handle, a bad key or holder, or the signing fails.
IssueRefused ==
  /\ page.at \in Calls
  /\ Send(Error)
  /\ UNCHANGED <<idp, params, certs, minted, counters>>

\* A fetch fails, before or after the handler signed: the page says so and
\* stays; agent mode reports it; the re-issue has no error handler, and its
\* timer and listener are gone.
FetchLost ==
  /\ page.at \in Calls \cup {"whoami", "recheck"}
  /\ \/ UNCHANGED certs
     \/ page.at \in {"issue", "reissue"} /\ device_cert(page.holder)
     \/ page.at = "agent" /\ agent_device_cert(params.email, page.holder)
  /\ \/ page.at = "agent" /\ Send(Error)
     \/ page.at = "reissue" /\ Goto("stuck") /\ UNCHANGED inbox
     \/ page.at \notin {"agent", "reissue"} /\ Goto("failed") /\ UNCHANGED inbox
  /\ UNCHANGED <<idp, params, minted, counters>>

\* A reload starts over from sessionStorage; what a call of the old page signs
\* nobody receives.
Reload ==
  /\ page.at \in At \ {"closed"}
  /\ reloads < MaxReloads
  /\ page' = Loaded
  /\ reloads' = reloads + 1
  /\ UNCHANGED <<idp, params, certs, inbox, minted, visits, switches>>

-----------------------------------------------------------------------------
(* The other tabs and the admin: sign in, sign out, claim a handle nobody  *)
(* has, delete an account with its sessions.                               *)

OtherTab ==
  /\ switches < MaxSwitches
  /\ switches' = switches + 1
  /\ UNCHANGED <<params, certs, inbox, minted, visits, reloads>>

\* The comparison the page made no longer stands.
Unsettled == page' = [page EXCEPT !.moved = page.moved \/ page.at \in Compared]

SwitchSession ==
  /\ session' \in (Accounts \cup {None}) \ {session}
  /\ Unsettled
  /\ UNCHANGED handle
  /\ OtherTab

ClaimHandle ==
  /\ session # None
  /\ \E h \in Handles :
       /\ \A a \in Accounts : handle[a] # h
       /\ handle' = [handle EXCEPT ![session] = h]
  /\ Unsettled
  /\ UNCHANGED session
  /\ OtherTab

DeleteAccount ==
  /\ \E a \in Accounts :
       /\ handle[a] # None
       /\ handle' = [handle EXCEPT ![a] = None]
       /\ IF a = session THEN session' = None /\ Unsettled ELSE UNCHANGED <<session, page>>
  /\ OtherTab

PageStep ==
  \/ whoami \/ withParentProof \/ recheck \/ issuePair \/ HoldTimeout \/ Reissue
  \/ AgentIssue \/ require_session \/ IssueRefused \/ FetchLost

Next ==
  \/ Open \/ PageStep \/ HoldDone \/ HoldReissue \/ Reload
  \/ SwitchSession \/ ClaimHandle \/ DeleteAccount \/ access_mint

Spec == Init /\ [][Next]_vars

\* The browser runs the page and its timer, and every fetch comes back or
\* fails.  Nobody has to open, reload or answer the page.
FairSpec == Spec /\ WF_vars(PageStep)

-----------------------------------------------------------------------------
(* Properties.                                                             *)

\* An agent identity gets access certs only after agent_device_cert certified
\* that very agent under that holder: the +* coverage of the config cert, which
\* is there for signing warrants, never turns into access.
AgentAccessIsCertified ==
  \A m \in minted : m.identity.tag # None =>
    \E c \in certs : c.purpose = "authentication" /\ c.identity = m.identity
                       /\ c.holder = m.holder

\* A page the dialog opened does not hang: it reports back and closes, also when
\* it was held and the dialog never speaks again, or says why it cannot go on.
\* The one dead end is a re-issue whose fetch fails or whose opener is gone
\* ("stuck"): its timer and listener were removed and nobody handles the error.
VisitIsAnswered ==
  (page.at = "whoami") ~> (page.at \in {"closed", "failed", "stuck"})

\* "This browser is signed in as ..., but the sign-in requested ...": the dialog
\* is handed certs only for the identity it asked for, whatever was reloaded,
\* signed in by proof, refused or re-issued and whatever other tabs did before
\* the page compared.  Only what another tab does between that comparison and
\* the handler's own lookups can make it another identity: the answer of
\* /device_cert is not compared again.
CertsAsRequested == \A m \in inbox : m.signed \in {None, m.asked} \/ m.moved
=============================================================================
