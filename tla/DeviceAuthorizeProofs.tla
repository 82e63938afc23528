------------------------ MODULE DeviceAuthorizeProofs ------------------------
(***************************************************************************)
(* Proofs about module DeviceAuthorize: agents get access only by a cert   *)
(* of their own, and the dialog is handed what it asked for unless another *)
(* tab interferes between the page's comparison and the handler's lookups. *)
(***************************************************************************)
EXTENDS DeviceAuthorize, TLAPS

\* The stages of user mode between the comparison and the answer.
Issuing == {"issue", "held", "reissue"}

\* An open page has a request; one in user mode is for a handle, not an agent;
\* a call asks for a holder.
PageInv ==
  /\ page.at # "closed" => params \in Params /\ (params.mode = "user" => params.email.tag = None)
  /\ page.at \in Issuing => params.mode = "user"
  /\ page.at \in Calls => page.holder \in Holders

IInv == TypeOK /\ PageInv

\* A message names the identity asked for, or none, or was overtaken.
Fits(m) == m.signed \in {None, m.asked} \/ m.moved

\* While no other tab interferes, the comparison the page made still holds, and
\* it is the account compared that the handler runs for.
RequestInv ==
  /\ (page.at \in Issuing /\ ~page.moved) =>
        params.email = Self(SessionHandle) /\ page.acct \in {None, session}
  /\ \A m \in inbox : Fits(m)

-----------------------------------------------------------------------------
(* Types.                                                                  *)

\* The fields of a request.
LEMMA RequestTypes == \A p \in Params : p.email \in Identities /\ p.holder \in Holders
BY DEF Params

\* The handle of the session, and that of the account a handler runs for.
LEMMA HandleTypes ==
  TypeOK => SessionHandle \in Handles \cup {None} /\ AccountHandle \in Handles \cup {None}
BY DEF TypeOK, SessionHandle, AccountHandle, Pages

\* A handle by itself is an identity.
LEMMA SelfType == \A h \in Handles : Self(h) \in Identities /\ Self(h).tag = None /\ Self(h).handle = h
BY DEF Self, Identities

\* What the page makes of a fragment is a request, for a handle in user mode.
LEMMA CaptureType ==
  ASSUME NEW f \in Fragments
  PROVE  /\ CaptureParams(f) \in Params
         /\ CaptureParams(f).mode = "user" => CaptureParams(f).email.tag = None
<1>1. /\ f.email \in Handles \cup {None} /\ f.agent \in Identities \cup {None} /\ f.holder \in Holders
      /\ f.hold \in BOOLEAN /\ f.popup \in BOOLEAN /\ f.proof \in Accounts \cup {None}
      /\ f.email # None \/ f.agent # None
  BY DEF Fragments
<1>2. CASE f.email # None
  <2>1. CaptureParams(f) = [mode |-> "user", email |-> Self(f.email), holder |-> f.holder, hold |-> f.hold,
                            popup |-> f.popup, proof |-> f.proof]
    BY <1>2 DEF CaptureParams
  <2>2. Self(f.email) \in Identities /\ Self(f.email).tag = None
    BY <1>1, <1>2, SelfType
  <2> QED BY <1>1, <2>1, <2>2 DEF Params
<1>3. CASE f.email = None
  <2>1. CaptureParams(f) = [mode |-> "agent", email |-> f.agent, holder |-> f.holder, hold |-> f.hold,
                            popup |-> f.popup, proof |-> f.proof]
    BY <1>3 DEF CaptureParams
  <2> QED BY <1>1, <1>3, <2>1 DEF Params
<1> QED BY <1>2, <1>3

\* A message that is sent has its type.
LEMMA MessageType ==
  ASSUME params \in Params, page \in Pages
  PROVE  /\ Error \in Messages
         /\ \A h \in Handles : Message("certs", Self(h)) \in Messages
         /\ Message("agent_cert", params.email) \in Messages
BY RequestTypes, SelfType DEF Error, Message, Messages, Pages

\* A page that is open has a request of the right type.
LEMMA OpenPage ==
  ASSUME IInv, page.at # "closed"
  PROVE  /\ params \in Params /\ params.email \in Identities /\ params.holder \in Holders
         /\ page \in Pages /\ TypeOK /\ PageInv
BY RequestTypes DEF IInv, TypeOK, PageInv

\* A page that was just loaded, or is closed.
LEMMA FreshPages == Closed \in Pages /\ Loaded \in Pages
BY DEF Closed, Loaded, Fresh, Pages, At

\* What device_cert and agent_device_cert add is certs.
LEMMA CertTypes ==
  ASSUME TypeOK, NEW h \in Holders, NEW e \in Identities,
         device_cert(h) \/ agent_device_cert(e, h)
  PROVE  certs' \subseteq Certs /\ certs \subseteq certs'
<1>1. CASE device_cert(h)
  <2> DEFINE new == {[identity |-> Self(AccountHandle), purpose |-> p, holder |-> h] :
                       p \in {"authentication", "authorization"}}
  <2>1. AccountHandle \in Handles /\ certs' = certs \cup new
    BY <1>1, HandleTypes DEF device_cert
  <2>2. \A c \in new : c \in Certs
    BY <2>1, SelfType DEF Certs
  <2> HIDE DEF new
  <2> QED BY <2>1, <2>2 DEF TypeOK
<1>2. CASE agent_device_cert(e, h)
  <2> DEFINE c == [identity |-> e, purpose |-> "authentication", holder |-> h]
  <2>1. c \in Certs /\ certs' = certs \cup {c}
    BY <1>2 DEF agent_device_cert, Certs
  <2> HIDE DEF c
  <2> QED BY <2>1 DEF TypeOK
<1> QED BY <1>1, <1>2

\* No request, no certs, nothing open.
LEMMA InitInv == Init => IInv /\ RequestInv
<1> SUFFICES ASSUME Init PROVE IInv /\ RequestInv
  OBVIOUS
<1>1. page \in Pages /\ page.at = "closed"
  BY FreshPages DEF Init, Closed, Fresh
<1>2. visits \in 0..MaxVisits /\ reloads \in 0..MaxReloads /\ switches \in 0..MaxSwitches
  BY DeviceAssumption DEF Init
<1> QED BY <1>1, <1>2 DEF Init, IInv, TypeOK, PageInv, RequestInv, Issuing, Calls

-----------------------------------------------------------------------------
(* How the page moves.                                                     *)

\* The page moves to a stage and keeps what else it knows.
LEMMA GotoPage ==
  ASSUME page \in Pages, NEW a \in At, Goto(a)
  PROVE  /\ page' \in Pages /\ page'.at = a
         /\ UNCHANGED <<page.holder, page.acct, page.moved>>
BY DEF Pages, Goto

\* A message is sent, and the page closes, or it is not and the page says so.
LEMMA SendPage ==
  ASSUME page \in Pages, NEW m, Send(m)
  PROVE  /\ page' \in Pages /\ page'.at \in {"closed", "failed", "stuck"}
         /\ inbox' \subseteq inbox \cup {m}
<1>1. CASE Undelivered
  BY <1>1, GotoPage DEF Undelivered, At
<1>2. CASE inbox' = inbox \cup {m} /\ page' = Closed
  BY <1>2, FreshPages DEF Closed, Fresh
<1> QED BY <1>1, <1>2 DEF Send

\* The outcome for nobody signed in.
LEMMA NotSignedInPage ==
  ASSUME page \in Pages, NotSignedIn
  PROVE  /\ page' \in Pages /\ page'.at \in {"closed", "failed", "stuck"}
         /\ inbox' \subseteq inbox \cup {Error}
<1>1. CASE params.popup
  BY <1>1, SendPage DEF NotSignedIn
<1>2. CASE ~params.popup
  BY <1>2, GotoPage DEF NotSignedIn, At
<1> QED BY <1>1, <1>2

\* The comparison leads to a call for the holder asked for, or to its end.
LEMMA ComparePage ==
  ASSUME page \in Pages, params \in Params, Compare
  PROVE  /\ page' \in Pages /\ UNCHANGED <<params, inbox>> /\ SessionHandle # None
         /\ \/ page'.at = "failed"
            \/ /\ page'.at = (IF params.mode = "user" THEN "issue" ELSE "agent")
               /\ page'.holder = params.holder /\ page'.acct = None
               /\ ~SignedInAsOther
<1>1. params.holder \in Holders
  BY RequestTypes
<1>2. CASE SignedInAsOther
  BY <1>2, GotoPage DEF Compare, At
<1>3. CASE ~SignedInAsOther
  BY <1>1, <1>3 DEF Compare, Call, Pages, At, Compared, Calls
<1> QED BY <1>2, <1>3 DEF Compare

\* What a step of the page, of the dialog or of another tab keeps to: the page
\* it leaves behind, the certs and the messages have their types, and the page
\* gets to an issuing stage, or stays in one, in user mode only.
LEMMA PageKept ==
  ASSUME IInv,
         page' \in Pages, params' \in Params, certs' \subseteq Certs, inbox' \subseteq Messages,
         session' \in Accounts \cup {None}, handle' \in [Accounts -> Handles \cup {None}],
         UNCHANGED <<minted, counters>>,
         params'.mode = "user" => params'.email.tag = None,
         page'.at \in Issuing => params'.mode = "user",
         page'.at \in Calls => page'.holder \in Holders
  PROVE  IInv'
BY DEF IInv, TypeOK, PageInv, counters

-----------------------------------------------------------------------------
(* Every step.                                                             *)

\* Types, and what an open page knows, for the steps of the page.
LEMMA PageKeeps ==
  ASSUME IInv, PageStep
  PROVE  IInv'
<1>0. /\ page.at # "closed"
      /\ params \in Params /\ params.email \in Identities /\ params.holder \in Holders
      /\ page \in Pages /\ TypeOK /\ PageInv
  <2>1. page.timer => page.at = "held" \/ ~HoldTimeout
    BY DEF HoldTimeout, HoldDone
  <2>2. page.at # "closed"
    BY <2>1 DEF PageStep, whoami, withParentProof, recheck, issuePair, HoldTimeout, HoldDone, Reissue,
                AgentIssue, require_session, IssueRefused, FetchLost, Calls
  <2> QED BY <2>2, OpenPage
<1>1. /\ Error \in Messages /\ Message("agent_cert", params.email) \in Messages
      /\ AccountHandle # None => Signed \in Messages
  BY <1>0, MessageType, HandleTypes DEF Signed
<1>2. params.mode = "user" => params.email.tag = None
  BY <1>0 DEF PageInv
<1> USE <1>0
<1>3. CASE whoami \/ recheck
  <2>0. UNCHANGED <<idp, certs, minted, counters>>
    BY <1>3 DEF whoami, recheck
  <2>1. CASE Compare
    <3>1. page'.at = "issue" => params.mode = "user"
      BY <2>1, ComparePage
    <3>2. page'.at \in {"failed", "issue", "agent"} /\ (page'.at \in Calls => page'.holder \in Holders)
      BY <2>1, ComparePage DEF Calls
    <3> QED BY <1>2, <2>0, <2>1, <3>1, <3>2, ComparePage, PageKept DEF TypeOK, idp, Issuing
  <2>2. CASE TryProof
    <3>1. params' \in Params /\ params'.mode = params.mode /\ params'.email = params.email
      BY <2>2 DEF TryProof, Params
    <3>2. page' \in Pages /\ page'.at = "proof"
      BY <2>2 DEF TryProof, Pages, At, Params
    <3> QED BY <1>2, <2>0, <2>2, <3>1, <3>2, PageKept DEF TryProof, TypeOK, idp, Issuing, Calls
  <2>3. CASE NoSession
    <3>1. /\ page' \in Pages /\ page'.at \in {"closed", "failed", "stuck"}
          /\ inbox' \subseteq inbox \cup {Error} /\ UNCHANGED params
      BY <2>3, NotSignedInPage DEF NoSession
    <3> QED BY <1>1, <1>2, <2>0, <3>1, PageKept DEF TypeOK, idp, Issuing, Calls
  <2> QED BY <1>3, <2>1, <2>2, <2>3 DEF whoami, recheck
<1>4. CASE withParentProof
  <2>1. session' \in Accounts \cup {None} /\ UNCHANGED <<handle, params, certs, minted, counters>>
    BY <1>4 DEF withParentProof, TypeOK, Pages
  <2>2. /\ page' \in Pages /\ page'.at \in {"recheck", "closed", "failed", "stuck"}
        /\ inbox' \subseteq inbox \cup {Error}
    BY <1>4, NotSignedInPage, GotoPage DEF withParentProof, At
  <2> QED BY <1>1, <1>2, <2>1, <2>2, PageKept DEF TypeOK, Issuing, Calls
<1>5. CASE issuePair \/ Reissue
  <2>1. page.holder \in Holders /\ params.mode = "user"
    BY <1>5 DEF issuePair, Reissue, PageInv, Calls, Issuing
  <2>2. certs' \subseteq Certs /\ Signed \in Messages
    BY <1>1, <1>5, <2>1, CertTypes DEF issuePair, Reissue, device_cert
  <2>3. /\ page' \in Pages /\ page'.at \in {"held", "closed", "failed", "stuck"}
        /\ inbox' \subseteq inbox \cup {Signed}
    <3>1. CASE Hold
      BY <3>1 DEF Hold, Pages, At, Compared
    <3>2. CASE Undelivered
      BY <3>2, GotoPage DEF Undelivered, At
    <3>3. CASE Send(Signed)
      BY <3>3, SendPage
    <3> QED BY <1>5, <3>1, <3>2, <3>3 DEF issuePair, Reissue
  <2>4. UNCHANGED <<idp, params, minted, counters>>
    BY <1>5 DEF issuePair, Reissue
  <2> QED BY <1>2, <2>1, <2>2, <2>3, <2>4, PageKept DEF TypeOK, idp, Issuing, Calls
<1>6. CASE HoldTimeout
  <2>1. page' \in Pages /\ page'.at = "closed"
    BY <1>6, FreshPages DEF HoldTimeout, HoldDone, Closed, Fresh
  <2> QED BY <1>2, <1>6, <2>1, PageKept DEF HoldTimeout, HoldDone, TypeOK, idp, Issuing, Calls
<1>7. CASE AgentIssue \/ IssueRefused
  <2>1. certs' \subseteq Certs
    <3>1. CASE AgentIssue
      <4>1. page.holder \in Holders
        BY <3>1 DEF AgentIssue, PageInv, Calls
      <4> QED BY <3>1, <4>1, CertTypes DEF AgentIssue
    <3>2. CASE IssueRefused
      BY <3>2 DEF IssueRefused, TypeOK
    <3> QED BY <1>7, <3>1, <3>2
  <2>2. PICK m \in Messages : Send(m)
    BY <1>1, <1>7 DEF AgentIssue, IssueRefused
  <2>3. /\ page' \in Pages /\ page'.at \in {"closed", "failed", "stuck"}
        /\ inbox' \subseteq inbox \cup {m}
    BY <2>2, SendPage
  <2>4. UNCHANGED <<idp, params, minted, counters>>
    BY <1>7 DEF AgentIssue, IssueRefused
  <2> QED BY <1>2, <2>1, <2>3, <2>4, PageKept DEF TypeOK, idp, Issuing, Calls
<1>8. CASE require_session
  <2>1. page' \in Pages /\ page'.at = page.at /\ page'.holder = page.holder
    BY <1>8 DEF require_session, TypeOK, Pages
  <2> QED BY <1>2, <1>8, <2>1, PageKept DEF require_session, PageInv, TypeOK, idp
<1>9. CASE FetchLost
  <2>1. certs' \subseteq Certs
    <3>1. page.at \in Calls => page.holder \in Holders
      BY DEF PageInv
    <3> QED BY <1>9, <3>1, CertTypes DEF FetchLost, Calls, TypeOK
  <2>2. /\ page' \in Pages /\ page'.at \in {"closed", "failed", "stuck"}
        /\ inbox' \subseteq inbox \cup {Error}
    <3>1. "failed" \in At /\ "stuck" \in At
      BY DEF At
    <3>2. CASE Send(Error)
      BY <3>2, SendPage
    <3>3. CASE UNCHANGED inbox /\ (Goto("failed") \/ Goto("stuck"))
      BY <3>1, <3>3, GotoPage
    <3> QED BY <1>9, <3>2, <3>3 DEF FetchLost
  <2>3. UNCHANGED <<idp, params, minted, counters>>
    BY <1>9 DEF FetchLost
  <2> QED BY <1>1, <1>2, <2>1, <2>2, <2>3, PageKept DEF TypeOK, idp, Issuing, Calls
<1> QED BY <1>3, <1>4, <1>5, <1>6, <1>7, <1>8, <1>9 DEF PageStep

\* Another tab only adds that the comparison no longer stands.
LEMMA UnsettledPage ==
  ASSUME page \in Pages, Unsettled
  PROVE  /\ page' \in Pages /\ UNCHANGED <<page.at, page.holder, page.acct>>
         /\ page.at \in Compared => page'.moved
BY DEF Unsettled, Pages

\* The other tabs' steps keep types and the page's stage.
LEMMA TabTypes ==
  ASSUME IInv, SwitchSession \/ ClaimHandle \/ DeleteAccount
  PROVE  /\ page' \in Pages /\ page'.at = page.at /\ page'.holder = page.holder /\ page'.acct = page.acct
         /\ session' \in Accounts \cup {None} /\ handle' \in [Accounts -> Handles \cup {None}]
         /\ switches' \in 0..MaxSwitches
         /\ UNCHANGED <<params, certs, inbox, minted, visits, reloads>>
<1>1. TypeOK /\ page \in Pages
  BY DEF IInv, TypeOK
<1>2. switches' \in 0..MaxSwitches /\ UNCHANGED <<params, certs, inbox, minted, visits, reloads>>
  BY <1>1, DeviceAssumption DEF SwitchSession, ClaimHandle, DeleteAccount, OtherTab, TypeOK
<1>3. session' \in Accounts \cup {None} /\ handle' \in [Accounts -> Handles \cup {None}]
  BY <1>1 DEF SwitchSession, ClaimHandle, DeleteAccount, TypeOK
<1>4. Unsettled \/ UNCHANGED page
  BY DEF SwitchSession, ClaimHandle, DeleteAccount
<1> QED BY <1>1, <1>2, <1>3, <1>4, UnsettledPage

\* The same for the dialog, the user, the other tabs and the minting.
LEMMA NextInv == IInv /\ [Next]_vars => IInv'
<1> SUFFICES ASSUME IInv, [Next]_vars PROVE IInv'
  OBVIOUS
<1>0. TypeOK /\ PageInv /\ page \in Pages
  BY DEF IInv, TypeOK
<1> USE <1>0
<1>1. CASE Open
  <2>1. params' \in Params /\ (params'.mode = "user" => params'.email.tag = None)
    BY <1>1, CaptureType DEF Open
  <2>2. visits' \in 0..MaxVisits
    BY <1>1, DeviceAssumption DEF Open, TypeOK
  <2>3. page' \in Pages /\ page'.at = "whoami"
    BY <1>1, FreshPages DEF Open, Loaded, Fresh
  <2> QED BY <1>1, <2>1, <2>2, <2>3 DEF Open, IInv, TypeOK, PageInv, Issuing, Calls, idp
<1>2. CASE HoldReissue
  <2>1. PICK h \in Holders : page' = [page EXCEPT !.at = "reissue", !.holder = h, !.acct = None, !.timer = FALSE]
    BY <1>2 DEF HoldReissue
  <2>2. page' \in Pages /\ page'.at = "reissue" /\ page'.holder \in Holders
    BY <2>1 DEF Pages, At, Compared, Calls
  <2>3. params.mode = "user" /\ page.at # "closed"
    BY <1>2 DEF HoldReissue, PageInv, Issuing
  <2> QED BY <1>2, <2>2, <2>3 DEF HoldReissue, IInv, TypeOK, PageInv, idp, counters
<1>3. CASE HoldDone
  <2>1. page' \in Pages /\ page'.at = "closed"
    BY <1>3, FreshPages DEF HoldDone, Closed, Fresh
  <2> QED BY <1>3, <2>1 DEF HoldDone, IInv, TypeOK, PageInv, Issuing, Calls, idp, counters
<1>4. CASE Reload
  <2>1. reloads' \in 0..MaxReloads
    BY <1>4, DeviceAssumption DEF Reload, TypeOK
  <2>2. page' \in Pages /\ page'.at = "whoami" /\ page.at # "closed"
    BY <1>4, FreshPages DEF Reload, Loaded, Fresh
  <2> QED BY <1>4, <2>1, <2>2 DEF Reload, IInv, TypeOK, PageInv, Issuing, Calls, idp
<1>5. CASE SwitchSession \/ ClaimHandle \/ DeleteAccount
  BY <1>5, TabTypes DEF IInv, TypeOK, PageInv
<1>6. CASE access_mint
  BY <1>6 DEF access_mint, IInv, TypeOK, PageInv, Certs, idp, counters
<1>7. CASE UNCHANGED vars
  BY <1>7 DEF vars, IInv, TypeOK, PageInv, idp, counters
<1> QED BY <1>1, <1>2, <1>3, <1>4, <1>5, <1>6, <1>7, PageKeeps DEF Next

\* Session, page, request, certs, messages, access certs and counters keep the
\* types of TypeOK.
THEOREM TypeCorrect == Spec => []TypeOK
<1>1. IInv => TypeOK
  BY DEF IInv
<1> QED BY InitInv, NextInv, <1>1, PTL DEF Spec

-----------------------------------------------------------------------------
(* Certs.                                                                  *)

\* The certs only grow.
LEMMA CertsStep ==
  ASSUME IInv, [Next]_vars
  PROVE  certs \subseteq certs'
<1>0. TypeOK
  BY DEF IInv
<1>1. CASE issuePair \/ Reissue \/ AgentIssue \/ FetchLost
  <2>1. /\ page.at # "closed"
        /\ page.at \in Calls => page.holder \in Holders
    BY <1>1 DEF issuePair, Reissue, AgentIssue, FetchLost, Calls, IInv, PageInv
  <2>2. params.email \in Identities
    BY <2>1, OpenPage
  <2>3. \/ UNCHANGED certs
        \/ \E h \in Holders, e \in Identities : device_cert(h) \/ agent_device_cert(e, h)
    BY <1>1, <2>1, <2>2 DEF issuePair, Reissue, AgentIssue, FetchLost, Calls
  <2> QED BY <1>0, <2>3, CertTypes
<1>2. CASE UNCHANGED certs
  BY <1>2
<1>3. CASE whoami \/ withParentProof \/ recheck \/ HoldTimeout \/ require_session \/ IssueRefused
  BY <1>2, <1>3 DEF whoami, withParentProof, recheck, HoldTimeout, HoldDone, require_session, IssueRefused
<1>4. CASE \/ Open \/ HoldDone \/ HoldReissue \/ Reload \/ SwitchSession \/ ClaimHandle \/ DeleteAccount
           \/ access_mint \/ UNCHANGED vars
  BY <1>2, <1>4 DEF Open, HoldDone, HoldReissue, Reload, SwitchSession, ClaimHandle, DeleteAccount, OtherTab,
                    access_mint, vars
<1> QED BY <1>1, <1>3, <1>4 DEF Next, PageStep

\* An access cert comes from a device cert with that identity: the +* coverage is
\* of authorization certs, which do not mint.
LEMMA MintStep ==
  ASSUME access_mint, NEW m \in minted' \ minted
  PROVE  \E c \in certs : c.purpose = "authentication" /\ c.identity = m.identity /\ c.holder = m.holder
<1>1. PICK c \in certs, i \in Identities :
        /\ c.purpose = "authentication" /\ authorizes_identity(c, i)
        /\ minted' = minted \cup {[identity |-> i, holder |-> c.holder]}
  BY DEF access_mint, MintableCert
<1>2. i = c.identity
  BY <1>1 DEF authorizes_identity
<1> QED BY <1>1, <1>2

\* Only access_mint mints.
LEMMA MintedStays ==
  ASSUME [Next]_vars, ~access_mint
  PROVE  minted' = minted
<1>1. CASE PageStep
  BY <1>1 DEF PageStep, whoami, withParentProof, recheck, issuePair, HoldTimeout, HoldDone, Reissue,
              AgentIssue, require_session, IssueRefused, FetchLost
<1>2. CASE \/ Open \/ HoldDone \/ HoldReissue \/ Reload \/ SwitchSession \/ ClaimHandle \/ DeleteAccount
           \/ UNCHANGED vars
  BY <1>2 DEF Open, HoldDone, HoldReissue, Reload, SwitchSession, ClaimHandle, DeleteAccount, OtherTab, vars
<1> QED BY <1>1, <1>2 DEF Next

\* An agent identity gets access certs only after agent_device_cert certified
\* that agent under that holder.
THEOREM AgentAccessSafe == Spec => []AgentAccessIsCertified
<1>1. Init => AgentAccessIsCertified
  BY DEF Init, AgentAccessIsCertified
<1>2. IInv /\ AgentAccessIsCertified /\ [Next]_vars => AgentAccessIsCertified'
  <2> SUFFICES ASSUME IInv, AgentAccessIsCertified, [Next]_vars,
                      NEW m \in minted', m.identity.tag # None
               PROVE  \E c \in certs' : c.purpose = "authentication" /\ c.identity = m.identity /\ c.holder = m.holder
    BY DEF AgentAccessIsCertified
  <2>1. certs \subseteq certs'
    BY CertsStep
  <2>2. CASE m \in minted
    BY <2>1, <2>2 DEF AgentAccessIsCertified
  <2>3. CASE m \notin minted
    <3>1. access_mint
      BY <2>3, MintedStays
    <3> QED BY <2>1, <2>3, <3>1, MintStep
  <2> QED BY <2>2, <2>3
<1> QED BY InitInv, NextInv, <1>1, <1>2, PTL DEF Spec

-----------------------------------------------------------------------------
(* What the dialog is handed.                                              *)

\* A pair that is signed while the comparison holds is for the identity asked.
LEMMA SignedFits ==
  /\ Fits(Error)
  /\ Fits(Message("agent_cert", params.email))
  /\ (RequestInv /\ page.at \in Issuing /\ AccountHandle # None) => Fits(Signed)
<1>1. Fits(Error) /\ Fits(Message("agent_cert", params.email))
  BY DEF Fits, Error, Message
<1>2. ASSUME RequestInv, page.at \in Issuing, AccountHandle # None, ~page.moved
      PROVE  Self(AccountHandle) = params.email
  BY <1>2 DEF RequestInv, AccountHandle, SessionHandle
<1>3. Signed.signed = Self(AccountHandle) /\ Signed.asked = params.email /\ Signed.moved = page.moved
  BY DEF Signed, Message
<1> QED BY <1>1, <1>2, <1>3 DEF Fits

\* Messages are added that fit; the page leaves the issuing stages, or stays in
\* them with the account compared.
LEMMA RequestMoves ==
  ASSUME RequestInv, UNCHANGED <<handle, session>>,
         NEW m, Fits(m), inbox' \subseteq inbox \cup {m},
         page'.at \in Issuing =>
            /\ page.at \in Issuing /\ params' = params /\ page'.moved = page.moved
            /\ page'.acct \in {None, page.acct, session}
  PROVE  RequestInv'
<1>1. ASSUME NEW x \in inbox' PROVE Fits(x)'
  <2>1. Fits(x)
    BY <1>1 DEF RequestInv
  <2> QED BY <2>1 DEF Fits
<1>2. ASSUME page'.at \in Issuing, ~page'.moved
      PROVE  params'.email = Self(SessionHandle)' /\ page'.acct \in {None, session'}
  <2>1. params.email = Self(SessionHandle) /\ page.acct \in {None, session}
    BY <1>2 DEF RequestInv
  <2> QED BY <1>2, <2>1 DEF SessionHandle, Self
<1> QED BY <1>1, <1>2 DEF RequestInv

\* The page reaches "issue" only by the comparison, and what it then sends is
\* for the identity compared.
LEMMA RequestNext == IInv /\ RequestInv /\ [Next]_vars => RequestInv'
<1> SUFFICES ASSUME IInv, RequestInv, [Next]_vars PROVE RequestInv'
  OBVIOUS
<1>0. TypeOK /\ PageInv /\ page \in Pages /\ inbox \subseteq inbox \cup {Error} /\ Fits(Error)
  BY SignedFits DEF IInv, TypeOK
<1> USE <1>0
<1>1. CASE whoami \/ recheck
  <2>0. /\ params \in Params /\ params.email \in Identities
        /\ (params.mode = "user" => params.email.tag = None) /\ UNCHANGED <<handle, session>>
    BY <1>1, OpenPage DEF whoami, recheck, PageInv, idp
  <2>1. CASE NoSession
    BY <2>0, <2>1, NotSignedInPage, RequestMoves DEF NoSession, Issuing
  <2>2. CASE TryProof
    <3>1. page'.at = "proof" /\ UNCHANGED inbox
      BY <2>2 DEF TryProof, Pages
    <3> QED BY <2>0, <3>1, RequestMoves DEF Issuing
  <2>3. CASE Compare
    <3>1. CASE page'.at \notin Issuing
      BY <2>0, <2>3, <3>1, ComparePage, RequestMoves
    <3>2. CASE page'.at \in Issuing
      <4>1. /\ params.mode = "user" /\ page'.acct = None /\ ~SignedInAsOther /\ UNCHANGED <<params, inbox>>
        BY <2>0, <2>3, <3>2, ComparePage DEF Issuing
      <4>2. params.email = Self(SessionHandle)
        BY <2>0, <4>1 DEF SignedInAsOther, Self, Identities
      <4> QED BY <2>0, <4>1, <4>2 DEF RequestInv, SessionHandle, Self, Fits
    <3> QED BY <3>1, <3>2
  <2> QED BY <1>1, <2>1, <2>2, <2>3 DEF whoami, recheck
<1>2. CASE withParentProof
  <2>1. page'.at \notin Issuing /\ inbox' \subseteq inbox \cup {Error}
    BY <1>2, NotSignedInPage, GotoPage DEF withParentProof, Issuing, At
  <2> QED BY <1>2, <2>1 DEF withParentProof, RequestInv, Fits
<1>3. CASE issuePair \/ Reissue
  <2>1. UNCHANGED <<handle, session, params>> /\ page.at \in Issuing /\ AccountHandle # None
    BY <1>3 DEF issuePair, Reissue, idp, Issuing, device_cert
  <2>2. Fits(Signed)
    BY <2>1, SignedFits
  <2>3. /\ inbox' \subseteq inbox \cup {Signed}
        /\ page'.at \in Issuing => page'.moved = page.moved /\ page'.acct = page.acct
    <3>1. CASE Hold
      BY <3>1 DEF Hold, Pages
    <3>2. CASE Undelivered
      BY <3>2, GotoPage DEF Undelivered, At
    <3>3. CASE Send(Signed)
      BY <3>3, SendPage DEF Issuing
    <3> QED BY <1>3, <3>1, <3>2, <3>3 DEF issuePair, Reissue
  <2> QED BY <2>1, <2>2, <2>3, RequestMoves
<1>4. CASE AgentIssue \/ IssueRefused
  <2>1. UNCHANGED <<handle, session>>
    BY <1>4 DEF AgentIssue, IssueRefused, idp
  <2>2. PICK m : Send(m) /\ Fits(m)
    BY <1>4, SignedFits DEF AgentIssue, IssueRefused
  <2>3. page'.at \notin Issuing /\ inbox' \subseteq inbox \cup {m}
    BY <2>2, SendPage DEF Issuing
  <2> QED BY <2>1, <2>2, <2>3, RequestMoves
<1>5. CASE FetchLost
  <2>1. UNCHANGED <<handle, session>>
    BY <1>5 DEF FetchLost, idp
  <2>2. page'.at \notin Issuing /\ inbox' \subseteq inbox \cup {Error}
    <3>1. "failed" \in At /\ "stuck" \in At
      BY DEF At
    <3>2. CASE Send(Error)
      BY <3>2, SendPage DEF Issuing
    <3>3. CASE UNCHANGED inbox /\ (Goto("failed") \/ Goto("stuck"))
      BY <3>1, <3>3, GotoPage DEF Issuing
    <3> QED BY <1>5, <3>2, <3>3 DEF FetchLost
  <2> QED BY <2>1, <2>2, RequestMoves
<1>6. CASE require_session
  <2>1. /\ UNCHANGED <<handle, session, params, inbox>>
        /\ page'.at = page.at /\ page'.moved = page.moved /\ page'.acct = session
    BY <1>6 DEF require_session, idp, Pages
  <2> QED BY <2>1, RequestMoves
<1>7. CASE Open \/ Reload \/ HoldDone \/ HoldTimeout
  <2>1. UNCHANGED <<handle, session, inbox>>
    BY <1>7 DEF Open, Reload, HoldDone, HoldTimeout, idp
  <2>2. page'.at \notin Issuing
    BY <1>7 DEF Open, Reload, HoldDone, HoldTimeout, Loaded, Closed, Fresh, Issuing
  <2> QED BY <2>1, <2>2, RequestMoves
<1>8. CASE HoldReissue
  <2>1. /\ UNCHANGED <<handle, session, params, inbox>> /\ page.at \in Issuing
        /\ page'.moved = page.moved /\ page'.acct = None
    BY <1>8 DEF HoldReissue, idp, Pages, Issuing
  <2> QED BY <2>1, RequestMoves
<1>9. CASE SwitchSession \/ ClaimHandle
  <2>1. page'.at = page.at /\ (page.at \in Compared => page'.moved) /\ UNCHANGED inbox
    BY <1>9, UnsettledPage DEF SwitchSession, ClaimHandle, OtherTab
  <2>2. Issuing \subseteq Compared
    BY DEF Issuing, Compared, Calls
  <2> QED BY <2>1, <2>2 DEF RequestInv, Fits
<1>10. CASE DeleteAccount
  <2>1. UNCHANGED <<inbox, params>>
    BY <1>10 DEF DeleteAccount, OtherTab
  <2>2. PICK a \in Accounts : /\ handle' = [handle EXCEPT ![a] = None]
                              /\ IF a = session THEN session' = None /\ Unsettled ELSE UNCHANGED <<session, page>>
    BY <1>10 DEF DeleteAccount
  <2>3. CASE a = session
    <3>1. page'.at = page.at /\ (page.at \in Compared => page'.moved)
      BY <2>2, <2>3, UnsettledPage
    <3>2. Issuing \subseteq Compared
      BY DEF Issuing, Compared, Calls
    <3> QED BY <2>1, <3>1, <3>2 DEF RequestInv, Fits
  <2>4. CASE a # session
    <3>1. SessionHandle' = SessionHandle /\ UNCHANGED <<session, page>>
      BY <2>2, <2>4 DEF SessionHandle, TypeOK
    <3>2. Self(SessionHandle)' = Self(SessionHandle)
      BY <3>1 DEF Self
    <3> QED BY <2>1, <3>1, <3>2 DEF RequestInv, Fits
  <2> QED BY <2>3, <2>4
<1>11. CASE access_mint \/ UNCHANGED vars
  <2>1. UNCHANGED <<handle, session, inbox, page, params>>
    BY <1>11 DEF access_mint, vars, idp
  <2> QED BY <2>1, RequestMoves
<1> QED BY <1>1, <1>2, <1>3, <1>4, <1>5, <1>6, <1>7, <1>8, <1>9, <1>10, <1>11 DEF Next, PageStep

\* The dialog is handed certs only for the identity it asked for, unless another
\* tab changed session or handle between the comparison and the lookups.
THEOREM RequestSafe == Spec => []CertsAsRequested
<1>1. RequestInv => CertsAsRequested
  BY DEF RequestInv, CertsAsRequested, Fits
<1> QED BY InitInv, NextInv, RequestNext, <1>1, PTL DEF Spec
=============================================================================
