-------------------------- MODULE WebClientProofs --------------------------
(***************************************************************************)
(* Proofs about the three parts of the web client, for any number of       *)
(* writes, domains, places, items and views.  The write gate sends a write *)
(* at most once, and "off" outlives everything but a poll that was under   *)
(* way.  The signer hands a write to the daemon with valid proofs only.    *)
(* Only the view of the hash polls, and no poll of its own place closes an *)
(* edit box over an item that is still there.                              *)
(***************************************************************************)
EXTENDS PosterClient, SignerClient, LiveView, TLAPS

(* The write gate.                                                         *)

\* What a write may still cost: nothing of it was accepted while it can be
\* submitted once more.
Unsent == {"modal", "go", "poster", "poster:revoked", "client"}

LandedInv ==
  /\ landed \in 0..1
  /\ write \in Unsent => landed = 0

\* Once the user's last word is "off" and no modal has a Continue or a poll under
\* way, none can start without a new word of the user, and only a poll sets the
\* preference.
QuietInv == (off /\ ~late) => pref = "off" /\ \A m \in Modals : poller[m].at = "idle"

\* What the server answers, and what the page fetches and applies on its own.
Served == StatusServed \/ (\E m \in Modals : PollerServed(m)) \/ PickupServed \/ DisableServed
Fetching == refreshPosterStatus \/ StatusApplied \/ StartPickup

-----------------------------------------------------------------------------

\* A poll is answered by one of the server's three answers.
LEMMA PollAnswerType == GateTypeOK => PollAnswer \in Answers
<1> SUFFICES ASSUME GateTypeOK PROVE PollAnswer \in Answers
  OBVIOUS
<1>1. CASE request = "none"
  BY <1>1 DEF PollAnswer, Answers
<1>2. CASE request = "pending"
  BY <1>2 DEF PollAnswer, Answers
<1>3. CASE request = "approved"
  BY <1>3 DEF PollAnswer, Answers
<1> QED BY <1>1, <1>2, <1>3 DEF GateTypeOK

\* The shapes of a fetch.
LEMMA FetchTypes ==
  /\ Idle \in Fetches /\ Asked \in Fetches /\ Sent \in Fetches
  /\ \A a \in Answers : Answered(a) \in Fetches
BY DEF Idle, Asked, Sent, Answered, Fetches, Answers

\* The page at the first visit.
LEMMA GateInitInv == GateInit => GateTypeOK /\ LandedInv /\ QuietInv
<1> SUFFICES ASSUME GateInit PROVE GateTypeOK /\ LandedInv /\ QuietInv
  OBVIOUS
<1>1. GateTypeOK
  <2>1. writes \in 0..MaxWrites /\ landed \in 0..2
    BY MaxWritesAssumption DEF GateInit
  <2> QED BY <2>1, FetchTypes, Zenon DEF GateInit, GateTypeOK, WriteAt
<1>2. LandedInv
  BY DEF GateInit, LandedInv, Unsent
<1>3. QuietInv
  BY DEF GateInit, QuietInv
<1> QED BY <1>1, <1>2, <1>3

\* A write is accepted at most once: the poster's acceptance leads to an answer
\* that ends the write, the browser's to "idle", and only a refusal of the
\* poster falls through to the browser.
LEMMA LandedNext == GateTypeOK /\ LandedInv /\ [GateNext]_GateVars => LandedInv'
<1> SUFFICES ASSUME GateTypeOK, LandedInv, [GateNext]_GateVars PROVE LandedInv'
  OBVIOUS
<1> USE DEF LandedInv, Unsent
<1>1. CASE UNCHANGED <<write, landed>>
  BY <1>1
<1>2. CASE Served \/ Fetching \/ TurnOn \/ disablePoster \/ UserApproves \/ UserRevokes
  BY <1>2, <1>1 DEF Served, Fetching, StatusServed, PollerServed, PickupServed, DisableServed,
     refreshPosterStatus, StatusApplied, StartPickup, TurnOn, disablePoster, UserApproves, UserRevokes
<1>9. ASSUME NEW m \in Modals, Continue(m) \/ awaitApproval(m) PROVE LandedInv'
  BY <1>9, <1>1 DEF Continue, awaitApproval
<1>10. ASSUME NEW m \in Modals, pollPoster(m) PROVE LandedInv'
  BY <1>10 DEF pollPoster, CloseOwn, CloseModal, page
<1>3. CASE pickupPoster \/ CancelModal
  BY <1>3 DEF pickupPoster, CancelModal, CloseModal
<1>4. CASE ensureCanWrite \/ writeContent \/ Reload
  BY <1>4 DEF ensureCanWrite, writeContent, Reload
<1>5. CASE SubmitServed
  BY <1>5 DEF SubmitServed
<1>6. CASE SubmitApplied
  BY <1>6 DEF SubmitApplied, FallThrough
<1>7. CASE ClientSubmit
  <2>1. write = "client" /\ write' = "idle" /\ (landed' = landed + 1 \/ landed' = landed)
    BY <1>7 DEF ClientSubmit
  <2> QED BY <2>1
<1>8. CASE UNCHANGED GateVars
  BY <1>8 DEF GateVars
<1> QED BY <1>2, <1>3, <1>4, <1>5, <1>6, <1>7, <1>8, <1>9, <1>10
        DEF GateNext, ModalStep, PageStep, ServerStep, UserStep, Served, Fetching

\* A poll starts by Continue, which is a word of the user, and the preference is
\* set by pollPoster, which needs a poll.
LEMMA QuietNext == GateTypeOK /\ QuietInv /\ [GateNext]_GateVars => QuietInv'
<1> SUFFICES ASSUME GateTypeOK, QuietInv, [GateNext]_GateVars PROVE QuietInv'
  OBVIOUS
<1> USE DEF QuietInv
<1>1. CASE StatusServed \/ PickupServed \/ DisableServed \/ Fetching
  BY <1>1 DEF Fetching, StatusServed, PickupServed, PollServed, DisableServed,
     refreshPosterStatus, StatusApplied, StartPickup, storage, fetches, page, history
<1>2. CASE TurnOn \/ disablePoster \/ UserApproves \/ UserRevokes
  BY <1>2 DEF TurnOn, disablePoster, UserApproves, UserRevokes, GateTypeOK, storage, fetches, page, history
<1>8. ASSUME NEW m \in Modals, Continue(m) PROVE QuietInv'
  BY <1>8 DEF Continue
<1>9. ASSUME NEW m \in Modals, awaitApproval(m) \/ PollerServed(m) \/ pollPoster(m) PROVE QuietInv'
  <2>1. poller[m].at # "idle" /\ UNCHANGED history
    BY <1>9 DEF awaitApproval, PollerServed, PollServed, pollPoster
  <2> QED BY <2>1 DEF history
<1>3. CASE pickupPoster \/ CancelModal
  BY <1>3 DEF pickupPoster, CancelModal, storage, fetches, page, history
<1>4. CASE Reload
  <2>1. UNCHANGED <<pref, off, late>> /\ \A m \in Modals : poller'[m] = Idle
    BY <1>4 DEF Reload, storage, history
  <2> QED BY <2>1 DEF Idle
<1>5. CASE ensureCanWrite \/ writeContent
  BY <1>5 DEF ensureCanWrite, writeContent, storage, fetches, history
<1>6. CASE SubmitServed \/ SubmitApplied \/ ClientSubmit
  BY <1>6 DEF SubmitServed, SubmitApplied, ClientSubmit, storage, fetches, page, history
<1>7. CASE UNCHANGED GateVars
  BY <1>7 DEF GateVars, storage, fetches, page, history
<1> QED BY <1>1, <1>2, <1>3, <1>4, <1>5, <1>6, <1>7, <1>8, <1>9
        DEF GateNext, ModalStep, PageStep, ServerStep, UserStep, Fetching

\* Types, given that a write is never accepted a second time.
LEMMA GateTypeNext == GateTypeOK /\ LandedInv /\ [GateNext]_GateVars => GateTypeOK'
<1> SUFFICES ASSUME GateTypeOK, LandedInv, [GateNext]_GateVars PROVE GateTypeOK'
  OBVIOUS
<1>0. \A f : PollServed(f) => warrant' \in {"none", "live", "revoked"} /\ request' \in {"none", "pending", "approved"}
  BY DEF PollServed, GateTypeOK, server
<1> USE FetchTypes DEF page, storage, fetches, server, history
<1>1. CASE StatusServed \/ Fetching
  <2>1. CASE StatusServed
    <3>1. status' \in Fetches
      BY <2>1 DEF StatusServed, Answers
    <3> QED BY <2>1, <3>1 DEF StatusServed, GateTypeOK
  <2>2. CASE refreshPosterStatus \/ StartPickup
    BY <2>2 DEF refreshPosterStatus, StartPickup, GateTypeOK
  <2>3. CASE StatusApplied
    <3>1. enabled' \in BOOLEAN
      BY <2>3 DEF StatusApplied
    <3> QED BY <2>3, <3>1 DEF StatusApplied, GateTypeOK
  <2> QED BY <1>1, <2>1, <2>2, <2>3 DEF Fetching
<1>2. CASE PickupServed
  BY <1>2, <1>0, PollAnswerType DEF PickupServed, GateTypeOK, Answers
<1>16. ASSUME NEW m \in Modals, Continue(m) \/ awaitApproval(m) \/ PollerServed(m) \/ pollPoster(m)
       PROVE  poller' \in [Modals -> Fetches]
  <2>1. CASE Continue(m) \/ awaitApproval(m)
    BY <2>1 DEF Continue, awaitApproval, GateTypeOK
  <2>2. CASE PollerServed(m)
    <3>1. \E a \in {PollAnswer, "lost"} : poller' = [poller EXCEPT ![m] = Answered(a)]
      BY <2>2 DEF PollerServed
    <3>2. \A a \in {PollAnswer, "lost"} : Answered(a) \in Fetches
      <4>1. {PollAnswer, "lost"} \subseteq Answers
        BY PollAnswerType DEF Answers
      <4> QED BY <4>1
    <3>3. poller \in [Modals -> Fetches]
      BY DEF GateTypeOK
    <3> QED BY <3>1, <3>2, <3>3
  <2>3. CASE pollPoster(m)
    BY <2>3 DEF pollPoster, GateTypeOK
  <2> QED BY <1>16, <2>1, <2>2, <2>3
<1>17. ASSUME NEW m \in Modals, Continue(m) \/ awaitApproval(m) PROVE GateTypeOK'
  <2>1. poller' \in [Modals -> Fetches]
    BY <1>16, <1>17
  <2>2. off' \in BOOLEAN /\ UNCHANGED <<page, status, pickup, disabling, storage, write, server, writes, late, landed>>
    BY <1>17 DEF Continue, awaitApproval, GateTypeOK
  <2> QED BY <2>1, <2>2 DEF GateTypeOK
<1>18. ASSUME NEW m \in Modals, PollerServed(m) PROVE GateTypeOK'
  <2>1. PollServed(poller[m]) /\ UNCHANGED <<page, status, pickup, disabling, pref, ready, write, writes, history, landed>>
    BY <1>18 DEF PollerServed
  <2>2. warrant' \in {"none", "live", "revoked"} /\ request' \in {"none", "pending", "approved"}
    BY <1>0, <2>1
  <2>3. poller' \in [Modals -> Fetches]
    BY <1>16, <1>18
  <2> QED BY <2>1, <2>2, <2>3 DEF GateTypeOK
<1>7. ASSUME NEW m \in Modals, pollPoster(m) PROVE GateTypeOK'
  <2>1. /\ enabled' \in BOOLEAN /\ pref' \in {"unset", "on", "off"}
        /\ modal' \in Modals \cup {NoModal} /\ control' \in BOOLEAN /\ write' \in WriteAt
    BY <1>7 DEF pollPoster, CloseOwn, CloseModal, GateTypeOK, WriteAt
  <2> QED BY <1>7, <1>16, <2>1 DEF pollPoster, GateTypeOK
<1>3. CASE DisableServed
  BY <1>3 DEF DisableServed, GateTypeOK
<1>4. CASE TurnOn
  BY <1>4 DEF TurnOn, OpenModal, GateTypeOK
<1>5. CASE disablePoster
  <2>1. late' \in BOOLEAN
    BY <1>5 DEF disablePoster
  <2> QED BY <1>5, <2>1 DEF disablePoster, GateTypeOK
<1>6. CASE UserApproves \/ UserRevokes
  BY <1>6 DEF UserApproves, UserRevokes, GateTypeOK
<1>8. CASE pickupPoster
  <2>1. /\ enabled' \in BOOLEAN /\ pickup' \in Fetches
        /\ modal' \in Modals \cup {NoModal} /\ control' \in BOOLEAN /\ write' \in WriteAt
    BY <1>8 DEF pickupPoster, CloseModal, GateTypeOK, WriteAt
  <2> QED BY <1>8, <2>1 DEF pickupPoster, GateTypeOK
<1>9. CASE CancelModal
  BY <1>9 DEF CancelModal, CloseModal, GateTypeOK, WriteAt
<1>10. CASE ensureCanWrite
  <2>1. writes' \in 0..MaxWrites
    BY <1>10, MaxWritesAssumption DEF ensureCanWrite, GateTypeOK
  <2>2. CASE posterActive \/ ready
    BY <1>10, <2>1, <2>2 DEF ensureCanWrite, GateTypeOK, WriteAt
  <2>3. CASE ~(posterActive \/ ready)
    BY <1>10, <2>1, <2>3 DEF ensureCanWrite, OpenModal, GateTypeOK, WriteAt
  <2> QED BY <2>2, <2>3
<1>11. CASE writeContent \/ Reload
  BY <1>11 DEF writeContent, Reload, GateTypeOK, WriteAt
<1>12. CASE SubmitServed
  BY <1>12 DEF SubmitServed, GateTypeOK, WriteAt, LandedInv, Unsent
<1>13. CASE SubmitApplied
  BY <1>13 DEF SubmitApplied, FallThrough, GateTypeOK, WriteAt
<1>14. CASE ClientSubmit
  <2>1. write = "client" /\ write' = "idle" /\ (landed' = landed + 1 \/ landed' = landed)
    BY <1>14 DEF ClientSubmit
  <2>2. landed' \in 0..2
    BY <2>1 DEF LandedInv, Unsent
  <2>3. ready' \in BOOLEAN
    BY <1>14, Zenon DEF ClientSubmit, GateTypeOK
  <2> QED BY <1>14, <2>1, <2>2, <2>3 DEF ClientSubmit, GateTypeOK, WriteAt
<1>15. CASE UNCHANGED GateVars
  BY <1>15 DEF GateVars, GateTypeOK
<1> QED BY <1>1, <1>2, <1>3, <1>4, <1>5, <1>6, <1>7, <1>8, <1>9, <1>10, <1>11, <1>12,
           <1>13, <1>14, <1>15, <1>17, <1>18
        DEF GateNext, ModalStep, PageStep, ServerStep, UserStep, Fetching

\* The page's flags and its modal, the storage, the fetches, the write under
\* way and the server's warrant and request keep their types (the callbacks of
\* openPosterEnableModal, pollPoster, pickupPoster and writeContent in app.js).
THEOREM GateTypeCorrect == GateSpec => []GateTypeOK
<1>1. GateTypeOK /\ LandedInv /\ [GateNext]_GateVars => (GateTypeOK /\ LandedInv)'
  BY LandedNext, GateTypeNext
<1> QED BY GateInitInv, <1>1, PTL DEF GateSpec

\* A write reaches the daemon at most once, through the poster or the browser's
\* signer, whatever answers are lost, for any number of writes.
THEOREM OnceSafe == GateSpec => []WriteLandsOnce
<1>1. GateTypeOK /\ LandedInv /\ [GateNext]_GateVars => (GateTypeOK /\ LandedInv)'
  BY LandedNext, GateTypeNext
<1>2. LandedInv => WriteLandsOnce
  BY DEF LandedInv, WriteLandsOnce
<1> QED BY GateInitInv, <1>1, <1>2, PTL DEF GateSpec

\* After "off", with no poll and no Continue of any modal under way, the poster
\* stays inactive on this browser until the user asks for it again.
THEOREM OffSafe == GateSpec => []OffSurvives
<1>1. QuietInv => OffSurvives
  BY DEF QuietInv, OffSurvives, posterActive
<1> QED BY GateInitInv, QuietNext, GateTypeCorrect, <1>1, PTL DEF GateSpec

-----------------------------------------------------------------------------
(* The signer.                                                             *)

\* What a write that was checked, joined no refresh but its domain's and took no
\* longer than the margin, knows.
\* In front of the submission the issuer's proof is valid once the broker's is
\* looked at, and the refresh it awaits is that of the domain it found stale.
StageInv(w) ==
  /\ stage[w] = "broker" => IssuerOf[w] \in valid
  /\ at[w] = "await" => inflight = Domain(w)
  /\ at[w] = "submit" => {IssuerOf[w], Broker} \subseteq valid

FreshInv == \A w \in Writes \ (unchecked \cup crossed \cup slow) : StageInv(w)

\* An open popup has a promise: a write that meets it has something to await.
PopupInv == win # "closed" => promise # "none"

SignerInv == SignerTypeOK /\ FreshInv /\ PopupInv

\* A write in progress turns from the issuer to the broker, and its domain is
\* always one that has a proof.
LEMMA DomainType == ASSUME SignerTypeOK, NEW w \in Writes PROVE Domain(w) \in Domains
BY SignerAssumption DEF SignerTypeOK, Domain

\* Init establishes the invariant: no write has been started.
LEMMA SignerInitInv == SignerInit => SignerInv
<1> SUFFICES ASSUME SignerInit PROVE SignerInv
  OBVIOUS
<1>1. SignerTypeOK
  BY SignerAssumption DEF SignerInit, SignerTypeOK, Points
<1>2. FreshInv
  BY DEF SignerInit, FreshInv, StageInv
<1>3. PopupInv
  BY DEF SignerInit, PopupInv
<1> QED BY <1>1, <1>2, <1>3 DEF SignerInv

\* Proceed keeps the types.
LEMMA ProceedType ==
  ASSUME SignerTypeOK, NEW S, Proceed(S)
  PROVE  at' \in [Writes -> Points] /\ stage' \in [Writes -> {"issuer", "broker"}]
BY DEF SignerTypeOK, Proceed, Points

\* A write whose domain's proof is valid proceeds with what it needs: this is
\* what ensureDnssecFresh, called for the issuer and then for the broker, adds up
\* to.
LEMMA ProceedFresh ==
  ASSUME SignerTypeOK, NEW S, Proceed(S), NEW w \in S, w \in Writes,
         stage[w] = "broker" => IssuerOf[w] \in valid,
         Domain(w) \in valid', valid \subseteq valid'
  PROVE  StageInv(w)'
<1>1. CASE Domain(w) # Broker
  <2>1. stage[w] = "issuer" /\ IssuerOf[w] \in valid'
    BY <1>1 DEF Domain, SignerTypeOK
  <2>2. at'[w] = "check" /\ stage'[w] = "broker"
    BY <1>1 DEF Proceed
  <2> QED BY <2>1, <2>2 DEF StageInv
<1>2. CASE Domain(w) = Broker
  <2>1. at'[w] = "submit" /\ stage'[w] = stage[w]
    BY <1>2 DEF Proceed
  <2>2. Broker \in valid' /\ IssuerOf[w] \in valid'
    BY <1>2 DEF Domain, SignerTypeOK
  <2> QED BY <2>1, <2>2 DEF StageInv
<1> QED BY <1>1, <1>2

\* A write that does not move keeps what it knows while no proof goes stale and
\* the slot stays as it is, or is not what the write waits for.
LEMMA StandsStill ==
  ASSUME NEW w \in Writes, StageInv(w), at'[w] = at[w], stage'[w] = stage[w],
         valid \subseteq valid', at[w] = "await" => inflight' = inflight
  PROVE  StageInv(w)'
BY DEF StageInv, Domain

\* A write that moves short of the checks needs nothing new.
LEMMA MovesOn ==
  ASSUME NEW w \in Writes, StageInv(w), at'[w] \notin {"await", "submit"},
         stage'[w] = stage[w], valid \subseteq valid'
  PROVE  StageInv(w)'
BY DEF StageInv

\* The actions of the popup touch neither stages nor proofs and send no write
\* beyond the check.
LEMMA PopupKeeps ==
  ASSUME SignerInv, UNCHANGED <<stage, proofs>>,
         win' \in {"closed", "loading", "loaded"},
         promise' \in {"none", "pending", "ok", "rejected"},
         win' # "closed" => promise' # "none",
         at' \in [Writes -> Points],
         \A w \in Writes : at'[w] = at[w] \/ at'[w] \notin {"await", "submit"}
  PROVE  SignerInv'
<1>1. SignerTypeOK'
  BY DEF SignerInv, SignerTypeOK, proofs
<1>2. FreshInv'
  <2> SUFFICES ASSUME NEW w \in Writes \ (unchecked \cup crossed \cup slow)' PROVE StageInv(w)'
    BY DEF FreshInv
  <2>1. StageInv(w) /\ valid \subseteq valid' /\ inflight' = inflight /\ stage'[w] = stage[w]
    BY DEF SignerInv, FreshInv, proofs
  <2> QED BY <2>1, StandsStill, MovesOn
<1> QED BY <1>1, <1>2 DEF SignerInv, PopupInv

\* The checks of one write: it moves, the others stand still.
LEMMA CheckKeeps ==
  ASSUME SignerInv, NEW w \in Writes, ensureDnssecFresh(w)
  PROVE  SignerInv'
<1>0. SignerTypeOK /\ FreshInv /\ PopupInv /\ Domain(w) \in Domains
  BY DomainType DEF SignerInv
<1>1. CASE CheckFresh(w)
  <2>1. SignerTypeOK'
    BY <1>0, <1>1, ProceedType DEF CheckFresh, SignerTypeOK, popup, proofs
  <2>2. ASSUME NEW v \in Writes \ (unchecked \cup crossed \cup slow)' PROVE StageInv(v)'
    <3>1. StageInv(v) /\ valid' = valid /\ inflight' = inflight
      BY <1>0, <1>1, <2>2 DEF CheckFresh, proofs, FreshInv
    <3>2. CASE v = w
      BY <1>0, <1>1, <3>1, <3>2, ProceedFresh DEF CheckFresh, StageInv, SignerTypeOK
    <3>3. CASE v # w
      BY <1>1, <3>1, <3>3, StandsStill DEF CheckFresh, Proceed
    <3> QED BY <3>2, <3>3
  <2> QED BY <1>0, <1>1, <2>1, <2>2 DEF SignerInv, FreshInv, PopupInv, CheckFresh, popup
<1>2. CASE CheckFailed(w)
  <2>1. SignerTypeOK'
    BY <1>0, <1>2, ProceedType DEF CheckFailed, SignerTypeOK, popup
  <2>2. ASSUME NEW v \in Writes \ (unchecked \cup crossed \cup slow)' PROVE StageInv(v)'
    <3>1. v # w /\ StageInv(v) /\ valid' = valid /\ inflight' = inflight
      BY <1>0, <1>2, <2>2 DEF CheckFailed, FreshInv
    <3> QED BY <1>2, <3>1, StandsStill DEF CheckFailed, Proceed
  <2> QED BY <1>0, <1>2, <2>1, <2>2 DEF SignerInv, FreshInv, PopupInv, CheckFailed, popup
<1>3. CASE CheckStale(w)
  <2>1. at' \in [Writes -> Points] /\ at' = [at EXCEPT ![w] = "stale"]
    BY <1>0, <1>3 DEF CheckStale, SignerTypeOK, Points
  <2>2. SignerTypeOK'
    BY <1>0, <1>3, <2>1 DEF CheckStale, SignerTypeOK, popup, proofs
  <2>3. ASSUME NEW v \in Writes \ (unchecked \cup crossed \cup slow)' PROVE StageInv(v)'
    <3>1. StageInv(v) /\ valid' = valid /\ inflight' = inflight /\ stage' = stage
      BY <1>0, <1>3, <2>3 DEF CheckStale, proofs, FreshInv
    <3>2. at'[v] = at[v] \/ at'[v] = "stale"
      BY <1>0, <2>1 DEF SignerTypeOK
    <3> QED BY <3>1, <3>2, StandsStill, MovesOn
  <2> QED BY <1>0, <1>3, <2>2, <2>3 DEF SignerInv, FreshInv, PopupInv, CheckStale, popup
<1>4. CASE JoinRefresh(w)
  <2>1. at' \in [Writes -> Points] /\ at' = [at EXCEPT ![w] = "await"]
    BY <1>0, <1>4 DEF JoinRefresh, SignerTypeOK, Points
  <2>2. SignerTypeOK'
    BY <1>0, <1>4, <2>1 DEF JoinRefresh, SignerTypeOK, popup
  <2>3. ASSUME NEW v \in Writes \ (unchecked \cup crossed \cup slow)' PROVE StageInv(v)'
    <3>1. StageInv(v) /\ valid' = valid /\ stage' = stage
      BY <1>0, <1>4, <2>3 DEF JoinRefresh, FreshInv
    <3>2. CASE v = w
      <4>1. inflight' = Domain(w) /\ at'[w] = "await"
        BY <1>0, <1>4, <2>1, <2>3, <3>2 DEF JoinRefresh, SignerTypeOK
      <4> QED BY <3>1, <3>2, <4>1 DEF StageInv, Domain
    <3>3. CASE v # w
      <4>1. at'[v] = at[v]
        BY <1>0, <2>1, <3>3 DEF SignerTypeOK
      <4>2. at[v] = "await" => inflight' = inflight
        BY <1>0, <1>4, <3>1, DomainType, SignerAssumption DEF StageInv, JoinRefresh
      <4> QED BY <3>1, <4>1, <4>2, StandsStill
    <3> QED BY <3>2, <3>3
  <2> QED BY <1>0, <1>4, <2>2, <2>3 DEF SignerInv, FreshInv, PopupInv, JoinRefresh, popup
<1> QED BY <1>1, <1>2, <1>3, <1>4 DEF ensureDnssecFresh

\* A refresh that lands lets all who joined it proceed, one that fails fails them.
LEMMA RefreshKeeps ==
  ASSUME SignerInv, RefreshSettles
  PROVE  SignerInv'
<1> DEFINE J == {w \in Writes : at[w] = "await"}
<1>0. SignerTypeOK /\ FreshInv /\ PopupInv
  BY DEF SignerInv
<1>1. CASE fresh' = fresh \cup {inflight} /\ valid' = valid \cup {inflight} /\ Proceed(J)
  <2>1. SignerTypeOK'
    BY <1>0, <1>1, ProceedType DEF RefreshSettles, SignerTypeOK, popup
  <2>2. ASSUME NEW v \in Writes \ (unchecked \cup crossed \cup slow)' PROVE StageInv(v)'
    <3>1. StageInv(v) /\ valid \subseteq valid'
      BY <1>0, <1>1, <2>2 DEF RefreshSettles, FreshInv
    <3>2. CASE v \in J
      <4>1. Domain(v) \in valid'
        BY <1>1, <3>1, <3>2 DEF StageInv
      <4>2. stage[v] = "broker" => IssuerOf[v] \in valid
        BY <3>1 DEF StageInv
      <4> HIDE DEF J
      <4> QED BY <1>0, <1>1, <3>1, <3>2, <4>1, <4>2, ProceedFresh
    <3>3. CASE v \notin J
      BY <1>1, <2>2, <3>1, <3>3, StandsStill DEF Proceed
    <3> QED BY <3>2, <3>3
  <2> QED BY <1>0, <2>1, <2>2 DEF SignerInv, FreshInv, PopupInv, RefreshSettles, popup
<1>2. CASE at' = Move("await", "failed") /\ UNCHANGED <<stage, fresh, valid>>
  <2>1. SignerTypeOK'
    BY <1>0, <1>2 DEF RefreshSettles, SignerTypeOK, popup, Move, Points
  <2>2. ASSUME NEW v \in Writes \ (unchecked \cup crossed \cup slow)' PROVE StageInv(v)'
    <3>1. StageInv(v)
      BY <1>0, <2>2 DEF FreshInv, RefreshSettles
    <3>2. at'[v] = "failed" \/ (at[v] # "await" /\ at'[v] = at[v])
      BY <1>2 DEF Move
    <3> QED BY <1>2, <3>1, <3>2, StandsStill, MovesOn
  <2> QED BY <1>0, <2>1, <2>2 DEF SignerInv, FreshInv, PopupInv, RefreshSettles, popup
<1> QED BY <1>1, <1>2 DEF RefreshSettles

\* Time passes over the proofs: whoever relied on a proof that ends was slow.
LEMMA ProofsAge ==
  ASSUME SignerInv, NEW d \in Domains, ProofDue(d) \/ ProofEnds(d)
  PROVE  SignerInv'
<1>0. SignerTypeOK /\ FreshInv /\ PopupInv
  BY DEF SignerInv
<1>1. UNCHANGED <<win, promise, at, stage, inflight, unchecked, crossed>>
  BY DEF ProofDue, ProofEnds, popup
<1>2. SignerTypeOK'
  BY <1>0, <1>1 DEF ProofDue, ProofEnds, Passed, SignerTypeOK
<1>3. ASSUME NEW v \in Writes \ (unchecked \cup crossed \cup slow)' PROVE StageInv(v)'
  <2>1. CASE ProofDue(d)
    BY <1>0, <1>1, <1>3, <2>1, StandsStill DEF ProofDue, FreshInv
  <2>2. CASE ProofEnds(d)
    <3>1. StageInv(v) /\ v \notin Passed(d) /\ valid' = valid \ {d}
      BY <1>0, <1>1, <1>3, <2>2 DEF ProofEnds, FreshInv
    <3> QED BY <1>1, <3>1 DEF StageInv, Passed, Domain
  <2> QED BY <2>1, <2>2
<1> QED BY <1>0, <1>1, <1>2, <1>3 DEF SignerInv, FreshInv, PopupInv

\* The next write of a slot starts from the issuer and with a clean history.
LEMMA NextWriteKeeps ==
  ASSUME SignerInv, NEW w \in Writes, NextWrite(w)
  PROVE  SignerInv'
<1>0. SignerTypeOK /\ FreshInv /\ PopupInv
  BY DEF SignerInv
<1>1. SignerTypeOK'
  BY <1>0 DEF NextWrite, SignerTypeOK, popup, Points
<1>2. ASSUME NEW v \in Writes \ (unchecked \cup crossed \cup slow)' PROVE StageInv(v)'
  <2>1. CASE v = w
    <3>1. at'[w] = "idle" /\ stage'[w] = "issuer"
      BY <1>0 DEF NextWrite, SignerTypeOK
    <3> QED BY <2>1, <3>1 DEF StageInv
  <2>2. CASE v # w
    <3>1. StageInv(v)
      BY <1>0, <1>2, <2>2 DEF NextWrite, FreshInv
    <3>2. at'[v] = at[v] /\ stage'[v] = stage[v] /\ valid' = valid /\ inflight' = inflight
      BY <1>0, <2>2 DEF NextWrite, SignerTypeOK
    <3> QED BY <3>1, <3>2, StandsStill
  <2> QED BY <2>1, <2>2
<1> QED BY <1>0, <1>1, <1>2 DEF SignerInv, FreshInv, PopupInv, NextWrite, popup

\* Every step preserves the invariant, one case per action.
LEMMA SignerNextInv == SignerInv /\ [SignerNext]_SignerVars => SignerInv'
<1> SUFFICES ASSUME SignerInv, [SignerNext]_SignerVars PROVE SignerInv'
  OBVIOUS
<1>0. SignerTypeOK /\ PopupInv
  BY DEF SignerInv
<1> USE DEF Points, PopupInv
<1>1. ASSUME NEW w \in Writes, SignWithOpenPopup(w) PROVE SignerInv'
  <2>1. \E q \in {"wait", "posted", "failed"} : at' = [at EXCEPT ![w] = q]
    BY <1>0, <1>1 DEF SignWithOpenPopup, SignerTypeOK
  <2> QED BY <1>0, <1>1, <2>1, PopupKeeps DEF SignWithOpenPopup, SignerTypeOK, popup
<1>2. ASSUME NEW w \in Writes, OpenSigner(w) PROVE SignerInv'
  BY <1>0, <1>2, PopupKeeps DEF OpenSigner, SignerTypeOK, Move
<1>3. ASSUME NEW w \in Writes, PopupBlocked(w) PROVE SignerInv'
  BY <1>0, <1>3, PopupKeeps DEF PopupBlocked, SignerTypeOK, Move
<1>4. ASSUME NEW w \in Writes, OrphanTimeout(w) PROVE SignerInv'
  BY <1>0, <1>4, PopupKeeps DEF OrphanTimeout, SignerTypeOK, popup
<1>5. ASSUME NEW w \in Writes, SignerAnswers(w) PROVE SignerInv'
  BY <1>0, <1>5, PopupKeeps DEF SignerAnswers, SignerTypeOK
<1>6. ASSUME NEW w \in Writes, SignTimeout(w) PROVE SignerInv'
  BY <1>0, <1>6, PopupKeeps DEF SignTimeout, SignerTypeOK, popup
<1>7. ASSUME NEW w \in Writes, ensureDnssecFresh(w) PROVE SignerInv'
  BY <1>7, CheckKeeps
<1>8. ASSUME NEW w \in Writes, Submit(w) PROVE SignerInv'
  BY <1>0, <1>8, PopupKeeps DEF Submit, SignerTypeOK, popup
<1>9. ASSUME NEW w \in Writes, NextWrite(w) PROVE SignerInv'
  BY <1>9, NextWriteKeeps
<1>10. CASE SignerLoaded
  BY <1>0, <1>10, PopupKeeps DEF SignerLoaded, SignerTypeOK, Move
<1>11. CASE ReadyTimeout
  BY <1>0, <1>11, PopupKeeps DEF ReadyTimeout, SignerTypeOK, Move
<1>12. CASE UserCloses
  BY <1>0, <1>12, PopupKeeps DEF UserCloses, SignerTypeOK, Move
<1>13. CASE RefreshSettles
  BY <1>13, RefreshKeeps
<1>14. ASSUME NEW d \in Domains, ProofDue(d) \/ ProofEnds(d) PROVE SignerInv'
  BY <1>14, ProofsAge
<1>15. CASE UNCHANGED SignerVars
  BY <1>0, <1>15, PopupKeeps DEF SignerVars, popup, proofs, SignerTypeOK
<1> QED
  BY <1>1, <1>2, <1>3, <1>4, <1>5, <1>6, <1>7, <1>8, <1>9, <1>10, <1>11, <1>12, <1>13, <1>14, <1>15
  DEF SignerNext, ensureSigner

\* The popup and its promise, the writes and their stages, the refresh in flight
\* and the three histories keep their types, and a proof that is not due yet is
\* valid (ensureSigner, signEnvelope and ensureDnssecFresh of app.js).
THEOREM SignerTypeCorrect == SignerSpec => []SignerTypeOK
<1>1. SignerInv => SignerTypeOK
  BY DEF SignerInv
<1> QED BY SignerInitInv, SignerNextInv, <1>1, PTL DEF SignerSpec

\* A write that was checked, joined no refresh of another domain and was submitted
\* within the margin of its checks is submitted only while the proofs of its cert's
\* issuer and of the broker are valid.
THEOREM SubmitSafe == SignerSpec => []ProofsFreshAtSubmit
<1>1. SignerInv => ProofsFreshAtSubmit
  BY DEF SignerInv, FreshInv, StageInv, ProofsFreshAtSubmit
<1> QED BY SignerInitInv, SignerNextInv, <1>1, PTL DEF SignerSpec

-----------------------------------------------------------------------------
(* Views, their pages and the poller.                                      *)

\* What views, polls and the page hold.
PageInv ==
  /\ hash \in Places /\ livePoll \in Places \cup {None}
  /\ main \in Pages /\ draft \in SUBSET Items
  /\ views \in Seq(Views) /\ (poll = None \/ poll \in Polls)
  /\ deletedUris \subseteq Items /\ head \subseteq Items /\ settling \in Nat

\* Unless a route overtook a view there is one view under way at most, that of
\* the hash, and no poller before it has drawn its list.
AloneInv ==
  ~overtaken =>
    \/ views = <<>> /\ (livePoll # None => main.head = hash /\ main.list = hash /\ livePoll = hash)
    \/ /\ livePoll = None
       /\ \E v \in Views : views = <<v>> /\ v.place = hash /\ (v.at # "open" => main.head = hash)

\* What the daemon serves for a place of the items h, less those deleted.
Serves(p, h, gone) == Lists[p] \cap (h \ gone)

\* A poll that is about to apply its rows, and whose page and items are as they
\* were when it read them, lacks nothing of what its place serves.
RowsInv ==
  (poll # None /\ poll.at = "apply" /\ ~poll.old) => Serves(poll.place, head, deletedUris) \subseteq poll.rows

-----------------------------------------------------------------------------

LEMMA RemoveOne ==
  ASSUME NEW S, NEW s \in Seq(S), NEW n \in 1 .. Len(s)
  PROVE  RemoveAt(s, n) \in Seq(S) /\ (Len(s) = 1 => RemoveAt(s, n) = <<>>)
<1> DEFINE a == SubSeq(s, 1, n - 1)
           b == SubSeq(s, n + 1, Len(s))
<1>1. Len(s) \in Nat /\ n \in Nat /\ 1 <= n /\ n <= Len(s)
  OBVIOUS
<1>2. a \in Seq(S) /\ b \in Seq(S)
  BY <1>1
<1>3. ASSUME Len(s) = 1 PROVE a = <<>> /\ b = <<>>
  BY <1>1, <1>3
<1> HIDE DEF a, b
<1>4. a \o b \in Seq(S)
  BY <1>2
<1>5. ASSUME Len(s) = 1 PROVE a \o b = <<>>
  BY <1>3, <1>5
<1>6. RemoveAt(s, n) = a \o b
  BY DEF RemoveAt, a, b
<1> QED BY <1>4, <1>5, <1>6

LEMMA LoadingType ==
  ASSUME NEW p \in Places
  PROVE  Loading(p) \in Pages /\ Card \in Pages /\ Loading(p).head = p /\ KindOf[p] \in Kinds
         /\ \A step \in {"open", "load"} : View(p, step) \in Views
BY LiveViewAssumption DEF Loading, Pages, Card, Kinds, View, Views

LEMMA AgedType ==
  ASSUME PageInv, NEW here \in BOOLEAN
  PROVE  IF poll = None THEN Aged(here) = None ELSE Aged(here) \in Polls
<1>1. CASE poll = None
  BY <1>1 DEF Aged
<1>2. CASE poll # None
  <2>1. poll \in Polls
    BY <1>2 DEF PageInv
  <2>2. [poll EXCEPT !.here = here /\ @, !.old = poll.at = "apply"] \in Polls
    BY <2>1 DEF Polls
  <2> QED BY <1>2, <2>2 DEF Aged
<1> QED BY <1>1, <1>2

LEMMA ServesType ==
  ASSUME NEW p \in Places
  PROVE  getSpaceItems(p) \in SUBSET Items /\ getSpaceItems(p) = Serves(p, head, deletedUris)
BY LiveViewAssumption DEF getSpaceItems, Present, Serves

\* The page written anew.
LEMMA ShowType ==
  ASSUME PageInv, NEW m \in Pages, Show(m)
  PROVE  main' \in Pages /\ draft' \in SUBSET Items /\ (poll' = None \/ poll' \in Polls)
<1>1. Aged(FALSE) = None \/ Aged(FALSE) \in Polls
  BY AgedType
<1> QED BY <1>1 DEF Show

LEMMA RouteType ==
  ASSUME PageInv, NEW p \in Places, route(p)
  PROVE  /\ hash' \in Places /\ livePoll' \in Places \cup {None} /\ views' \in Seq(Views)
         /\ main' \in Pages /\ draft' \in SUBSET Items /\ (poll' = None \/ poll' \in Polls)
<1>1. hash' = p /\ livePoll' = None
  BY DEF route
<1>2. \E step \in {"open", "load"} : views' = Append(views, View(p, step))
  BY DEF route
<1>3. views' \in Seq(Views)
  <2>1. \A step \in {"open", "load"} : View(p, step) \in Views
    BY LoadingType
  <2> QED BY <1>2, <2>1 DEF PageInv
<1>4. UNCHANGED <<PageVars, poll>> \/ Show(Loading(p))
  BY DEF route
<1>5. main' \in Pages /\ draft' \in SUBSET Items /\ (poll' = None \/ poll' \in Polls)
  <2>1. CASE UNCHANGED <<PageVars, poll>>
    BY <2>1 DEF PageInv, PageVars
  <2>2. CASE Show(Loading(p))
    <3>1. Loading(p) \in Pages
      BY LoadingType
    <3> QED BY <2>2, <3>1, ShowType
  <2> QED BY <1>4, <2>1, <2>2
<1> QED BY <1>1, <1>3, <1>5

LEMMA FilledType ==
  ASSUME PageInv, NEW v \in Views
  PROVE  Filled(v) \in Pages
<1>1. v.place \in Places /\ v.rows \in SUBSET Items /\ main \in Pages
  BY DEF PageInv, Views
<1>2. [head |-> v.place, box |-> "thread", list |-> v.place, rows |-> v.rows] \in Pages
  BY <1>1 DEF Pages, Kinds
<1>3. [main EXCEPT !.list = v.place, !.rows = v.rows] \in Pages
  BY <1>1 DEF Pages
<1>4. Card \in Pages
  BY <1>1, LoadingType
<1> QED BY <1>2, <1>3, <1>4 DEF Filled

LEMMA PageInit == ASSUME ViewInit PROVE PageInv
<1>1. hash \in Places
  BY DEF ViewInit
<1>2. Loading(hash) \in Pages /\ Card \in Pages /\ \A step \in {"open", "load"} : View(hash, step) \in Views
  BY <1>1, LoadingType
<1>3. main \in Pages
  BY <1>2 DEF ViewInit
<1>4. views \in Seq(Views)
  BY <1>2 DEF ViewInit
<1>5. head \subseteq Items
  BY LiveViewAssumption DEF ViewInit
<1> QED BY <1>1, <1>3, <1>4, <1>5 DEF ViewInit, PageInv

LEMMA ViewPage ==
  ASSUME PageInv, NEW n \in DOMAIN views,
         ViewOpens(n) \/ ViewLoads(n) \/ ViewFills(n) \/ ViewGone(n) \/ ViewFails(n)
  PROVE  PageInv'
<1>0. /\ views \in Seq(Views) /\ n \in 1 .. Len(views) /\ views[n] \in Views
      /\ hash \in Places /\ livePoll \in Places \cup {None} /\ deletedUris \subseteq Items
      /\ head \subseteq Items /\ settling \in Nat
  BY DEF PageInv
<1>1. PICK v \in Views : v = views[n]
  BY <1>0
<1>2. v.place \in Places /\ v.rows \in SUBSET Items
  BY DEF Views
<1>3. RemoveAt(views, n) \in Seq(Views)
  BY <1>0, RemoveOne
<1>4. CASE ViewOpens(n)
  <2>1. Show(Loading(v.place)) /\ views' = [views EXCEPT ![n].at = "load"]
        /\ UNCHANGED <<hash, livePoll, deletedUris, settling, head>>
    BY <1>1, <1>4 DEF ViewOpens
  <2>2. [v EXCEPT !.at = "load"] \in Views
    BY DEF Views
  <2>3. views' \in Seq(Views)
    BY <1>0, <1>1, <2>1, <2>2
  <2>4. main' \in Pages /\ draft' \in SUBSET Items /\ (poll' = None \/ poll' \in Polls)
    BY <1>2, <2>1, LoadingType, ShowType
  <2> QED BY <1>0, <2>1, <2>3, <2>4 DEF PageInv
<1>5. CASE ViewLoads(n)
  <2>1. \E step \in {"fill", "gone"} : views' = [views EXCEPT ![n].rows = getSpaceItems(v.place), ![n].at = step]
    BY <1>1, <1>5 DEF ViewLoads
  <2>2. PICK step \in {"fill", "gone"} : views' = [views EXCEPT ![n].rows = getSpaceItems(v.place), ![n].at = step]
    BY <2>1
  <2>3. getSpaceItems(v.place) \in SUBSET Items
    BY <1>2, ServesType
  <2>4. [v EXCEPT !.rows = getSpaceItems(v.place), !.at = step] \in Views
    BY <2>3 DEF Views
  <2>5. views' \in Seq(Views)
    <3>1. views' = [views EXCEPT ![n] = [v EXCEPT !.rows = getSpaceItems(v.place), !.at = step]]
      BY <1>0, <1>1, <2>2
    <3> QED BY <1>0, <2>4, <3>1
  <2>6. UNCHANGED <<hash, PageVars, livePoll, poll, deletedUris, settling, head>>
    BY <1>5 DEF ViewLoads
  <2> QED BY <2>5, <2>6 DEF PageInv, PageVars
<1>6. CASE ViewFills(n)
  <2>1. Show(Filled(v)) /\ views' = RemoveAt(views, n) /\ livePoll' \in {v.place, livePoll}
        /\ UNCHANGED <<hash, deletedUris, settling, head>>
    BY <1>1, <1>6 DEF ViewFills
  <2>2. main' \in Pages /\ draft' \in SUBSET Items /\ (poll' = None \/ poll' \in Polls)
    BY <2>1, FilledType, ShowType
  <2>3. livePoll' \in Places \cup {None}
    BY <1>0, <1>2, <2>1
  <2> QED BY <1>0, <1>3, <2>1, <2>2, <2>3 DEF PageInv
<1>7. CASE ViewGone(n) \/ ViewFails(n)
  <2>1. Show(Card) /\ views' = RemoveAt(views, n) /\ UNCHANGED <<hash, livePoll, deletedUris, settling, head>>
    BY <1>7 DEF ViewGone, ViewFails, ViewEndsInCard
  <2>2. main' \in Pages /\ draft' \in SUBSET Items /\ (poll' = None \/ poll' \in Polls)
    BY <1>2, <2>1, LoadingType, ShowType
  <2> QED BY <1>0, <1>3, <2>1, <2>2 DEF PageInv
<1> QED BY <1>4, <1>5, <1>6, <1>7

LEMMA PollPage ==
  ASSUME PageInv, Tick \/ PollStep \/ PollFails
  PROVE  PageInv'
<1>0. UNCHANGED <<hash, views, livePoll, deletedUris, settling, head>>
  BY DEF Tick, PollStep, PollVotes, PollReads, PollApplies, PollFails
<1>1. main' \in Pages /\ draft' \in SUBSET Items
  <2>1. CASE UNCHANGED PageVars
    BY <2>1 DEF PageInv, PageVars
  <2>2. CASE poll # None /\ liveAppend(poll.rows)
    <3>1. poll.rows \in SUBSET Items /\ main \in Pages /\ draft \in SUBSET Items
      BY <2>2 DEF PageInv, Polls
    <3>2. [main EXCEPT !.rows = poll.rows] \in Pages
      BY <3>1 DEF Pages
    <3> QED BY <2>2, <3>1, <3>2 DEF liveAppend
  <2> QED BY <2>1, <2>2 DEF Tick, PollStep, PollVotes, PollReads, PollApplies, PollFails
<1>2. poll' = None \/ poll' \in Polls
  <2>1. CASE Tick
    <3>1. livePoll \in Places
      BY <2>1 DEF Tick, PageInv
    <3> QED BY <2>1, <3>1 DEF Tick, Polls
  <2>2. CASE PollVotes
    <3>1. poll \in Polls
      BY <2>2 DEF PollVotes, PageInv
    <3> QED BY <2>2, <3>1 DEF PollVotes, Polls
  <2>3. CASE PollReads
    <3>1. poll \in Polls
      BY <2>3 DEF PollReads, PageInv
    <3>2. getSpaceItems(poll.place) \in SUBSET Items
      BY <3>1, ServesType DEF Polls
    <3> QED BY <2>3, <3>1, <3>2 DEF PollReads, Polls
  <2>4. CASE PollApplies \/ PollFails
    BY <2>4 DEF PollApplies, PollFails
  <2> QED BY <2>1, <2>2, <2>3, <2>4 DEF PollStep
<1> QED BY <1>0, <1>1, <1>2 DEF PageInv

LEMMA WritePage ==
  ASSUME PageInv, NEW u \in Items, beginEdit(u) \/ SaveEdit(u) \/ Compose(u) \/ Others(u)
  PROVE  PageInv'
<1>0. /\ main \in Pages /\ draft \in SUBSET Items /\ deletedUris \subseteq Items
      /\ head \subseteq Items /\ settling \in Nat
  BY DEF PageInv
<1>1. CASE beginEdit(u)
  BY <1>0, <1>1 DEF beginEdit, PageInv
<1>2. CASE SaveEdit(u)
  <2>1. deletedUris' \subseteq Items /\ settling' \in Nat
    BY <1>0, <1>2 DEF SaveEdit, Wrote
  <2> QED BY <1>0, <1>2, <2>1 DEF SaveEdit, PageInv, PageVars
<1>3. CASE Compose(u)
  <2>1. head' \subseteq Items /\ settling' \in Nat
    BY <1>0, <1>3 DEF Compose, Wrote
  <2>2. poll' = None \/ poll' \in Polls
    BY <1>3, AgedType DEF Compose
  <2> QED BY <1>0, <1>3, <2>1, <2>2 DEF Compose, PageInv, PageVars
<1>4. CASE Others(u)
  <2>1. head' \subseteq Items
    BY <1>0, <1>4 DEF Others
  <2>2. poll' = None \/ poll' \in Polls
    BY <1>4, AgedType DEF Others
  <2> QED BY <1>0, <1>4, <2>1, <2>2 DEF Others, PageInv, PageVars
<1> QED BY <1>1, <1>2, <1>3, <1>4

LEMMA PageKeeps == ASSUME PageInv, [ViewNext]_ViewVars PROVE PageInv'
<1>1. ASSUME NEW p \in Places, Navigate(p) PROVE PageInv'
  <2>1. route(p) /\ UNCHANGED <<deletedUris, settling, head>>
    BY <1>1 DEF Navigate
  <2> QED BY <2>1, RouteType DEF PageInv
<1>2. CASE Settle
  <2>1. route(hash) /\ UNCHANGED <<deletedUris, head>> /\ settling > 0 /\ settling' = settling - 1
    BY <1>2 DEF Settle
  <2>2. hash \in Places /\ settling' \in Nat
    BY <2>1 DEF PageInv
  <2> QED BY <2>1, <2>2, RouteType DEF PageInv
<1>3. CASE ViewStep \/ \E n \in DOMAIN views : ViewFails(n)
  BY <1>3, ViewPage DEF ViewStep
<1>4. CASE Tick \/ PollStep \/ PollFails
  BY <1>4, PollPage
<1>5. CASE \E u \in Items : beginEdit(u) \/ SaveEdit(u) \/ Compose(u) \/ Others(u)
  BY <1>5, WritePage
<1>6. CASE UNCHANGED ViewVars
  BY <1>6 DEF ViewVars, PageVars, counters, PageInv
<1> QED BY <1>1, <1>2, <1>3, <1>4, <1>5, <1>6 DEF ViewNext

-----------------------------------------------------------------------------
(* One view at a time.                                                     *)

LEMMA AloneInit == ASSUME ViewInit PROVE AloneInv
<1>1. hash \in Places /\ livePoll = None
  BY DEF ViewInit
<1>2. PICK step \in {"open", "load"} : views = <<View(hash, step)>> /\ (step # "open" => main = Loading(hash))
  BY DEF ViewInit
<1>3. View(hash, step) \in Views /\ Loading(hash).head = hash
  BY <1>1, LoadingType
<1>4. View(hash, step).place = hash /\ View(hash, step).at = step
  BY DEF View
<1> QED BY <1>1, <1>2, <1>3, <1>4 DEF AloneInv

LEMMA AloneRoute ==
  ASSUME PageInv, NEW p \in Places, route(p)
  PROVE  AloneInv'
<1>1. SUFFICES ASSUME views = <<>>
               PROVE  /\ hash' = p /\ livePoll' = None
                      /\ \E v \in Views : views' = <<v>> /\ v.place = p /\ (v.at # "open" => main'.head = p)
  BY DEF route, AloneInv
<1>2. PICK step \in {"open", "load"} : views' = Append(views, View(p, step)) /\ (step # "open" => main' = Loading(p))
  BY DEF route, Show
<1>3. View(p, step) \in Views /\ Loading(p).head = p
  BY LoadingType
<1>4. View(p, step).place = p /\ View(p, step).at = step
  BY DEF View
<1>5. views' = <<View(p, step)>>
  BY <1>1, <1>2
<1> QED BY <1>2, <1>3, <1>4, <1>5 DEF route

\* The one view is at work.
LEMMA AloneView ==
  ASSUME PageInv, AloneInv, NEW n \in DOMAIN views,
         ViewOpens(n) \/ ViewLoads(n) \/ ViewFills(n) \/ ViewGone(n) \/ ViewFails(n)
  PROVE  AloneInv'
<1>0. hash' = hash /\ overtaken' = overtaken
  BY DEF ViewOpens, ViewLoads, ViewFills, ViewGone, ViewFails, ViewEndsInCard
<1> SUFFICES ASSUME ~overtaken PROVE AloneInv'
  BY <1>0 DEF AloneInv
<1>1. views # <<>> /\ n \in 1 .. Len(views) /\ views \in Seq(Views)
  BY DEF PageInv
<1>2. PICK v \in Views : views = <<v>> /\ v.place = hash /\ (v.at # "open" => main.head = hash)
  BY <1>1 DEF AloneInv
<1>3. livePoll = None /\ n = 1 /\ views[n] = v /\ v.place \in Places
  BY <1>1, <1>2 DEF AloneInv, Views
<1>4. RemoveAt(views, n) = <<>>
  BY <1>1, <1>2, RemoveOne
<1>5. CASE ViewOpens(n)
  <2>1. views' = [views EXCEPT ![n].at = "load"] /\ main' = Loading(v.place) /\ livePoll' = None
    BY <1>3, <1>5 DEF ViewOpens, Show
  <2>2. views' = <<[v EXCEPT !.at = "load"]>>
    BY <1>2, <1>3, <2>1
  <2>3. [v EXCEPT !.at = "load"] \in Views /\ [v EXCEPT !.at = "load"].place = v.place
    BY DEF Views
  <2>4. main'.head = hash
    BY <1>2, <1>3, <2>1, LoadingType
  <2> QED BY <1>0, <1>2, <2>1, <2>2, <2>3, <2>4 DEF AloneInv
<1>6. CASE ViewLoads(n)
  <2>1. PICK step \in {"fill", "gone"} : views' = [views EXCEPT ![n].rows = getSpaceItems(v.place), ![n].at = step]
    BY <1>3, <1>6 DEF ViewLoads
  <2>2. v.at = "load" /\ main' = main /\ livePoll' = None
    BY <1>3, <1>6 DEF ViewLoads, PageVars
  <2> DEFINE w == [v EXCEPT !.rows = getSpaceItems(v.place), !.at = step]
  <2>3. w \in Views /\ w.place = v.place
    <3>1. getSpaceItems(v.place) \in SUBSET Items
      BY <1>3, ServesType
    <3> QED BY <3>1 DEF Views
  <2>4. views' = <<w>>
    BY <1>2, <1>3, <2>1
  <2> HIDE DEF w
  <2> QED BY <1>0, <1>2, <2>2, <2>3, <2>4 DEF AloneInv
<1>7. CASE ViewFills(n)
  <2>1. /\ v.at = "fill" /\ main' = Filled(v) /\ views' = <<>>
        /\ livePoll' = IF Filled(v) # Card /\ KindOf[v.place] \in Polled THEN v.place ELSE livePoll
    BY <1>3, <1>4, <1>7 DEF ViewFills, Show
  <2>2. ASSUME livePoll' # None PROVE livePoll' = hash /\ main'.head = hash /\ main'.list = hash
    <3>1. Filled(v) # Card /\ livePoll' = v.place
      BY <1>3, <2>1, <2>2
    <3>2. main \in Pages /\ main.head = hash
      BY <1>2, <2>1 DEF PageInv
    <3>3. Filled(v).head = hash /\ Filled(v).list = hash
      <4>1. CASE KindOf[v.place] = "thread"
        BY <1>2, <4>1 DEF Filled
      <4>2. CASE KindOf[v.place] # "thread"
        <5>1. Filled(v) = [main EXCEPT !.list = v.place, !.rows = v.rows]
          BY <3>1, <4>2 DEF Filled
        <5> QED BY <1>2, <3>2, <5>1 DEF Pages
      <4> QED BY <4>1, <4>2
    <3> QED BY <1>2, <2>1, <3>1, <3>3
  <2> QED BY <1>0, <2>1, <2>2 DEF AloneInv
<1>8. CASE ViewGone(n) \/ ViewFails(n)
  <2>1. views' = <<>> /\ livePoll' = None
    BY <1>3, <1>4, <1>8 DEF ViewGone, ViewFails, ViewEndsInCard
  <2> QED BY <1>0, <2>1 DEF AloneInv
<1> QED BY <1>5, <1>6, <1>7, <1>8

LEMMA AloneStep == ASSUME PageInv, AloneInv, [ViewNext]_ViewVars PROVE AloneInv'
<1>1. ASSUME NEW p \in Places, Navigate(p) PROVE AloneInv'
  BY <1>1, AloneRoute DEF Navigate
<1>2. CASE Settle
  <2>1. hash \in Places
    BY DEF PageInv
  <2> QED BY <1>2, <2>1, AloneRoute DEF Settle
<1>3. CASE ViewStep \/ \E n \in DOMAIN views : ViewFails(n)
  BY <1>3, AloneView DEF ViewStep
<1>4. CASE Tick \/ PollStep \/ PollFails \/ (\E u \in Items : beginEdit(u) \/ SaveEdit(u) \/ Compose(u) \/ Others(u))
           \/ UNCHANGED ViewVars
  <2>1. UNCHANGED <<hash, views, livePoll, overtaken>>
    BY <1>4 DEF Tick, PollStep, PollVotes, PollReads, PollApplies, PollFails, beginEdit, SaveEdit, Compose, Others, ViewVars
  <2>2. main'.head = main.head /\ main'.list = main.list
    <3>1. CASE UNCHANGED main
      BY <3>1
    <3>2. CASE main' = [main EXCEPT !.rows = poll.rows]
      BY <3>2 DEF PageInv, Pages
    <3> QED BY <1>4, <3>1, <3>2 DEF Tick, PollStep, PollVotes, PollReads, PollApplies, liveAppend, PollFails,
                                    beginEdit, SaveEdit, Compose, Others, ViewVars, PageVars
  <2> QED BY <2>1, <2>2 DEF AloneInv
<1> QED BY <1>1, <1>2, <1>3, <1>4 DEF ViewNext

-----------------------------------------------------------------------------
(* The rows of a poll.                                                     *)

\* The poll under way when the page or the items change.
LEMMA AgedRows ==
  ASSUME PageInv, NEW here \in BOOLEAN, poll' = Aged(here)
  PROVE  RowsInv'
<1> SUFFICES ASSUME poll' # None, poll'.at = "apply" PROVE poll'.old
  BY DEF RowsInv
<1>1. poll # None /\ poll' = [poll EXCEPT !.here = here /\ @, !.old = poll.at = "apply"]
  BY DEF Aged
<1>2. poll \in Polls
  BY <1>1 DEF PageInv
<1>3. poll'.at = poll.at
  BY <1>1, <1>2 DEF Polls
<1>4. poll.at = "apply"
  BY <1>3
<1> QED BY <1>1, <1>2, <1>4 DEF Polls

LEMMA RowsStep == ASSUME PageInv, RowsInv, [ViewNext]_ViewVars PROVE RowsInv'
<1>1. CASE \E here \in BOOLEAN : poll' = Aged(here)
  BY <1>1, AgedRows
<1>2. CASE UNCHANGED <<poll, head>> /\ deletedUris \subseteq deletedUris'
  BY <1>2 DEF RowsInv, Serves
<1>3. CASE Tick
  BY <1>3 DEF Tick, RowsInv
<1>4. CASE PollVotes
  <2>1. poll # None /\ poll \in Polls
    BY <1>4 DEF PollVotes, PageInv
  <2> QED BY <1>4, <2>1 DEF PollVotes, RowsInv, Polls
<1>5. CASE PollReads
  <2>1. poll # None /\ poll \in Polls
    BY <1>5 DEF PollReads, PageInv
  <2>2. poll.place \in Places /\ getSpaceItems(poll.place) = Serves(poll.place, head, deletedUris)
    BY <2>1, ServesType DEF Polls
  <2>3. poll' = [poll EXCEPT !.at = "apply", !.rows = getSpaceItems(poll.place)] /\ UNCHANGED <<head, deletedUris>>
    BY <1>5 DEF PollReads
  <2>4. poll'.place = poll.place /\ poll'.rows = getSpaceItems(poll.place)
    BY <2>1, <2>3 DEF Polls
  <2> QED BY <2>2, <2>3, <2>4 DEF RowsInv
<1>6. CASE PollApplies \/ PollFails
  BY <1>6 DEF PollApplies, PollFails, RowsInv
<1>7. ASSUME NEW p \in Places, route(p), UNCHANGED <<head, deletedUris>> PROVE RowsInv'
  BY <1>1, <1>2, <1>7 DEF route, Show
<1>8. ASSUME NEW n \in DOMAIN views, ViewOpens(n) \/ ViewLoads(n) \/ ViewFills(n) \/ ViewGone(n) \/ ViewFails(n)
      PROVE  RowsInv'
  BY <1>1, <1>2, <1>8 DEF ViewOpens, ViewLoads, ViewFills, ViewGone, ViewFails, ViewEndsInCard, Show
<1>9. CASE (\E u \in Items : beginEdit(u) \/ SaveEdit(u) \/ Compose(u) \/ Others(u)) \/ UNCHANGED ViewVars
  BY <1>1, <1>2, <1>9 DEF beginEdit, SaveEdit, Compose, Others, ViewVars
<1>10. hash \in Places
  BY DEF PageInv
<1>11. CASE Settle \/ \E p \in Places : Navigate(p)
  BY <1>7, <1>10, <1>11 DEF Settle, Navigate
<1> QED BY <1>3, <1>4, <1>5, <1>6, <1>8, <1>9, <1>11 DEF ViewNext, ViewStep, PollStep

\* What closes a box at the end of a poll.
LEMMA BoxClosed ==
  ASSUME PageInv, RowsInv, [ViewNext]_ViewVars, NEW u \in Items,
         poll # None, poll' = None, u \in draft, u \notin draft'
  PROVE  poll.place # main.list \/ poll.old \/ u \notin getSpaceItems(main.list)
<1>0. poll \in Polls
  BY LiveViewAssumption DEF PageInv
<1>1. PollApplies
  <2>1. ASSUME NEW here \in BOOLEAN PROVE poll' # Aged(here)
    BY <1>0, AgedType, LiveViewAssumption
  <2>2. \A m : ~Show(m)
    BY <2>1 DEF Show
  <2>3. ~UNCHANGED PageVars /\ ~UNCHANGED poll /\ ~UNCHANGED draft
    BY <1>0 DEF PageVars
  <2>4. \A p : ~route(p)
    BY <2>2, <2>3 DEF route
  <2>5. \A n : ~ViewOpens(n) /\ ~ViewLoads(n) /\ ~ViewFills(n) /\ ~ViewGone(n) /\ ~ViewFails(n)
    BY <2>2, <2>3 DEF ViewOpens, ViewLoads, ViewFills, ViewGone, ViewFails, ViewEndsInCard
  <2>6. ~(Tick \/ PollVotes \/ PollReads \/ PollFails)
    BY <2>3 DEF Tick, PollVotes, PollReads, PollFails
  <2>7. \A w : ~beginEdit(w) /\ ~SaveEdit(w) /\ ~Compose(w) /\ ~Others(w)
    BY <2>3 DEF beginEdit, SaveEdit, Compose, Others
  <2>8. ~UNCHANGED ViewVars
    BY <2>3 DEF ViewVars
  <2> QED BY <2>4, <2>5, <2>6, <2>7, <2>8 DEF ViewNext, Navigate, Settle, ViewStep, PollStep
<1>2. poll.at = "apply" /\ liveAppend(poll.rows)
  BY <1>0, <1>1 DEF PollApplies, PageVars
<1>3. u \notin poll.rows
  BY <1>0, <1>2 DEF liveAppend
<1>4. SUFFICES ASSUME poll.place = main.list, ~poll.old PROVE u \notin getSpaceItems(main.list)
  OBVIOUS
<1>5. getSpaceItems(poll.place) \subseteq poll.rows
  BY <1>0, <1>2, <1>4, ServesType DEF RowsInv, Polls
<1> QED BY <1>3, <1>4, <1>5

-----------------------------------------------------------------------------

\* Page, views and poller keep their types (the callbacks of route, the views and
\* the poller in app.js).
THEOREM ViewTypeCorrect == ViewSpec => []ViewTypeOK
<1>1. ViewInit => PageInv
  BY PageInit
<1>2. PageInv /\ [ViewNext]_ViewVars => PageInv'
  BY PageKeeps
<1>3. PageInv => ViewTypeOK
  BY DEF PageInv, ViewTypeOK, Pages
<1> QED BY <1>1, <1>2, <1>3, PTL DEF ViewSpec

\* Unless a route overtook a view, a poller belongs to the place of the hash and
\* its page (route, startLivePoll).
THEOREM PollerSafe == ViewSpec => []OnlyActiveViewPolls
<1>1. ViewInit => PageInv /\ AloneInv
  BY PageInit, AloneInit
<1>2. PageInv /\ AloneInv /\ [ViewNext]_ViewVars => (PageInv /\ AloneInv)'
  BY PageKeeps, AloneStep
<1>3. AloneInv => OnlyActiveViewPolls
  BY DEF AloneInv, OnlyActiveViewPolls
<1> QED BY <1>1, <1>2, <1>3, PTL DEF ViewSpec

\* A poll closes an edit box only over an item that its place no longer serves, or
\* if it was begun for another place or is older than the page (liveAppend).
THEOREM DraftSafe == ViewSpec => DraftSurvivesPoll
<1>1. ViewInit => PageInv /\ RowsInv
  BY PageInit DEF ViewInit, RowsInv
<1>2. PageInv /\ RowsInv /\ [ViewNext]_ViewVars => (PageInv /\ RowsInv)'
  BY PageKeeps, RowsStep
<1>3. PageInv /\ RowsInv /\ [ViewNext]_ViewVars =>
  [\A u \in Items :
       (poll # None /\ poll' = None /\ u \in draft \ draft')
         => poll.place # main.list \/ poll.old \/ u \notin getSpaceItems(main.list)]_ViewVars
  BY BoxClosed
<1> QED BY <1>1, <1>2, <1>3, PTL DEF ViewSpec, DraftSurvivesPoll
=============================================================================
