---------------------------- MODULE SignerClient ----------------------------
(***************************************************************************)
(* Signing a write in the browser (mingo-web/app.js): the one signer popup *)
(* that all writes of a page share (ensureSigner, signEnvelope and the     *)
(* message listener), the refresh of the DNSSEC proofs the daemon needs    *)
(* (ensureDnssecFresh), and the submission (the second half of             *)
(* writeContent).                                                          *)
(*                                                                         *)
(* Callbacks are atomic; between them any other write's callback, a timer, *)
(* a message of the popup or the user closing it may run.  What awaits a   *)
(* promise runs in the callback that settles it.                           *)
(***************************************************************************)
EXTENDS Naturals, FiniteSets

CONSTANTS
  Writes,      \* the writes the page has in progress together
  Domains,     \* the domains with a proof under /sys/dnssec
  IssuerOf,    \* the issuer of the cert the signer answers with: [Writes -> Domains]
  Broker,      \* the broker's domain
  NoDomain

ASSUME SignerAssumption ==
  IssuerOf \in [Writes -> Domains] /\ Broker \in Domains /\ NoDomain \notin Domains

VARIABLES
  win,         \* the popup: closed, loading or loaded
  promise,     \* signerReady: none, pending, ok or rejected
  at,          \* where each write stands
  stage,       \* whose proof it checks: the cert issuer's, then the broker's
  inflight,    \* dnssecRefreshInFlight: the domain being refreshed, or NoDomain
  fresh,       \* the daemon: the domains whose proof is valid for the margin (an hour) yet
  valid,       \* the daemon: the domains whose proof is valid now
  unchecked,   \* history: the writes whose freshness check failed
  crossed,     \* history: the writes that joined the refresh of another domain
  slow         \* history: the writes that took longer than the margin after a check

SignerVars == <<win, promise, at, stage, inflight, fresh, valid, unchecked, crossed, slow>>
popup == <<win, promise>>
proofs == <<inflight, fresh, valid, unchecked, crossed, slow>>

\* "posted": the popup has the envelope; "unheard": the popup that had it was
\* closed, and pendingSign still holds the entry.
Points == {"idle", "wait", "orphan", "posted", "unheard", "check", "stale", "await",
           "submit", "done", "failed"}

SignerTypeOK ==
  /\ win \in {"closed", "loading", "loaded"}
  /\ promise \in {"none", "pending", "ok", "rejected"}
  /\ at \in [Writes -> Points]
  /\ stage \in [Writes -> {"issuer", "broker"}]
  /\ inflight \in Domains \cup {NoDomain}
  /\ fresh \subseteq valid /\ valid \subseteq Domains
  /\ unchecked \subseteq Writes /\ crossed \subseteq Writes /\ slow \subseteq Writes

SignerInit ==
  /\ win = "closed" /\ promise = "none"
  /\ at = [w \in Writes |-> "idle"]
  /\ stage = [w \in Writes |-> "issuer"]
  /\ inflight = NoDomain
  /\ valid \in SUBSET Domains /\ fresh \in SUBSET valid
  /\ unchecked = {} /\ crossed = {} /\ slow = {}

\* Every write at p moves to q.
Move(p, q) == [w \in Writes |-> IF at[w] = p THEN q ELSE at[w]]

\* The entries of pendingSign.
pendingSign == {w \in Writes : at[w] \in {"posted", "unheard"}}

-----------------------------------------------------------------------------
(* The popup.                                                              *)

\* ensureSigner with the popup open: its promise is awaited, settled or not.
SignWithOpenPopup(w) ==
  /\ at[w] = "idle" /\ win # "closed"
  /\ at' = [at EXCEPT ![w] = CASE promise = "pending" -> "wait"
                               [] promise = "ok" -> "posted"
                               [] promise = "rejected" -> "failed"]
  /\ UNCHANGED <<popup, stage, proofs>>

\* ensureSigner with no popup: a new one and a new promise.  Whoever awaits the
\* old promise is left to its timer.
OpenSigner(w) ==
  /\ at[w] = "idle" /\ win = "closed"
  /\ win' = "loading" /\ promise' = "pending"
  /\ at' = [Move("wait", "orphan") EXCEPT ![w] = "wait"]
  /\ UNCHANGED <<stage, proofs>>

\* window.open is blocked: the new promise is rejected at once.
PopupBlocked(w) ==
  /\ at[w] = "idle" /\ win = "closed"
  /\ promise' = "rejected"
  /\ at' = [Move("wait", "orphan") EXCEPT ![w] = "failed"]
  /\ UNCHANGED <<win, stage, proofs>>

\* sbo:signer-ready: the writes that wait post their envelopes.  A promise that
\* was rejected before stays so.
SignerLoaded ==
  /\ win = "loading"
  /\ win' = "loaded"
  /\ promise' = IF promise = "pending" THEN "ok" ELSE promise
  /\ at' = Move("wait", "posted")
  /\ UNCHANGED <<stage, proofs>>

\* 15 seconds after window.open.
ReadyTimeout ==
  /\ promise = "pending"
  /\ promise' = "rejected"
  /\ at' = Move("wait", "failed")
  /\ UNCHANGED <<win, stage, proofs>>

OrphanTimeout(w) ==
  /\ at[w] = "orphan"
  /\ at' = [at EXCEPT ![w] = "failed"]
  /\ UNCHANGED <<popup, stage, proofs>>

UserCloses ==
  /\ win # "closed"
  /\ win' = "closed"
  /\ at' = Move("posted", "unheard")
  /\ UNCHANGED <<promise, stage, proofs>>

\* sbo:signed or sbo:sign-error; with nothing left to sign the popup is closed.
SignerAnswers(w) ==
  /\ at[w] = "posted"
  /\ \E q \in {"check", "failed"} : at' = [at EXCEPT ![w] = q]
  /\ win' = IF pendingSign = {w} THEN "closed" ELSE win
  /\ UNCHANGED <<promise, stage, proofs>>

\* Mutant: the timer only covers a popup that is still open.
SignTimeoutOpenOnly(w) ==
  /\ at[w] = "posted"
  /\ at' = [at EXCEPT ![w] = "failed"]
  /\ UNCHANGED <<popup, stage, proofs>>

\* 120 seconds without an answer.  The popup is left as it is.
SignTimeout(w) ==
  /\ w \in pendingSign
  /\ at' = [at EXCEPT ![w] = "failed"]
  /\ UNCHANGED <<popup, stage, proofs>>

-----------------------------------------------------------------------------
(* ensureDnssecFresh, for the issuer of the cert and then for the broker.  *)

Domain(w) == IF stage[w] = "issuer" THEN IssuerOf[w] ELSE Broker

\* The writes of S are through with their domain: on to the broker's, unless
\* it is the same, or to the submission.
Proceed(S) ==
  /\ at' = [w \in Writes |-> IF w \notin S THEN at[w]
                             ELSE IF Domain(w) # Broker THEN "check" ELSE "submit"]
  /\ stage' = [w \in Writes |-> IF w \in S /\ Domain(w) # Broker THEN "broker" ELSE stage[w]]

\* getDnssec answers that nothing is needed.
CheckFresh(w) ==
  /\ at[w] = "check"
  /\ Domain(w) \in fresh
  /\ Proceed({w})
  /\ UNCHANGED <<popup, proofs>>

\* getDnssec fails, or offers no proof: the write proceeds, "the daemon is
\* authoritative at submit time".
CheckFailed(w) ==
  /\ at[w] = "check"
  /\ Proceed({w})
  /\ unchecked' = unchecked \cup {w}
  /\ UNCHANGED <<popup, inflight, fresh, valid, crossed, slow>>

\* getDnssec reads a stale proof; the answer is applied later, by JoinRefresh.
CheckStale(w) ==
  /\ at[w] = "check"
  /\ Domain(w) \notin fresh
  /\ at' = [at EXCEPT ![w] = "stale"]
  /\ UNCHANGED <<popup, stage, proofs>>

\* Mutant: the refresh is started and not awaited.
RefreshNotAwaited(w) ==
  /\ at[w] = "stale"
  /\ inflight' = IF inflight = NoDomain THEN Domain(w) ELSE inflight
  /\ Proceed({w})
  /\ UNCHANGED <<popup, fresh, valid, unchecked, crossed, slow>>

\* Join the refresh in flight, whatever its domain, or start one.
JoinRefresh(w) ==
  /\ at[w] = "stale"
  /\ inflight' = IF inflight = NoDomain THEN Domain(w) ELSE inflight
  /\ crossed' = IF inflight \in {NoDomain, Domain(w)} THEN crossed ELSE crossed \cup {w}
  /\ at' = [at EXCEPT ![w] = "await"]
  /\ UNCHANGED <<popup, stage, fresh, valid, unchecked, slow>>

\* The key-rooted write of the proof lands, or fails and fails all who joined.
RefreshSettles ==
  /\ inflight # NoDomain
  /\ inflight' = NoDomain
  /\ \/ /\ fresh' = fresh \cup {inflight} /\ valid' = valid \cup {inflight}
        /\ Proceed({w \in Writes : at[w] = "await"})
     \/ /\ at' = Move("await", "failed")
        /\ UNCHANGED <<stage, fresh, valid>>
  /\ UNCHANGED <<popup, unchecked, crossed, slow>>

\* A proof comes within the margin of its end: from now on a check finds it due.
ProofDue(d) ==
  /\ d \in fresh
  /\ fresh' = fresh \ {d}
  /\ UNCHANGED <<popup, at, stage, inflight, valid, unchecked, crossed, slow>>

\* The writes that have the check of d's proof behind them.
Passed(d) == {w \in Writes :
                (stage[w] = "broker" /\ IssuerOf[w] = d)
                  \/ (at[w] = "submit" /\ d \in {IssuerOf[w], Broker})}

\* A proof ends, the margin after it came due: whoever found it fresh and has not
\* submitted by now has taken longer than that.
ProofEnds(d) ==
  /\ d \in valid \ fresh
  /\ valid' = valid \ {d}
  /\ slow' = slow \cup Passed(d)
  /\ UNCHANGED <<popup, at, stage, inflight, fresh, unchecked, crossed>>

\* submitWire: accepted or refused.
Submit(w) ==
  /\ at[w] = "submit"
  /\ \E q \in {"done", "failed"} : at' = [at EXCEPT ![w] = q]
  /\ UNCHANGED <<popup, stage, proofs>>

\* The user starts the next write.
NextWrite(w) ==
  /\ at[w] \in {"done", "failed"}
  /\ at' = [at EXCEPT ![w] = "idle"]
  /\ stage' = [stage EXCEPT ![w] = "issuer"]
  /\ unchecked' = unchecked \ {w} /\ crossed' = crossed \ {w} /\ slow' = slow \ {w}
  /\ UNCHANGED <<popup, inflight, fresh, valid>>

ensureSigner(w) == SignWithOpenPopup(w) \/ OpenSigner(w) \/ PopupBlocked(w)
ensureDnssecFresh(w) == CheckFresh(w) \/ CheckFailed(w) \/ CheckStale(w) \/ JoinRefresh(w)

SignerNext ==
  \/ \E w \in Writes :
       \/ ensureSigner(w) \/ OrphanTimeout(w) \/ SignerAnswers(w) \/ SignTimeout(w)
       \/ ensureDnssecFresh(w) \/ Submit(w) \/ NextWrite(w)
  \/ \E d \in Domains : ProofDue(d) \/ ProofEnds(d)
  \/ SignerLoaded \/ ReadyTimeout \/ UserCloses \/ RefreshSettles

SignerSpec == SignerInit /\ [][SignerNext]_SignerVars

\* Timers fire and fetches answer or fail.  The popup need not load or answer,
\* and the user need not close it.
SignerFairSpec ==
  /\ SignerSpec
  /\ WF_SignerVars(ReadyTimeout) /\ WF_SignerVars(RefreshSettles)
  /\ \A w \in Writes :
       /\ WF_SignerVars(OrphanTimeout(w)) /\ WF_SignerVars(SignTimeout(w))
       /\ WF_SignerVars(ensureDnssecFresh(w)) /\ WF_SignerVars(Submit(w))

-----------------------------------------------------------------------------
(* Properties.                                                             *)

\* Every write that was started ends, whatever the popup, the user closing it
\* and the other writes do: each wait has a timer of its own or an answer.
EveryWriteEnds == \A w \in Writes : (at[w] # "idle") ~> (at[w] \in {"done", "failed"})

\* A write whose freshness checks went through is submitted only while the proofs
\* of its cert's issuer and of the broker are valid: the refresh it may have joined
\* "covers everyone in flight", and one proof may come due while the other is
\* refreshed.  Excepted are a write that joined the refresh of another domain (the
\* slot is shared and it does not check again) and one that was not submitted
\* within the margin, an hour, of a check.
ProofsFreshAtSubmit ==
  \A w \in Writes \ (unchecked \cup crossed \cup slow) :
    at[w] = "submit" => {IssuerOf[w], Broker} \subseteq valid
=============================================================================
