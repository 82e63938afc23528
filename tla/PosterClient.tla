---------------------------- MODULE PosterClient ----------------------------
(***************************************************************************)
(* The write gate of mingo-web/app.js: whether a write goes through the    *)
(* server-side poster or is signed in the browser, how the poster is       *)
(* switched on (openPosterEnableModal, pollPoster, pickupPoster) and off   *)
(* (disablePoster), and what a reload keeps.                               *)
(*                                                                         *)
(* One page of one signed-in user.  Every fetch is a step that sends, a    *)
(* step in which the server answers, and a step in which the page applies  *)
(* the answer; the page's other callbacks run in between.  The server is   *)
(* the poster of module Poster cut down to what the page can see of it.    *)
(***************************************************************************)
EXTENDS Naturals

CONSTANTS
  MaxWrites,   \* bound on the writes the user starts
  Modals,      \* enable modals that may be open or still have a poll running
  NoModal

ASSUME MaxWritesAssumption == MaxWrites \in Nat
ASSUME ModalsAssumption == NoModal \notin Modals

VARIABLES
  enabled,            \* the page: poster.enabled (poster.known is only displayed)
  pref, ready,        \* localStorage: mingo_poster_pref, mingo_signing_ready
  status, pickup, disabling,           \* the fetches in flight
  poller,             \* per enable modal: its Continue, and then its poll
  modal,              \* the enable modal that is open, or NoModal
  control,            \* does posterModal hold the controls of that modal?
  write,              \* the write in progress
  warrant, request,   \* the server: stored warrant, pending request
  writes,
  off, late,          \* history: the user's last word was "off"; a Continue or poll was running then
  landed              \* history: how often the present write was accepted

page == <<enabled, modal, control>>
storage == <<pref, ready>>
fetches == <<status, poller, pickup, disabling>>
server == <<warrant, request>>
history == <<off, late>>
GateVars == <<page, storage, fetches, write, server, writes, history, landed>>

Answers == {"none", "yes", "no", "pending", "approved", "dead", "lost"}
Fetches == [at : {"idle", "asked", "sent", "answered"}, ans : Answers]
Idle == [at |-> "idle", ans |-> "none"]
Asked == [at |-> "asked", ans |-> "none"]
Sent == [at |-> "sent", ans |-> "none"]
Answered(a) == [at |-> "answered", ans |-> a]

WriteAt == {"idle", "modal", "go", "poster", "poster:ok", "poster:revoked", "poster:error", "client"}

GateTypeOK ==
  /\ enabled \in BOOLEAN
  /\ modal \in Modals \cup {NoModal} /\ control \in BOOLEAN
  /\ pref \in {"unset", "on", "off"} /\ ready \in BOOLEAN
  /\ status \in Fetches /\ pickup \in Fetches /\ disabling \in Fetches
  /\ poller \in [Modals -> Fetches]
  /\ write \in WriteAt
  /\ warrant \in {"none", "live", "revoked"} /\ request \in {"none", "pending", "approved"}
  /\ writes \in 0..MaxWrites
  /\ off \in BOOLEAN /\ late \in BOOLEAN
  /\ landed \in 0..2

GateInit ==
  /\ enabled = FALSE /\ modal = NoModal /\ control = FALSE
  /\ pref = "unset" /\ ready = FALSE
  /\ status = Idle /\ poller = [m \in Modals |-> Idle] /\ pickup = Idle /\ disabling = Idle
  /\ write = "idle" /\ writes = 0 /\ landed = 0
  /\ warrant = "none" /\ request = "none"
  /\ off = FALSE /\ late = FALSE

-----------------------------------------------------------------------------
\* Mutant: the local preference is not consulted.
PosterActiveByServer == enabled

\* A live warrant at the server and no "off" on this browser.
posterActive == enabled /\ pref # "off"

(* refreshPosterStatus                                                     *)

refreshPosterStatus ==
  /\ status.at = "idle"
  /\ status' = Sent
  /\ UNCHANGED <<page, storage, poller, pickup, disabling, write, server, writes, history, landed>>

\* The server does not know yet that a stored warrant is revoked.
StatusServed ==
  /\ status.at = "sent"
  /\ status' \in {Answered(IF warrant # "none" THEN "yes" ELSE "no"), Answered("lost")}
  /\ UNCHANGED <<page, storage, poller, pickup, disabling, write, server, writes, history, landed>>

StatusApplied ==
  /\ status.at = "answered"
  /\ enabled' = (status.ans = "yes")
  /\ status' = Idle
  /\ UNCHANGED <<modal, control, storage, poller, pickup, disabling, write, server, writes, history, landed>>

-----------------------------------------------------------------------------
(* Switching the poster on.                                                *)

\* openPosterEnableModal asks the server for a request first.
OpenModal ==
  /\ modal = NoModal
  /\ \E m \in Modals : poller[m] = Idle /\ modal' = m
  /\ control' = TRUE
  /\ request' = IF request = "none" THEN "pending" ELSE request

\* "Turn on" in the settings.
TurnOn ==
  /\ ~posterActive
  /\ OpenModal
  /\ UNCHANGED <<enabled, storage, fetches, write, warrant, writes, history, landed>>

\* The user follows the link of the modal, which asks the wallet or opens a tab;
\* one poller of a modal is enough.
Continue(m) ==
  /\ modal = m
  /\ poller[m].at = "idle"
  /\ poller' = [poller EXCEPT ![m] = Asked]
  /\ off' = FALSE
  /\ UNCHANGED <<page, storage, status, pickup, disabling, write, server, writes, late, landed>>

\* The wallet answers or the tab is open, whether the modal is still there or not;
\* or it was declined.
awaitApproval(m) ==
  /\ poller[m].at = "asked"
  /\ \E f \in {Sent, Idle} : poller' = [poller EXCEPT ![m] = f]
  /\ UNCHANGED <<page, storage, status, pickup, disabling, write, server, writes, history, landed>>

\* POST /poster/poll: an approved request becomes the stored warrant.
PollAnswer == CASE request = "none" -> "dead"
                [] request = "pending" -> "pending"
                [] request = "approved" -> "approved"
PollServed(fetch) ==
  /\ fetch.at = "sent"
  /\ IF request = "approved"
     THEN warrant' = "live" /\ request' = "none"
     ELSE UNCHANGED server

PollerServed(m) ==
  /\ PollServed(poller[m])
  /\ \E a \in {PollAnswer, "lost"} : poller' = [poller EXCEPT ![m] = Answered(a)]
  /\ UNCHANGED <<page, storage, status, pickup, disabling, write, writes, history, landed>>

\* The open modal closes; the write that waited for it goes on or is given up.
CloseModal(proceed) ==
  /\ modal' = NoModal /\ control' = FALSE
  /\ write' = IF write # "modal" THEN write ELSE IF proceed THEN "go" ELSE "idle"

\* The poll of a modal closes that modal; of one already closed only the controls,
\* of whichever modal they are, are given up.
CloseOwn(m) == IF modal = m THEN CloseModal(TRUE) ELSE control' = FALSE /\ UNCHANGED <<modal, write>>

\* pollPoster: on approval the preference becomes "on"; a lost or pending
\* answer is asked again until the tries run out; anything else ends it.
pollPoster(m) ==
  /\ poller[m].at = "answered"
  /\ \/ /\ poller[m].ans = "approved"
        /\ enabled' = TRUE /\ pref' = "on"
        /\ CloseOwn(m)
        /\ poller' = [poller EXCEPT ![m] = Idle]
     \/ /\ poller[m].ans \in {"pending", "lost"}
        /\ \E f \in {Sent, Idle} : poller' = [poller EXCEPT ![m] = f]
        /\ UNCHANGED <<page, pref, write>>
     \/ /\ poller[m].ans = "dead"
        /\ poller' = [poller EXCEPT ![m] = Idle]
        /\ UNCHANGED <<page, pref, write>>
  /\ UNCHANGED <<ready, status, pickup, disabling, server, writes, history, landed>>

\* On load, and when the page comes back from the back/forward cache.
StartPickup ==
  /\ pickup.at = "idle" /\ ~enabled
  /\ pickup' = Sent
  /\ UNCHANGED <<page, storage, status, poller, disabling, write, server, writes, history, landed>>

PickupServed ==
  /\ PollServed(pickup)
  /\ pickup' \in {Answered(PollAnswer), Answered("lost")}
  /\ UNCHANGED <<page, storage, status, poller, disabling, write, writes, history, landed>>

\* pickupPoster: like the poll, but it leaves the preference alone and gives
\* up on a lost answer.
pickupPoster ==
  /\ pickup.at = "answered"
  /\ \/ /\ pickup.ans = "approved"
        /\ enabled' = TRUE
        /\ IF control THEN CloseModal(TRUE) ELSE UNCHANGED <<modal, control, write>>
        /\ pickup' = Idle
     \/ /\ pickup.ans = "pending"
        /\ pickup' \in {Sent, Idle}
        /\ UNCHANGED <<enabled, modal, control, write>>
     \/ /\ pickup.ans \in {"dead", "lost"}
        /\ pickup' = Idle
        /\ UNCHANGED <<enabled, modal, control, write>>
  /\ UNCHANGED <<storage, status, poller, disabling, server, writes, history, landed>>

-----------------------------------------------------------------------------
(* Switching it off.                                                       *)

\* The preference flips first, then the server is told.
disablePoster ==
  /\ posterActive /\ disabling.at = "idle"
  /\ pref' = "off" /\ enabled' = FALSE
  /\ disabling' = Sent
  /\ off' = TRUE /\ late' = (\E m \in Modals : poller[m].at # "idle")
  /\ UNCHANGED <<modal, control, ready, status, poller, pickup, write, server, writes, landed>>

DisableServed ==
  /\ disabling.at = "sent"
  /\ \/ warrant' = "none" /\ request' = "none"
     \/ UNCHANGED server
  /\ disabling' = Idle
  /\ UNCHANGED <<page, storage, status, poller, pickup, write, writes, history, landed>>

-----------------------------------------------------------------------------
(* A write.                                                                *)

\* ensureCanWrite: through the poster, through client signing when that is set
\* up, or after the modal, which asks the server for a request.
ensureCanWrite ==
  /\ write = "idle" /\ writes < MaxWrites
  /\ writes' = writes + 1
  /\ landed' = 0
  /\ IF posterActive \/ ready
     THEN write' = "go" /\ UNCHANGED <<modal, control, request>>
     ELSE write' = "modal" /\ OpenModal
  /\ UNCHANGED <<enabled, storage, fetches, warrant, history>>

\* The modal is cancelled: ensureSigningReady goes on when the write can be
\* signed by now, and else offers client signing, which is never ready within
\* the tap that grants it.
CancelModal ==
  /\ modal # NoModal
  /\ CloseModal(posterActive \/ ready)
  /\ ready' \in (IF posterActive \/ write # "modal" THEN {ready} ELSE {ready, TRUE})
  /\ UNCHANGED <<enabled, pref, fetches, server, writes, history, landed>>

\* writeContent: the poster when it is active now, else the browser's signer.
writeContent ==
  /\ write = "go"
  /\ write' = IF posterActive THEN "poster" ELSE "client"
  /\ UNCHANGED <<page, storage, fetches, server, writes, history, landed>>

\* POST /poster/submit.  A revoked warrant is refused and forgotten; the answer
\* to an accepted write may be lost.
SubmitServed ==
  /\ write = "poster"
  /\ \/ /\ warrant = "live"
        /\ landed' = landed + 1
        /\ write' \in {"poster:ok", "poster:error"}
        /\ UNCHANGED warrant
     \/ /\ warrant = "revoked"
        /\ warrant' = "none"
        /\ write' \in {"poster:revoked", "poster:error"}
        /\ UNCHANGED landed
     \/ /\ warrant = "none"
        /\ write' = "poster:error"
        /\ UNCHANGED <<warrant, landed>>
  /\ UNCHANGED <<page, storage, fetches, request, writes, history>>

\* Mutant: any failure of the poster falls through to client signing.
FallBackOn == {"poster:revoked", "poster:error"}

\* Only the refusal of a revoked authorization does.
FallThrough == {"poster:revoked"}

SubmitApplied ==
  /\ write \in {"poster:ok", "poster:revoked", "poster:error"}
  /\ IF write \in FallThrough
     THEN enabled' = FALSE /\ write' = "client"
     ELSE write' = "idle" /\ UNCHANGED enabled
  /\ UNCHANGED <<modal, control, storage, fetches, server, writes, history, landed>>

\* Signed by the broker's popup and submitted; a missing or revoked grant drops
\* the ready flag.
ClientSubmit ==
  /\ write = "client"
  /\ \/ landed' = landed + 1 /\ UNCHANGED ready
     \/ ready' \in {ready, FALSE} /\ UNCHANGED landed
  /\ write' = "idle"
  /\ UNCHANGED <<page, pref, fetches, server, writes, history>>

-----------------------------------------------------------------------------
(* The user elsewhere, and the page's life.                                *)

UserApproves ==
  /\ request = "pending"
  /\ request' \in {"approved", "none"}
  /\ off' = FALSE
  /\ UNCHANGED <<page, storage, fetches, write, warrant, writes, late, landed>>

UserRevokes ==
  /\ warrant = "live"
  /\ warrant' = "revoked"
  /\ UNCHANGED <<page, storage, fetches, write, request, writes, history, landed>>

\* A reload or a same-tab trip to the broker: localStorage stays, the page's
\* variables and its fetches go, and init reads the status and starts a pickup.
Reload ==
  /\ enabled' = FALSE /\ modal' = NoModal /\ control' = FALSE
  /\ status' = Sent /\ poller' = [m \in Modals |-> Idle] /\ pickup' = Idle /\ disabling' = Idle
  /\ write' = "idle"
  /\ UNCHANGED <<storage, server, writes, history, landed>>

ModalStep == \E m \in Modals : Continue(m) \/ awaitApproval(m) \/ PollerServed(m) \/ pollPoster(m)
PageStep == StatusApplied \/ pickupPoster \/ writeContent \/ SubmitApplied \/ ClientSubmit
ServerStep == StatusServed \/ PickupServed \/ DisableServed \/ SubmitServed
UserStep == TurnOn \/ disablePoster \/ ensureCanWrite \/ CancelModal \/ UserApproves \/ UserRevokes

GateNext == ModalStep \/ PageStep \/ ServerStep \/ UserStep \/ refreshPosterStatus \/ StartPickup \/ Reload

GateSpec == GateInit /\ [][GateNext]_GateVars

-----------------------------------------------------------------------------
(* Properties.                                                             *)

\* A write reaches the daemon at most once: falling through from the poster to
\* the browser's signer never repeats a write the poster may have submitted,
\* even when the poster's answer was lost.
WriteLandsOnce == landed <= 1

\* "turning the poster off in settings must mean writes never route through it
\* here": whatever stale status reads, reloads, failed disables and pickups
\* follow, the poster stays inactive.  A poll, or a Continue, that was under way is
\* excepted: pollPoster goes on after disablePoster and switches it on again.
OffSurvives == (off /\ ~late) => ~posterActive
=============================================================================
