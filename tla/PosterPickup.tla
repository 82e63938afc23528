---------------------------- MODULE PosterPickup ----------------------------
(***************************************************************************)
(* The page of mingo-web that waits for the user's approval, with the      *)
(* mingo-poster it asks (app.js: pollPoster, pickupPoster).  A loop asks   *)
(* /poster/poll a bounded number of times, one call after the other:       *)
(* pollPoster goes on after a failed call, pickupPoster stops at the first *)
(* one.  The loop ends with the first terminal answer, when its tries are  *)
(* used up, and when the page goes away.  The calls of other pages remain  *)
(* the poll of Poster.                                                     *)
(***************************************************************************)
EXTENDS Poster

CONSTANTS
  POLL_TRIES,     \* polls of pollPoster
  PICKUP_TRIES,   \* polls of pickupPoster
  MaxFaults       \* bound on the calls of loops that fail, or are throttled, once the code is settled

ASSUME PickupAssumption ==
  POLL_TRIES \in Nat /\ PICKUP_TRIES \in Nat /\ MaxFaults \in Nat

VARIABLES
  loop,           \* account -> the loop of its page
  faults          \* the failed calls so far

pickup_vars == <<loop, faults>>
all_vars == <<vars, pickup_vars>>

\* The polls left, the request that answers the current one, and whether an
\* error ends the loop; a page that went away is told from a loop that ended.
Loops == [left : 0..(POLL_TRIES + PICKUP_TRIES), call : Requests \cup {None}, frail : BOOLEAN]
NoLoop == [left |-> 0, call |-> None, frail |-> FALSE]
Closed == [left |-> 0, call |-> None, frail |-> TRUE]

PickupTypeOK == TypeOK /\ loop \in [Accounts -> Loops] /\ faults \in 0..MaxFaults

PickupInit == Init /\ loop = [a \in Accounts |-> NoLoop] /\ faults = 0

-----------------------------------------------------------------------------

\* Continue was tapped and the user is away approving: pollPoster.
pollPoster(a) ==
  /\ loop[a] \in {NoLoop, Closed}
  /\ loop' = [loop EXCEPT ![a] = [left |-> POLL_TRIES, call |-> None, frail |-> FALSE]]
  /\ UNCHANGED <<vars, faults>>

\* The page was loaded again, or came back from the broker's: pickupPoster.
pickupPoster(a) ==
  /\ loop[a] \in {NoLoop, Closed}
  /\ a \in session
  /\ loop' = [loop EXCEPT ![a] = [left |-> PICKUP_TRIES, call |-> None, frail |-> TRUE]]
  /\ UNCHANGED <<vars, faults>>

\* The page is closed or navigates away; a call under way runs on unheard.
ClosePage(a) ==
  /\ loop[a] \notin {NoLoop, Closed}
  /\ loop' = [loop EXCEPT ![a] = Closed]
  /\ UNCHANGED <<vars, faults>>

Waiting(a) == loop[a].left > 0 /\ loop[a].call = None

\* What the loop does after an error: it sleeps and asks again, or it stops.
AfterError(l) ==
  IF l.frail \/ l.left = 0 THEN NoLoop ELSE [l EXCEPT !.call = None]

\* The next call reaches the server.
LoopPolls(r, a) ==
  /\ Waiting(a)
  /\ poll(r, a)
  /\ loop' = [loop EXCEPT ![a] = [@ EXCEPT !.left = @ - 1, !.call = r]]
  /\ UNCHANGED faults

\* "none" ends the loop; a call without a session is an error.
LoopIsRefused(a) ==
  /\ Waiting(a)
  /\ \/ /\ a \in session /\ pending[a].user = None
        /\ loop' = [loop EXCEPT ![a] = NoLoop]
     \/ /\ a \notin session
        /\ loop' = [loop EXCEPT ![a] = AfterError([@ EXCEPT !.left = @ - 1])]
  /\ UNCHANGED <<vars, faults>>

\* "pending", which for a code that is settled means a throttled call.
LoopHearsPending(r, a) ==
  /\ loop[a].call = r
  /\ PollKeepWaiting(r)
  /\ \/ code_state[req[r].pend.code] = "pending" /\ UNCHANGED faults
     \/ faults < MaxFaults /\ faults' = faults + 1
  /\ loop' = [loop EXCEPT ![a] = IF @.left = 0 THEN NoLoop ELSE [@ EXCEPT !.call = None]]

\* The call fails on its way, at the server or at the broker.
LoopHearsError(r, a) ==
  /\ loop[a].call = r
  /\ PollKeepWaiting(r)
  /\ faults < MaxFaults
  /\ faults' = faults + 1
  /\ loop' = [loop EXCEPT ![a] = AfterError(@)]

\* approved, mismatch, denied, expired: the loop is done.
LoopEnds(r, a) ==
  /\ loop[a].call = r
  /\ PollClear(r)
  /\ loop' = [loop EXCEPT ![a] = NoLoop]
  /\ UNCHANGED faults

\* Whatever else happens at the server or around it, and does not answer a loop.
Elsewhere ==
  /\ Next
  /\ \A a \in Accounts : loop[a].call # None => req'[loop[a].call].at # "idle"
  /\ UNCHANGED pickup_vars

PickupNext ==
  \/ \E a \in Accounts :
       \/ pollPoster(a) \/ pickupPoster(a) \/ ClosePage(a) \/ LoopIsRefused(a)
       \/ \E r \in Requests :
            LoopPolls(r, a) \/ LoopHearsPending(r, a) \/ LoopHearsError(r, a) \/ LoopEnds(r, a)
  \/ Elsewhere

PickupSpec == PickupInit /\ [][PickupNext]_all_vars

HandlerStep(r) ==
  \/ \E a \in Accounts : LoopHearsPending(r, a) \/ LoopHearsError(r, a) \/ LoopEnds(r, a)
  \/ Elsewhere /\ (EnableStep(r) \/ PollStep(r) \/ DisableClear(r) \/ SubmitStep(r))

\* The server runs every request to its end and the timer of a loop fires.  The
\* server takes any number of requests at a time, the model as many as Requests
\* has: the strong fairness of LoopPolls only says that others do not keep the
\* loop from its turn for ever.  Nobody is obliged to enable, approve, rename,
\* sign in, disable or submit, no call is obliged to succeed, and no page to
\* stay.
FairSpec ==
  /\ PickupSpec
  /\ \A r \in Requests : WF_all_vars(HandlerStep(r))
  /\ \A a \in Accounts :
       /\ WF_all_vars(LoopIsRefused(a))
       /\ SF_all_vars(\E r \in Requests : LoopPolls(r, a))

-----------------------------------------------------------------------------
(* Properties.                                                             *)

\* The loop has more polls to go than calls may still fail; the loop that stops
\* at the first error has no failure to expect.
OutlastsFaults(l) ==
  /\ l.left > MaxFaults - faults
  /\ l.frail => faults = MaxFaults

\* An approval that comes while the page still has tries enough is picked up,
\* or is found to delegate from or to somebody else: the page does not spin on
\* a code that is settled until its tries are gone.  The row may also have been
\* dropped or replaced by others by then; a page that is closed and a user who
\* signs out pick nothing up, nor does a page that gave up before the approval.
ApprovalIsPickedUp ==
  \A a \in Accounts : \A c \in Codes :
    (pending[a].code = c /\ code_state[c] = "approved" /\ Waiting(a) /\ OutlastsFaults(loop[a]))
      ~> (pending[a].code # c \/ a \notin session \/ loop[a] = Closed)
=============================================================================
