------------------------------ MODULE LiveView ------------------------------
(***************************************************************************)
(* The pages of the web client and their live updates (mingo-web/app.js):  *)
(* route, the views, which go on after their awaits whatever the page      *)
(* shows by then, and the one poller that reconciles the list of the page  *)
(* with what the daemon serves (startLivePoll, pollFeed, pollThread,       *)
(* pollModerate, liveAppend).                                              *)
(*                                                                         *)
(* A callback is atomic; between two of them any other view, the poll, a   *)
(* timer or the user may run.  Votes, headings and texts are left out; the *)
(* reads of one view or poll are taken as one read.                        *)
(***************************************************************************)
EXTENDS Naturals, Sequences, SequencesExt

CONSTANTS
  Places,      \* what the hash may name
  KindOf,      \* the view of a place: hub, board, thread, mod, settings or passport
  Items,       \* posts and comments
  Lists,       \* the items a place lists when they exist: [Places -> SUBSET Items]
  Needs,       \* the post of a thread: [Places -> SUBSET Items]
  None,
  HeadAtStart, \* what the daemon may serve when the page is opened
  MaxNav,      \* navigations
  MaxEvents,   \* writes of this user, changes by others and requests that fail
  MaxViews     \* views under way at once

\* The views, and the lists they write into the page.
Kinds == {"hub", "board", "thread", "mod", "settings", "passport"}

\* A view under way, and what #main holds.
Views == [place : Places, at : {"open", "load", "fill", "gone"}, rows : SUBSET Items]
Pages == [head : Places \cup {None}, box : Kinds \cup {None}, list : Places \cup {None}, rows : SUBSET Items]

\* A poll, which reads votes or rows and then applies the rows.
Polls == [place : Places, here : BOOLEAN, rows : SUBSET Items, old : BOOLEAN, at : {"votes", "rows", "apply"}]

ASSUME LiveViewAssumption ==
  /\ KindOf \in [Places -> Kinds]
  /\ Lists \in [Places -> SUBSET Items] /\ Needs \in [Places -> SUBSET Items]
  /\ HeadAtStart \subseteq SUBSET Items
  /\ None \notin Items /\ None \notin Polls
  /\ MaxNav \in Nat /\ MaxEvents \in Nat /\ MaxViews \in Nat

VARIABLES
  hash,        \* location.hash
  main,        \* #main: the place in its heading, the kind of list in it, whose, and its rows
  draft,       \* the items whose rows hold an open edit or delete box
  views,       \* the view functions under way, oldest first
  livePoll,    \* the place the interval polls, or None
  poll,        \* the poll under way (livePollBusy), or None; history "old": the page
               \* or the items have changed since it read its rows
  deletedUris,
  settling,    \* calls of route that a finished write has still to make
  head,        \* the items the daemon serves, pending ones included
  navs, events,
  overtaken    \* history: the last route began while a view was under way

PageVars == <<main, draft>>
counters == <<navs, events>>
ViewVars == <<hash, PageVars, views, livePoll, poll, deletedUris, settling, head, counters, overtaken>>

Polled == {"hub", "board", "thread", "mod"}
Card == [head |-> None, box |-> None, list |-> None, rows |-> {}]

\* The page before its data is there.  A thread has no list yet.
Loading(p) == [head |-> p, box |-> IF KindOf[p] = "thread" THEN None ELSE KindOf[p], list |-> None, rows |-> {}]

\* Views that await before they write to the page.
OpensLate(p) == KindOf[p] \in {"board", "mod"}

View(p, at) == [place |-> p, at |-> at, rows |-> {}]

ViewInit ==
  /\ hash \in Places
  /\ main = IF OpensLate(hash) THEN Card ELSE Loading(hash)
  /\ views = <<View(hash, IF OpensLate(hash) THEN "open" ELSE "load")>>
  /\ draft = {} /\ livePoll = None /\ poll = None
  /\ deletedUris = {} /\ settling = 0 /\ head \in HeadAtStart
  /\ navs = 0 /\ events = 0
  /\ overtaken = FALSE

\* getSpaceItems leaves out what this user deleted.
Present == head \ deletedUris
getSpaceItems(p) == Lists[p] \cap Present

\* The poll under way, after a change; rows it has read are then old.
Aged(here) == IF poll = None THEN None ELSE [poll EXCEPT !.here = here /\ @, !.old = poll.at = "apply"]

\* The page is written anew: boxes are gone, and a list that a poll holds is detached.
Show(m) ==
  /\ main' = m
  /\ draft' = {}
  /\ poll' = Aged(FALSE)

Event == events < MaxEvents /\ events' = events + 1

-----------------------------------------------------------------------------
(* route and the views.                                                    *)

\* Mutant: the poller is left to the next view.
RouteKeepsPoller(p) ==
  /\ hash' = p
  /\ overtaken' = (views # <<>>)
  /\ IF OpensLate(p)
     THEN views' = Append(views, View(p, "open")) /\ UNCHANGED <<PageVars, poll>>
     ELSE views' = Append(views, View(p, "load")) /\ Show(Loading(p))
  /\ UNCHANGED livePoll

route(p) ==
  /\ hash' = p
  /\ livePoll' = None
  /\ overtaken' = (views # <<>>)
  /\ IF OpensLate(p)
     THEN views' = Append(views, View(p, "open")) /\ UNCHANGED <<PageVars, poll>>
     ELSE views' = Append(views, View(p, "load")) /\ Show(Loading(p))

Navigate(p) ==
  /\ navs < MaxNav /\ navs' = navs + 1
  /\ Len(views) < MaxViews
  /\ p # hash /\ route(p)
  /\ UNCHANGED <<deletedUris, settling, head, events>>

\* viewCommunity and viewModerate have read the communities.
ViewOpens(n) ==
  /\ views[n].at = "open"
  /\ Show(Loading(views[n].place))
  /\ views' = [views EXCEPT ![n].at = "load"]
  /\ UNCHANGED <<hash, livePoll, deletedUris, settling, head, counters, overtaken>>

\* The items are read; without its post a thread is not drawn.
ViewLoads(n) ==
  LET p == views[n].place
  IN /\ views[n].at = "load"
     /\ views' = [views EXCEPT ![n].rows = getSpaceItems(p),
                               ![n].at = IF Needs[p] \subseteq Present THEN "fill" ELSE "gone"]
     /\ UNCHANGED <<hash, PageVars, livePoll, poll, deletedUris, settling, head, counters, overtaken>>

\* viewThread writes the whole page; the other views look up their list in the
\* page as it is now, which may be that of another place of their kind, and
\* throw when there is none.
Filled(v) ==
  IF KindOf[v.place] = "thread" THEN [head |-> v.place, box |-> "thread", list |-> v.place, rows |-> v.rows]
  ELSE IF main.box = KindOf[v.place] THEN [main EXCEPT !.list = v.place, !.rows = v.rows]
  ELSE Card

\* The list is drawn and polled from now on.
ViewFills(n) ==
  LET v == views[n]
  IN /\ v.at = "fill"
     /\ Show(Filled(v))
     /\ livePoll' = IF Filled(v) # Card /\ KindOf[v.place] \in Polled THEN v.place ELSE livePoll
     /\ views' = RemoveAt(views, n)
     /\ UNCHANGED <<hash, deletedUris, settling, head, counters, overtaken>>

ViewEndsInCard(n) ==
  /\ Show(Card)
  /\ views' = RemoveAt(views, n)
  /\ UNCHANGED <<hash, livePoll, deletedUris, settling, head, navs, overtaken>>

\* The deleted post of a thread, an unknown board or one the user does not
\* moderate, or the error of a request, which route catches.
ViewGone(n) == views[n].at = "gone" /\ ViewEndsInCard(n) /\ UNCHANGED events
ViewFails(n) == Event /\ ViewEndsInCard(n)

-----------------------------------------------------------------------------
(* The poller.                                                             *)

\* Every 4 seconds, unless the last poll is still under way.
Tick ==
  /\ livePoll # None /\ poll = None
  /\ poll' = [place |-> livePoll, here |-> FALSE, rows |-> {}, old |-> FALSE,
              at |-> IF KindOf[livePoll] \in {"hub", "board"} THEN "votes" ELSE "rows"]
  /\ UNCHANGED <<hash, PageVars, views, livePoll, deletedUris, settling, head, counters, overtaken>>

\* pollFeed has the votes and looks up its list, before it reads the items.
PollVotes ==
  /\ poll # None /\ poll.at = "votes"
  /\ poll' = IF main.box = KindOf[poll.place] THEN [poll EXCEPT !.at = "rows", !.here = TRUE] ELSE None
  /\ UNCHANGED <<hash, PageVars, views, livePoll, deletedUris, settling, head, counters, overtaken>>

PollReads ==
  /\ poll # None /\ poll.at = "rows"
  /\ poll' = [poll EXCEPT !.at = "apply", !.rows = getSpaceItems(poll.place)]
  /\ UNCHANGED <<hash, PageVars, views, livePoll, deletedUris, settling, head, counters, overtaken>>

\* Mutant: the list is drawn again.
Redraw(rows) == main' = [main EXCEPT !.rows = rows] /\ draft' = {}

\* Rows that are wanted and shown stay as they are.
liveAppend(rows) ==
  /\ main' = [main EXCEPT !.rows = rows]
  /\ draft' = draft \cap rows

\* pollFeed changes the list it held on to; the others look it up only now.
PollApplies ==
  /\ poll # None /\ poll.at = "apply"
  /\ IF poll.here \/ (KindOf[poll.place] \in {"thread", "mod"} /\ main.box = KindOf[poll.place])
     THEN liveAppend(poll.rows) ELSE UNCHANGED PageVars
  /\ poll' = None
  /\ UNCHANGED <<hash, views, livePoll, deletedUris, settling, head, counters, overtaken>>

\* Mutant: the flag is lowered after a poll that went well only.
PollFailsBusy ==
  /\ poll # None /\ poll.at = "rows" /\ Event
  /\ poll' = [poll EXCEPT !.at = "failed"]
  /\ UNCHANGED <<hash, PageVars, views, livePoll, deletedUris, settling, head, navs, overtaken>>

PollFails ==
  /\ poll # None /\ poll.at = "rows" /\ Event
  /\ poll' = None
  /\ UNCHANGED <<hash, PageVars, views, livePoll, deletedUris, settling, head, navs, overtaken>>

-----------------------------------------------------------------------------
(* Writes of this user and of others.                                      *)

\* beginEdit and beginDelete, one box in a row, and the cancel of a box.
beginEdit(u) ==
  /\ u \in main.rows
  /\ draft' = IF u \in draft THEN draft \ {u} ELSE draft \cup {u}
  /\ UNCHANGED <<hash, main, views, livePoll, poll, deletedUris, settling, head, counters, overtaken>>

Wrote(routes) == Event /\ settling' = settling + routes

\* An edit is accepted, or a delete, which the daemon may serve on for a while.
SaveEdit(u) ==
  /\ u \in draft /\ Wrote(1)
  /\ deletedUris' \in {deletedUris, deletedUris \cup {u}}
  /\ UNCHANGED <<hash, PageVars, views, livePoll, poll, head, navs, overtaken>>

\* A post or comment is accepted and served at once; the page is drawn again
\* then, and when it is confirmed while the loop still looks.
Compose(u) ==
  /\ main.box \in {"board", "thread"}
  /\ u \in Lists[main.head] \ (head \cup deletedUris)
  /\ head' = head \cup {u} /\ poll' = Aged(TRUE)
  /\ \E routes \in 1 .. 2 : Wrote(routes)
  /\ UNCHANGED <<hash, PageVars, views, livePoll, deletedUris, navs, overtaken>>

\* The route() that follows a write, wherever the user is by then.
Settle ==
  /\ settling > 0 /\ settling' = settling - 1
  /\ Len(views) < MaxViews
  /\ route(hash)
  /\ UNCHANGED <<deletedUris, head, counters>>

\* Others post and delete, deletes are confirmed and posts denied.
Others(u) ==
  /\ Event
  /\ head' = IF u \in head THEN head \ {u} ELSE head \cup {u}
  /\ poll' = Aged(TRUE)
  /\ UNCHANGED <<hash, PageVars, views, livePoll, deletedUris, settling, navs, overtaken>>

-----------------------------------------------------------------------------

ViewStep == \E n \in DOMAIN views : ViewOpens(n) \/ ViewLoads(n) \/ ViewFills(n) \/ ViewGone(n)
PollStep == PollVotes \/ PollReads \/ PollApplies

ViewNext ==
  \/ \E p \in Places : Navigate(p)
  \/ ViewStep \/ PollStep \/ Tick \/ Settle
  \/ (\E n \in DOMAIN views : ViewFails(n)) \/ PollFails
  \/ \E u \in Items : beginEdit(u) \/ SaveEdit(u) \/ Compose(u) \/ Others(u)

ViewSpec == ViewInit /\ [][ViewNext]_ViewVars

\* Requests are answered or fail, timers and the interval fire; the user need
\* do nothing.
ViewFairSpec == ViewSpec /\ WF_ViewVars(ViewStep) /\ WF_ViewVars(PollStep) /\ WF_ViewVars(Tick) /\ WF_ViewVars(Settle)

-----------------------------------------------------------------------------
(* Properties.                                                             *)

ViewTypeOK ==
  /\ hash \in Places /\ livePoll \in Places \cup {None}
  /\ main \in Pages /\ draft \subseteq Items /\ views \in Seq(Views)
  /\ poll # None => poll \in Polls
  /\ deletedUris \subseteq Items /\ head \subseteq Items /\ settling \in Nat

\* "route() clears it on every navigation (so only the active view polls)": a
\* poller belongs to the place of the hash, which is also what the page shows.
\* Excepted is a route that overtook a view: the older view ends later, draws
\* its rows, or its error, and its poller stays.
OnlyActiveViewPolls ==
  (~overtaken /\ livePoll # None) => main.head = hash /\ main.list = hash /\ livePoll = hash

\* The list in the page comes to hold just what the daemon serves for the place
\* it was drawn for, without what this user deleted, and stays so: after polls
\* that failed, that were late and applied to the list of another place, after
\* views that overtook each other and changes by others.
ListHeals == <>[](main.box \in Polled => main.list # None /\ main.rows = getSpaceItems(main.list))

\* The poll "never clobbers ... an open inline edit textarea": it closes a box only
\* when the place of the list no longer serves the item.  Excepted are a poll that
\* was begun for another place of the same kind and takes hold of this list, and
\* rows that are older than the list they are applied to, or than the item.
DraftSurvivesPoll ==
  [][\A u \in Items :
       (poll # None /\ poll' = None /\ u \in draft \ draft')
         => poll.place # main.list \/ poll.old \/ u \notin getSpaceItems(main.list)]_ViewVars
=============================================================================
