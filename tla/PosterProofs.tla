---------------------------- MODULE PosterProofs ----------------------------
(***************************************************************************)
(* Theorems about Poster, for any number of accounts, identities, issuers, *)
(* requests and codes.                                                     *)
(***************************************************************************)
EXTENDS Poster, TLAPS

-----------------------------------------------------------------------------
(* Types.                                                                  *)

\* The constant rows have the types of their tables.
LEMMA RowTypes ==
  /\ NoGrant \in Grants /\ NoPending \in PendingRows /\ NoWarrant \in WarrantRows
  /\ \A a \in Accounts : Idle(a) \in ReqRows
  /\ \A a \in Accounts : LegacyPending(a) \in PendingRows /\ LegacyWarrant(a) \in WarrantRows
<1>1. 0 \in 0..MaxCodes /\ 0 \in 0..MaxTime /\ 0 \in Times /\ WARRANT_LIFE \in Times
  BY PosterAssumption DEF Times
<1>2. NoGrant \in Grants
  BY <1>1 DEF NoGrant, Grants, MaybeIdentity
<1>3. NoPending \in PendingRows
  BY <1>1 DEF NoPending, PendingRows, MaybeIdentity
<1>4. NoWarrant \in WarrantRows
  BY <1>2 DEF NoWarrant, WarrantRows, MaybeIdentity
<1>5. ASSUME NEW a \in Accounts PROVE Idle(a) \in ReqRows
  BY <1>1, <1>3, <1>4 DEF Idle, Req, ReqRows, Points, MaybeIdentity
<1>6. ASSUME NEW a \in Accounts PROVE LegacyPending(a) \in PendingRows
  BY <1>1, PosterAssumption DEF LegacyPending, PendingRows, MaybeIdentity
<1>7. ASSUME NEW a \in Accounts PROVE LegacyWarrant(a) \in WarrantRows
  BY <1>1, PosterAssumption DEF LegacyWarrant, WarrantRows, Grants, MaybeIdentity
<1> QED BY <1>2, <1>3, <1>4, <1>5, <1>6, <1>7

\* A request that moves on, or ends, keeps its type.
LEMMA MoveTypes ==
  ASSUME TypeOK, NEW r \in Requests
  PROVE  /\ \A p \in Points : Goto(r, p) => req' \in [Requests -> ReqRows]
         /\ Finish(r) => req' \in [Requests -> ReqRows]
         /\ req[r] \in ReqRows
<1>1. req[r] \in ReqRows
  BY DEF TypeOK
<1>2. ASSUME NEW p \in Points, Goto(r, p) PROVE req' \in [Requests -> ReqRows]
  <2>1. Req(p, req[r].acct, req[r].user, req[r].since, req[r].pend, req[r].row) \in ReqRows
    BY <1>1 DEF Req, ReqRows
  <2> QED BY <1>2, <2>1 DEF Goto, TypeOK
<1>3. ASSUME Finish(r) PROVE req' \in [Requests -> ReqRows]
  <2>1. Idle(req[r].acct) \in ReqRows
    BY <1>1, RowTypes DEF ReqRows
  <2> QED BY <1>3, <2>1 DEF Finish, TypeOK
<1> QED BY <1>1, <1>2, <1>3

\* The sums of a time and a lifetime that the rows hold are times.
LEMMA TimeTypes ==
  ASSUME NEW t \in 0..MaxTime
  PROVE  t \in Times /\ t + CODE_LIFE \in Times /\ t + WARRANT_LIFE \in Times /\ t + PROOF_LIFE \in Times
BY PosterAssumption DEF Times

-----------------------------------------------------------------------------
(* The inductive invariant.                                                *)

\* A request the poster has filed asks the broker for its own user.
PendSound(p) ==
  p.device => p.code \in 1..last_code /\ p.user \in Identities /\ code_user[p.code] = p.user

\* A credential is that of its user, delegated to the poster.
RowSound(w) ==
  w.device => w.user \in Identities /\ w.grant.grantor = w.user /\ w.grant.grantee = Poster /\ w.grant.as = w.user

\* Codes are handed out in order, and what is approved is what was asked for,
\* by whichever identity.
CodeInv ==
  \A c \in Codes :
    /\ c > last_code => code_state[c] = "unused"
    /\ code_state[c] = "approved" => code_grant[c].as = code_user[c]

StoreInv == \A a \in Accounts : PendSound(pending[a]) /\ RowSound(warrant[a])

Checked == {"submit:mint", "submit:access", "submit:config", "submit:send", "submit:forget"}

\* What a handler carries over its awaits is as sound as the rows it read.
ReqSound(q) ==
  /\ q.at \in {"enable:pending", "enable:await"} => q.user \in Identities
  /\ q.at = "poll:await" => q.pend.device
  /\ q.at \in {"submit:identity"} \cup Checked => q.row.device
  /\ q.at \in Checked => q.row.grant.as = q.user
  /\ PendSound(q.pend) /\ RowSound(q.row)

ReqInv == \A r \in Requests : ReqSound(req[r])

IInv == TypeOK /\ CodeInv /\ StoreInv /\ ReqInv

\* An IdP without warrants, approvals or requests satisfies the invariant.
LEMMA InitInv == Init => IInv
<1> SUFFICES ASSUME Init PROVE IInv
  OBVIOUS
<1>1. 0 \in Times /\ 0 \in 0..MaxTime /\ 0 \in 0..MaxCodes
  BY PosterAssumption DEF Times
<1>2. TypeOK
  BY <1>1, RowTypes, PosterAssumption DEF Init, TypeOK, CodeStates, MaybeIdentity
<1>3. CodeInv
  BY DEF Init, CodeInv
<1>4. StoreInv
  BY DEF Init, StoreInv, PendSound, RowSound, NoPending, NoWarrant, LegacyPending, LegacyWarrant
<1>5. ReqInv
  BY DEF Init, ReqInv, ReqSound, PendSound, RowSound, Idle, Req, NoPending, NoWarrant, Checked
<1> QED BY <1>2, <1>3, <1>4, <1>5 DEF IInv

\* The rows nothing was stored in are sound.
LEMMA NothingSound == PendSound(NoPending) /\ RowSound(NoWarrant) /\ \A a : ReqSound(Idle(a))
BY DEF PendSound, RowSound, ReqSound, Idle, Req, NoPending, NoWarrant, Checked

\* A step that leaves the broker alone keeps it all if the rows it writes and
\* the request it moves are sound.
LEMMA LocalStep ==
  ASSUME IInv, UNCHANGED broker,
         identity' \in [Accounts -> MaybeIdentity], session' \subseteq Accounts, valid_until' \in [Issuers -> Times],
         now' \in 0..MaxTime, off' \subseteq Accounts,
         NEW r \in Requests, NEW q \in ReqRows, ReqSound(q), req' = [req EXCEPT ![r] = q],
         NEW a \in Accounts,
         NEW p \in PendingRows, PendSound(p), pending' = pending \/ pending' = [pending EXCEPT ![a] = p],
         NEW w \in WarrantRows, RowSound(w), warrant' = warrant \/ warrant' = [warrant EXCEPT ![a] = w]
  PROVE  IInv'
<1>1. TypeOK'
  BY DEF IInv, TypeOK, broker
<1>2. CodeInv'
  BY DEF IInv, CodeInv, broker
<1>3. \A x : (PendSound(x) <=> PendSound(x)') /\ (RowSound(x) <=> RowSound(x)')
  BY DEF PendSound, RowSound, broker
<1>4. \A x : ReqSound(x) => ReqSound(x)'
  BY <1>3 DEF ReqSound
<1>5. StoreInv'
  BY <1>3 DEF IInv, TypeOK, StoreInv, PendSound, RowSound, broker
<1>6. ReqInv'
  BY <1>4 DEF IInv, TypeOK, ReqInv
<1> QED BY <1>1, <1>2, <1>5, <1>6 DEF IInv

\* A request that only moves on, to a point that asks no more of it, or ends.
LEMMA MoveStep ==
  ASSUME IInv, UNCHANGED <<identity, session, broker, now, pending>>, off' \subseteq Accounts,
         valid_until' \in [Issuers -> Times],
         NEW r \in Requests,
         NEW w \in WarrantRows, RowSound(w),
         warrant' = warrant \/ warrant' = [warrant EXCEPT ![req[r].acct] = w],
         \/ Finish(r)
         \/ \E p \in Points : /\ Goto(r, p) /\ p \notin {"enable:pending", "poll:await", "submit:identity"}
                              /\ p = "enable:await" => req[r].at = "enable:pending"
                              /\ p \in Checked => req[r].at \in Checked
  PROVE  IInv'
<1>1. TypeOK /\ ReqSound(req[r]) /\ req[r] \in ReqRows
  BY DEF IInv, ReqInv, TypeOK
<1>2. req[r].acct \in Accounts
  BY <1>1 DEF ReqRows
<1>3. PICK q \in ReqRows : ReqSound(q) /\ req' = [req EXCEPT ![r] = q]
  <2>1. CASE Finish(r)
    BY <1>2, <2>1, RowTypes, NothingSound DEF Finish
  <2>2. ASSUME NEW p \in Points, Goto(r, p), p \notin {"enable:pending", "poll:await", "submit:identity"},
               p = "enable:await" => req[r].at = "enable:pending",
               p \in Checked => req[r].at \in Checked
        PROVE  \E q \in ReqRows : ReqSound(q) /\ req' = [req EXCEPT ![r] = q]
    <3> DEFINE q == Req(p, req[r].acct, req[r].user, req[r].since, req[r].pend, req[r].row)
    <3>1. q \in ReqRows
      BY <1>1 DEF Req, ReqRows
    <3>2. ReqSound(q)
      BY <1>1, <2>2 DEF ReqSound, Req, Checked
    <3> QED BY <2>2, <3>1, <3>2 DEF Goto
  <2> QED BY <2>1, <2>2
<1> QED BY <1>1, <1>2, <1>3, RowTypes, NothingSound, LocalStep DEF IInv, TypeOK

-----------------------------------------------------------------------------
(* The handlers.                                                           *)

\* A request begins with what it read.
LEMMA BeginKeeps ==
  ASSUME IInv, NEW r \in Requests, NEW a \in Accounts,
         enable(r, a) \/ poll(r, a) \/ disable(r, a) \/ submit(r, a)
  PROVE  IInv'
<1>0. /\ TypeOK /\ now \in 0..MaxTime /\ 0 \in 0..MaxTime
      /\ pending[a] \in PendingRows /\ warrant[a] \in WarrantRows
      /\ PendSound(pending[a]) /\ RowSound(warrant[a])
  BY PosterAssumption DEF IInv, TypeOK, StoreInv
<1> USE DEF Req
<1>1. CASE enable(r, a)
  <2> DEFINE q == Req("enable:pending", a, identity[a], now, NoPending, NoWarrant)
  <2>1. q \in ReqRows /\ ReqSound(q)
    BY <1>0, <1>1, RowTypes, NothingSound DEF enable, TypeOK, MaybeIdentity, ReqRows, Points, ReqSound, Checked
  <2> QED BY <1>0, <1>1, <2>1, RowTypes, NothingSound, LocalStep DEF enable, Begin, TypeOK, store
<1>2. CASE poll(r, a)
  <2> DEFINE q == Req(IF pending[a].device THEN "poll:await" ELSE "poll:clear", a, None, 0, pending[a], NoWarrant)
  <2>1. q \in ReqRows /\ ReqSound(q)
    BY <1>0, RowTypes, NothingSound DEF MaybeIdentity, ReqRows, Points, ReqSound, Checked
  <2> QED BY <1>0, <1>2, <2>1, RowTypes, NothingSound, LocalStep DEF poll, Begin, TypeOK, store
<1>3. CASE disable(r, a)
  <2> DEFINE q == Req("disable:clear", a, None, 0, NoPending, NoWarrant)
  <2>1. q \in ReqRows /\ ReqSound(q)
    BY <1>0, RowTypes, NothingSound DEF MaybeIdentity, ReqRows, Points, ReqSound, Checked
  <2> QED
    BY <1>0, <1>3, <2>1, RowTypes, NothingSound, LocalStep DEF disable, delete_poster_warrant, Begin, TypeOK
<1>4. CASE submit(r, a)
  <2> DEFINE q == Req("submit:identity", a, None, 0, NoPending, warrant[a])
  <2>1. q \in ReqRows /\ ReqSound(q)
    BY <1>0, <1>4, RowTypes, NothingSound
    DEF submit, WarrantUsable, MaybeIdentity, ReqRows, Points, ReqSound, Checked
  <2> QED BY <1>0, <1>4, <2>1, RowTypes, NothingSound, LocalStep DEF submit, Begin, TypeOK, store
<1> QED BY <1>1, <1>2, <1>3, <1>4

\* enable: the code it files is new, so no row and no request holds it yet.
LEMMA EnableKeeps ==
  ASSUME IInv, NEW r \in Requests, EnableStep(r)
  PROVE  IInv'
<1>0. TypeOK /\ CodeInv /\ StoreInv /\ ReqInv /\ req[r] \in ReqRows /\ ReqSound(req[r])
  BY DEF IInv, ReqInv, TypeOK
<1>1. CASE EnableReadPending(r)
  BY <1>0, <1>1, RowTypes, NothingSound, MoveStep DEF EnableReadPending, TypeOK, store, Points, Checked
<1>2. CASE EnableFailed(r)
  BY <1>0, <1>2, RowTypes, NothingSound, MoveStep DEF EnableFailed, TypeOK, store
<1>3. CASE EnableStorePending(r)
  <2> DEFINE c == last_code + 1
             p == [user |-> req[r].user, code |-> c, exp |-> req[r].since + CODE_LIFE, device |-> TRUE]
  <2>1. /\ c \in Codes /\ last_code' = c /\ last_code \in Nat /\ req[r].acct \in Accounts
        /\ req[r].user \in Identities
    BY <1>0, <1>3, PosterAssumption DEF EnableStorePending, TypeOK, Codes, ReqSound, ReqRows
  <2>2. p \in PendingRows
    BY <1>0, <2>1, TimeTypes, PosterAssumption DEF PendingRows, ReqRows, MaybeIdentity, Codes
  <2>3. code_user' = [code_user EXCEPT ![c] = req[r].user] /\ code_user \in [Codes -> MaybeIdentity]
    BY <1>0, <1>3 DEF EnableStorePending, TypeOK
  <2>4. \A x \in PendingRows : PendSound(x) => PendSound(x)'
    BY <2>1, <2>3, PosterAssumption DEF PendSound, Codes
  <2>5. ASSUME NEW x, x = p PROVE PendSound(x)'
    BY <2>1, <2>3, <2>5 DEF PendSound
  <2>6. \A x : RowSound(x) <=> RowSound(x)'
    BY DEF RowSound
  <2>7. TypeOK'
    BY <1>0, <1>3, <2>1, <2>2, MoveTypes, TimeTypes
    DEF EnableStorePending, TypeOK, CodeStates, MaybeIdentity, Codes
  <2>8. CodeInv'
    BY <1>0, <1>3, <2>1 DEF EnableStorePending, CodeInv, TypeOK, Codes
  <2>9. ASSUME NEW a \in Accounts PROVE PendSound(pending[a])' /\ RowSound(warrant[a])'
    <3>1. PICK x : x = pending'[a]
      OBVIOUS
    <3>2. PendSound(x)'
      BY <1>0, <1>3, <2>1, <2>4, <2>5, <3>1 DEF EnableStorePending, StoreInv, TypeOK
    <3> QED BY <1>0, <1>3, <2>6, <3>1, <3>2 DEF EnableStorePending, StoreInv, PendSound, RowSound
  <2>10. ASSUME NEW x \in Requests PROVE ReqSound(req[x])'
    <3>1. CASE x = r
      <4>1. req'[r] = Idle(req[r].acct)
        BY <1>0, <1>3 DEF EnableStorePending, Finish, TypeOK
      <4> QED
        BY <3>1, <4>1 DEF ReqSound, PendSound, RowSound, Idle, Req, NoPending, NoWarrant, Checked
    <3>2. CASE x # r
      <4>1. req'[x] = req[x] /\ req[x] \in ReqRows /\ ReqSound(req[x])
        BY <1>0, <1>3, <3>2 DEF EnableStorePending, Finish, TypeOK, ReqInv
      <4>2. req[x].pend \in PendingRows
        BY <4>1 DEF ReqRows
      <4> QED BY <2>4, <2>6, <4>1, <4>2 DEF ReqSound
    <3> QED BY <3>1, <3>2
  <2> QED BY <2>7, <2>8, <2>9, <2>10 DEF IInv, StoreInv, ReqInv
<1> QED BY <1>1, <1>2, <1>3 DEF EnableStep

\* poll: what is stored is the grant the broker keeps for the code of the row
\* that was read, which asks for the row's user, by whom it must be granted.
LEMMA PollKeeps ==
  ASSUME IInv, NEW r \in Requests, PollStep(r) \/ PollBlank(r)
  PROVE  IInv'
<1>0. /\ TypeOK /\ CodeInv /\ req[r] \in ReqRows /\ ReqSound(req[r])
      /\ req[r].acct \in Accounts /\ req[r].pend \in PendingRows
  BY DEF IInv, ReqInv, TypeOK, ReqRows
<1>1. CASE PollKeepWaiting(r)
  BY <1>0, <1>1, RowTypes, NothingSound, MoveStep DEF PollKeepWaiting, TypeOK, store
<1>2. CASE PollApproved(r)
  <2> DEFINE p == req[r].pend
             w == [user |-> p.user, grant |-> code_grant[p.code], device |-> TRUE]
  <2>1. p.code \in Codes /\ p.user \in Identities /\ code_user[p.code] = p.user
    BY <1>0, <1>2, PosterAssumption DEF PollApproved, ReqSound, PendSound, TypeOK, Codes
  <2>2. /\ code_grant[p.code].as = p.user
        /\ code_grant[p.code].grantor = p.user
        /\ code_grant[p.code].grantee = Poster
    BY <1>0, <1>2, <2>1 DEF PollApproved, CodeInv, DelegationMatches
  <2>3. w \in WarrantRows /\ RowSound(w)
    BY <1>0, <2>1, <2>2 DEF TypeOK, WarrantRows, MaybeIdentity, RowSound
  <2>4. warrant' = [warrant EXCEPT ![req[r].acct] = w]
    BY <1>2 DEF PollApproved
  <2> HIDE DEF w, p
  <2> QED BY <1>0, <1>2, <2>3, <2>4, MoveStep DEF PollApproved, TypeOK, Points, Checked
<1>3. CASE PollGiveUp(r)
  BY <1>0, <1>3, RowTypes, NothingSound, MoveStep DEF PollGiveUp, TypeOK, store, Points, Checked
<1>4. CASE PollClear(r)
  BY <1>0, <1>4, RowTypes, NothingSound, LocalStep DEF PollClear, clear_poster_pending, Finish, TypeOK
<1>5. CASE PollBlank(r)
  BY <1>0, <1>5, RowTypes, NothingSound, MoveStep DEF PollBlank, TypeOK, store, Points, Checked
<1> QED BY <1>1, <1>2, <1>3, <1>4, <1>5 DEF PollStep

\* What disable clears leaves the invariant.
LEMMA DisableKeeps ==
  ASSUME IInv, NEW r \in Requests, DisableClear(r)
  PROVE  IInv'
<1>1. TypeOK /\ req[r].acct \in Accounts /\ off' \subseteq Accounts
  BY DEF IInv, TypeOK, ReqRows, DisableClear
<1> QED BY <1>1, RowTypes, NothingSound, LocalStep DEF DisableClear, clear_poster_pending, Finish, TypeOK

\* A proof that is refreshed is valid for the life of a new one.
LEMMA RefreshType ==
  ASSUME TypeOK, NEW d, ensure_dnssec_fresh(d)
  PROVE  valid_until' \in [Issuers -> Times]
BY TimeTypes DEF TypeOK, ensure_dnssec_fresh

\* submit: the account's name is compared with the warrant that was read before.
LEMMA SubmitKeeps ==
  ASSUME IInv, NEW r \in Requests, SubmitStep(r)
  PROVE  IInv'
<1>0. /\ TypeOK /\ req[r] \in ReqRows /\ ReqSound(req[r]) /\ now \in 0..MaxTime /\ 0 \in 0..MaxTime
      /\ req[r].acct \in Accounts /\ req[r].row \in WarrantRows /\ req[r].user \in MaybeIdentity
  BY PosterAssumption DEF IInv, ReqInv, TypeOK, ReqRows
<1>1. CASE SubmitReadAccount(r)
  <2> DEFINE user == identity[req[r].acct]
             q == Req("submit:mint", req[r].acct, user, 0, NoPending, req[r].row)
  <2>1. CASE AuthorsAsAccount(req[r].row, user)
    <3>1. q \in ReqRows /\ ReqSound(q)
      BY <1>0, <1>1, <2>1, RowTypes, NothingSound
      DEF SubmitReadAccount, AuthorsAsAccount, warrant_authors_as, TypeOK, ReqRows, Points, Req, ReqSound, Checked
    <3> QED
      BY <1>0, <1>1, <2>1, <3>1, RowTypes, NothingSound, LocalStep DEF SubmitReadAccount, TypeOK, store
  <2>2. CASE ~AuthorsAsAccount(req[r].row, user)
    BY <1>0, <1>1, <2>2, RowTypes, NothingSound, MoveStep DEF SubmitReadAccount, TypeOK, store
  <2> QED BY <2>1, <2>2
<1>2. CASE SubmitMinted(r)
  <2> DEFINE q == Req("submit:access", req[r].acct, req[r].user, now, NoPending, req[r].row)
  <2>1. q \in ReqRows /\ ReqSound(q)
    BY <1>0, <1>2, RowTypes, NothingSound DEF SubmitMinted, ReqRows, Points, Req, ReqSound, Checked
  <2> QED BY <1>0, <1>2, <2>1, RowTypes, NothingSound, LocalStep DEF SubmitMinted, TypeOK, store
<1>3. CASE SubmitAccessIssuer(r)
  BY <1>0, <1>3, RefreshType, RowTypes, NothingSound, MoveStep
  DEF SubmitAccessIssuer, TypeOK, store, Points, Checked
<1>4. CASE SubmitConfigIssuer(r)
  BY <1>0, <1>4, RefreshType, RowTypes, NothingSound, MoveStep
  DEF SubmitConfigIssuer, TypeOK, store, Points, Checked
<1>5. CASE SubmitSend(r)
  BY <1>0, <1>5, RowTypes, NothingSound, MoveStep DEF SubmitSend, TypeOK, store, Points, Checked
<1>6. CASE SubmitForget(r)
  BY <1>0, <1>6, RowTypes, NothingSound, MoveStep DEF SubmitForget, delete_poster_warrant, TypeOK
<1>7. CASE SubmitFailed(r)
  BY <1>0, <1>7, RowTypes, NothingSound, MoveStep DEF SubmitFailed, TypeOK, store
<1> QED BY <1>1, <1>2, <1>3, <1>4, <1>5, <1>6, <1>7 DEF SubmitStep

-----------------------------------------------------------------------------
(* The outside world, and the invariant.                                   *)

\* Nothing the broker, the account's owner or the clock does unsettles a row.
LEMMA OutsideKeeps ==
  ASSUME IInv,
         \/ \E c \in Codes : BrokerApprove(c) \/ BrokerDrop(c) \/ BrokerRevoke(c)
         \/ \E a \in Accounts : Rename(a) \/ DeleteAccount(a) \/ Logout(a) \/ SignIn(a)
         \/ Tick
  PROVE  IInv'
<1>0. TypeOK /\ CodeInv /\ StoreInv /\ ReqInv
  BY DEF IInv
<1>1. UNCHANGED <<pending, warrant, req, code_user, last_code>>
  BY DEF BrokerApprove, BrokerDrop, BrokerRevoke, Rename, DeleteAccount, Logout, SignIn, Tick, store, broker
<1>2. StoreInv' /\ ReqInv'
  BY <1>0, <1>1 DEF StoreInv, ReqInv, ReqSound, PendSound, RowSound
<1>3. ASSUME NEW c \in Codes, BrokerApprove(c) PROVE TypeOK' /\ CodeInv'
  <2>1. PICK g \in Identities, h \in {Poster, None} :
          code_grant' = [code_grant EXCEPT ![c] =
                           [code |-> c, grantor |-> g, grantee |-> h,
                            as |-> code_user[c], exp |-> now + WARRANT_LIFE]]
    BY <1>3 DEF BrokerApprove
  <2>2. [code |-> c, grantor |-> g, grantee |-> h, as |-> code_user[c], exp |-> now + WARRANT_LIFE] \in Grants
    <3>1. now + WARRANT_LIFE \in Times /\ c \in 0..MaxCodes /\ code_user[c] \in MaybeIdentity
      <4>1. now + WARRANT_LIFE \in Times
        BY <1>0, TimeTypes DEF TypeOK
      <4>2. c \in 0..MaxCodes
        BY PosterAssumption DEF Codes
      <4> QED BY <1>0, <4>1, <4>2 DEF TypeOK
    <3> QED BY <3>1 DEF Grants, MaybeIdentity
  <2>3. TypeOK'
    BY <1>0, <1>3, <2>1, <2>2 DEF BrokerApprove, TypeOK, CodeStates, store
  <2>4. CodeInv'
    BY <1>0, <1>3, <2>1 DEF BrokerApprove, CodeInv, TypeOK
  <2> QED BY <2>3, <2>4
<1>4. ASSUME NEW c \in Codes, BrokerDrop(c) PROVE TypeOK' /\ CodeInv'
  BY <1>0, <1>4 DEF BrokerDrop, TypeOK, CodeInv, CodeStates, store
<1>5. ASSUME NEW c \in Codes, BrokerRevoke(c) PROVE TypeOK' /\ CodeInv'
  BY <1>0, <1>5 DEF BrokerRevoke, TypeOK, CodeInv, store
<1>6. ASSUME NEW a \in Accounts, Rename(a) \/ DeleteAccount(a) \/ Logout(a) \/ SignIn(a) PROVE TypeOK' /\ CodeInv'
  BY <1>0, <1>6 DEF Rename, DeleteAccount, Logout, SignIn, TypeOK, CodeInv, store, broker, MaybeIdentity
<1>7. CASE Tick
  <2>1. now' \in 0..MaxTime
    BY <1>0, <1>7, PosterAssumption DEF Tick, TypeOK
  <2>2. UNCHANGED <<identity, session, store, req, broker, valid_until, off>>
    BY <1>7 DEF Tick
  <2>3. TypeOK' /\ CodeInv'
    BY <1>0, <2>1, <2>2 DEF TypeOK, CodeInv, store, broker
  <2> QED BY <1>2, <2>3 DEF IInv
<1> QED BY <1>2, <1>3, <1>4, <1>5, <1>6, <1>7 DEF IInv

\* Every step preserves the invariant.
LEMMA NextInv == IInv /\ [Next]_vars => IInv'
<1> SUFFICES ASSUME IInv, [Next]_vars PROVE IInv'
  OBVIOUS
<1>1. CASE UNCHANGED vars
  BY <1>1 DEF vars, store, broker, IInv, TypeOK, CodeInv, StoreInv, ReqInv, ReqSound, PendSound, RowSound
<1> QED BY <1>1, BeginKeeps, EnableKeeps, PollKeeps, DisableKeeps, SubmitKeeps, OutsideKeeps DEF Next, Handling

\* Every table, every request in flight and the broker's records keep their types.
THEOREM TypeCorrect == Spec => []TypeOK
<1>1. IInv => TypeOK
  BY DEF IInv
<1> QED BY InitInv, NextInv, <1>1, PTL DEF Spec

\* A credential that poll stored is the warrant of the row's user, delegated to
\* the poster and making that user the author.
THEOREM WarrantSafe == Spec => []StoredWarrantIsTheUsers
<1>1. IInv => StoredWarrantIsTheUsers
  BY DEF IInv, StoreInv, RowSound, StoredWarrantIsTheUsers
<1> QED BY InitInv, NextInv, <1>1, PTL DEF Spec

\* A write is sent under the identity that submit compared with the warrant.
THEOREM OwnerSafe == Spec => []OwnerIsCheckedIdentity
<1>1. IInv => OwnerIsCheckedIdentity
  BY DEF IInv, ReqInv, ReqSound, RowSound, Checked, OwnerIsCheckedIdentity
<1> QED BY InitInv, NextInv, <1>1, PTL DEF Spec

-----------------------------------------------------------------------------
(* disable.                                                                *)

Busy == {"enable:pending", "enable:await", "poll:await", "poll:clear"}

\* Of an account that is off nothing is stored, nothing is pending and no
\* handler is under way that would store something.
IsOff(a) ==
  /\ warrant[a] = NoWarrant /\ pending[a] = NoPending
  /\ \A r \in Requests : req[r].acct = a => req[r].at \notin Busy

OffInv == \A a \in off : IsOff(a)

\* A handler's step keeps the accounts off whose rows it leaves alone, if it is
\* not, or was already, one of those that store something.
LEMMA OffLocal ==
  ASSUME TypeOK, OffInv, NEW r \in Requests, NEW q,
         req' = [req EXCEPT ![r] = q],
         off' \subseteq off,
         q.at \in Busy => q.acct \notin off',
         \A a \in off' : pending'[a] \in {pending[a], NoPending} /\ warrant'[a] \in {warrant[a], NoWarrant}
  PROVE  OffInv'
BY DEF TypeOK, OffInv, IsOff

\* A busy handler is of an account that is not off.
LEMMA BusyNotOff ==
  ASSUME OffInv, NEW r \in Requests, req[r].at \in Busy
  PROVE  req[r].acct \notin off
BY DEF OffInv, IsOff

\* A handler that moves on, or ends, and writes no row but its account's.
LEMMA OffMove ==
  ASSUME TypeOK, OffInv, NEW r \in Requests, off' = off,
         \A a \in off : req[r].acct # a \/ req[r].at \notin Busy
           => pending'[a] \in {pending[a], NoPending} /\ warrant'[a] \in {warrant[a], NoWarrant},
         Finish(r) \/ \E p : Goto(r, p) /\ (p \in Busy => req[r].at \in Busy)
  PROVE  OffInv'
<1>1. \A a \in off' : pending'[a] \in {pending[a], NoPending} /\ warrant'[a] \in {warrant[a], NoWarrant}
  BY BusyNotOff
<1>2. CASE Finish(r)
  <2>1. Idle(req[r].acct).at \notin Busy
    BY DEF Idle, Req, Busy
  <2> QED BY <1>1, <1>2, <2>1, OffLocal DEF Finish
<1>3. ASSUME NEW p, Goto(r, p), p \in Busy => req[r].at \in Busy PROVE OffInv'
  <2> DEFINE q == Req(p, req[r].acct, req[r].user, req[r].since, req[r].pend, req[r].row)
  <2>1. q.at \in Busy => q.acct \notin off'
    BY <1>3, BusyNotOff DEF Req
  <2>2. req' = [req EXCEPT ![r] = q]
    BY <1>3 DEF Goto
  <2> HIDE DEF q
  <2> QED BY <1>1, <2>1, <2>2, OffLocal
<1> QED BY <1>2, <1>3

\* disable leaves the account off unless it met another handler, enable ends
\* that, and no other step turns an account on.
LEMMA OffNext == TypeOK /\ OffInv /\ [Next]_vars => OffInv'
<1> SUFFICES ASSUME TypeOK, OffInv, [Next]_vars PROVE OffInv'
  OBVIOUS
<1> USE DEF store
<1>1. ASSUME NEW r \in Requests, NEW a \in Accounts, enable(r, a) PROVE OffInv'
  <2> DEFINE q == Req("enable:pending", a, identity[a], now, NoPending, NoWarrant)
  <2>1. q.acct = a /\ a \notin off' /\ off' \subseteq off
    BY <1>1 DEF enable, Req
  <2> QED BY <1>1, <2>1, OffLocal DEF enable, Begin
<1>2. ASSUME NEW r \in Requests, NEW a \in Accounts, poll(r, a) PROVE OffInv'
  <2> DEFINE q == Req(IF pending[a].device THEN "poll:await" ELSE "poll:clear", a, None, 0, pending[a], NoWarrant)
  <2>1. q.acct = a /\ a \notin off
    BY <1>2 DEF poll, Req, OffInv, IsOff, NoPending
  <2> QED BY <1>2, <2>1, OffLocal DEF poll, Begin
<1>3. ASSUME NEW r \in Requests, NEW a \in Accounts, disable(r, a) PROVE OffInv'
  <2> DEFINE q == Req("disable:clear", a, None, 0, NoPending, NoWarrant)
  <2>1. q.at \notin Busy
    BY DEF Req, Busy
  <2>2. \A b \in off : warrant'[b] \in {warrant[b], NoWarrant}
    BY <1>3 DEF disable, delete_poster_warrant, TypeOK
  <2> QED BY <1>3, <2>1, <2>2, OffLocal DEF disable, Begin
<1>4. ASSUME NEW r \in Requests, NEW a \in Accounts, submit(r, a) PROVE OffInv'
  <2> DEFINE q == Req("submit:identity", a, None, 0, NoPending, warrant[a])
  <2>1. q.at \notin Busy
    BY DEF Req, Busy
  <2> QED BY <1>4, <2>1, OffLocal DEF submit, Begin
<1>5. ASSUME NEW r \in Requests, EnableStep(r) PROVE OffInv'
  <2>1. CASE EnableReadPending(r)
    BY <2>1, OffMove DEF EnableReadPending, Busy
  <2>2. CASE EnableStorePending(r)
    BY <2>2, OffMove DEF EnableStorePending, Busy, TypeOK
  <2>3. CASE EnableFailed(r)
    BY <2>3, OffMove DEF EnableFailed
  <2> QED BY <1>5, <2>1, <2>2, <2>3 DEF EnableStep
<1>6. ASSUME NEW r \in Requests, PollStep(r) \/ PollBlank(r) PROVE OffInv'
  <2>1. CASE PollKeepWaiting(r)
    BY <2>1, OffMove DEF PollKeepWaiting
  <2>2. CASE PollApproved(r)
    BY <2>2, OffMove DEF PollApproved, Busy, TypeOK
  <2>3. CASE PollGiveUp(r)
    BY <2>3, OffMove DEF PollGiveUp, Busy
  <2>4. CASE PollClear(r)
    BY <2>4, OffMove DEF PollClear, clear_poster_pending, TypeOK
  <2>5. CASE PollBlank(r)
    BY <2>5, OffMove DEF PollBlank, Busy
  <2> QED BY <1>6, <2>1, <2>2, <2>3, <2>4, <2>5 DEF PollStep
<1>7. ASSUME NEW r \in Requests, DisableClear(r) PROVE OffInv'
  <2> DEFINE a == req[r].acct
  <2>1. /\ req' = [req EXCEPT ![r] = Idle(a)] /\ Idle(a).at \notin Busy /\ a \in Accounts
        /\ pending'[a] = NoPending /\ warrant' = warrant
    BY <1>7 DEF DisableClear, Finish, clear_poster_pending, Idle, Req, Busy, TypeOK, ReqRows
  <2>2. ASSUME NEW b \in off PROVE IsOff(b)'
    BY <1>7, <2>1, <2>2 DEF DisableClear, clear_poster_pending, OffInv, IsOff, TypeOK
  <2>3. ASSUME Undisturbed(r), NEW b, b = a PROVE IsOff(b)'
    <3>1. warrant'[b] = NoWarrant /\ pending'[b] = NoPending
      BY <2>1, <2>3 DEF Undisturbed
    <3>2. \A q \in Requests : req'[q].acct = b => req'[q].at \notin Busy
      BY <2>1, <2>3 DEF Undisturbed, Busy, TypeOK
    <3> QED BY <3>1, <3>2 DEF IsOff
  <2> QED BY <1>7, <2>2, <2>3 DEF DisableClear, OffInv
<1>8. ASSUME NEW r \in Requests, SubmitStep(r) PROVE OffInv'
  <2>1. CASE SubmitReadAccount(r)
    <3> DEFINE q == Req("submit:mint", req[r].acct, identity[req[r].acct], 0, NoPending, req[r].row)
    <3>1. q.at \notin Busy
      BY DEF Req, Busy
    <3> QED BY <2>1, <3>1, OffLocal, OffMove DEF SubmitReadAccount
  <2>2. CASE SubmitMinted(r)
    <3> DEFINE q == Req("submit:access", req[r].acct, req[r].user, now, NoPending, req[r].row)
    <3>1. q.at \notin Busy
      BY DEF Req, Busy
    <3> QED BY <2>2, <3>1, OffLocal DEF SubmitMinted
  <2>3. CASE SubmitAccessIssuer(r) \/ SubmitConfigIssuer(r)
    BY <2>3, OffMove DEF SubmitAccessIssuer, SubmitConfigIssuer, Busy
  <2>4. CASE SubmitSend(r) \/ SubmitFailed(r)
    BY <2>4, OffMove DEF SubmitSend, SubmitFailed, Busy
  <2>5. CASE SubmitForget(r)
    BY <2>5, OffMove DEF SubmitForget, delete_poster_warrant, TypeOK
  <2> QED BY <1>8, <2>1, <2>2, <2>3, <2>4, <2>5 DEF SubmitStep
<1>9. ASSUME UNCHANGED <<pending, warrant, req, off>> PROVE OffInv'
  BY <1>9 DEF OffInv, IsOff
<1>10. CASE \/ \E c \in Codes : BrokerApprove(c) \/ BrokerDrop(c) \/ BrokerRevoke(c)
            \/ \E a \in Accounts : Rename(a) \/ DeleteAccount(a) \/ Logout(a) \/ SignIn(a)
            \/ Tick \/ UNCHANGED vars
  BY <1>9, <1>10 DEF BrokerApprove, BrokerDrop, BrokerRevoke, Rename, DeleteAccount, Logout, SignIn, Tick, vars
<1> QED BY <1>1, <1>2, <1>3, <1>4, <1>5, <1>6, <1>7, <1>8, <1>10 DEF Next, Handling

\* After a disable that met no other handler, and until the next enable, status
\* answers that the poster is not enabled.
THEOREM DisableSafe == Spec => []DisableSticks
<1>1. Init => OffInv
  BY DEF Init, OffInv
<1>2. OffInv => DisableSticks
  BY DEF OffInv, IsOff, DisableSticks, status, NoWarrant
<1> QED BY TypeCorrect, OffNext, <1>1, <1>2, PTL DEF Spec

-----------------------------------------------------------------------------
(* The DNSSEC phase of submit.                                             *)

Refreshing == {"submit:access", "submit:config", "submit:send"}

\* While the phase of a request lasts less than the margin goes by, and a proof
\* that was ensured reaches as far as the margin from its beginning.
InPhase(q) ==
  /\ q.at \in Refreshing => q.since <= now /\ now <= q.since + DNSSEC_MARGIN
  /\ q.at \in {"submit:config", "submit:send"} => q.since + DNSSEC_MARGIN <= valid_until[OwnIssuer]
  /\ q.at = "submit:send" => q.since + DNSSEC_MARGIN <= valid_until[IssuerOf[q.row.grant.grantor]]

PhaseInv == \A r \in Requests : InPhase(req[r])

\* The warrant a write is signed with has a grantor, and he an issuer.
LEMMA GrantorIssuer ==
  ASSUME IInv, NEW r \in Requests, req[r].at \in Refreshing
  PROVE  IssuerOf[req[r].row.grant.grantor] \in Issuers
BY PosterAssumption DEF IInv, ReqInv, ReqSound, RowSound, Refreshing, Checked

\* No proof is replaced by one that ends earlier, and the one that is ensured
\* reaches the margin.
LEMMA ProofsGrow ==
  ASSUME TypeOK, NEW d \in Issuers, ensure_dnssec_fresh(d)
  PROVE  /\ \A e \in Issuers : valid_until[e] <= valid_until'[e]
         /\ now + DNSSEC_MARGIN <= valid_until'[d]
<1>1. /\ now \in Nat /\ DNSSEC_MARGIN \in Nat /\ PROOF_LIFE \in Nat /\ DNSSEC_MARGIN <= PROOF_LIFE
      /\ \A e \in Issuers : valid_until[e] \in Nat
  BY PosterAssumption DEF TypeOK, Times
<1>2. CASE valid_until[d] >= now + DNSSEC_MARGIN
  BY <1>1, <1>2 DEF ensure_dnssec_fresh
<1>3. CASE ~(valid_until[d] >= now + DNSSEC_MARGIN)
  <2>1. valid_until' = [valid_until EXCEPT ![d] = now + PROOF_LIFE]
    BY <1>3 DEF ensure_dnssec_fresh
  <2> QED BY <1>1, <1>3, <2>1 DEF TypeOK
<1> QED BY <1>2, <1>3

\* A request that stands still stays in its phase while proofs only grow.
LEMMA PhaseHolds ==
  ASSUME IInv, NEW r \in Requests, InPhase(req[r]), now' = now, req'[r] = req[r],
         \A e \in Issuers : valid_until[e] <= valid_until'[e], valid_until' \in [Issuers -> Times]
  PROVE  InPhase(req[r])'
<1>1. /\ req[r].since \in Nat /\ DNSSEC_MARGIN \in Nat
      /\ \A e \in Issuers : valid_until[e] \in Nat /\ valid_until'[e] \in Nat
  BY PosterAssumption DEF IInv, TypeOK, ReqRows, Times
<1>2. req[r].at = "submit:send" => IssuerOf[req[r].row.grant.grantor] \in Issuers
  BY GrantorIssuer DEF Refreshing
<1> QED BY <1>1, <1>2, PosterAssumption DEF InPhase

\* One request moves; proofs only grow.
LEMMA PhaseLocal ==
  ASSUME IInv, PhaseInv, NEW r \in Requests, NEW q,
         req' = [req EXCEPT ![r] = q], now' = now,
         q.at \in Refreshing => InPhase(req[r])',
         \A e \in Issuers : valid_until[e] <= valid_until'[e], valid_until' \in [Issuers -> Times]
  PROVE  PhaseInv'
<1>1. req'[r] = q
  BY DEF IInv, TypeOK
<1>2. InPhase(req[r])'
  BY <1>1 DEF InPhase, Refreshing
<1>3. ASSUME NEW x \in Requests, x # r PROVE InPhase(req[x])'
  <2>1. req'[x] = req[x] /\ InPhase(req[x])
    BY <1>3 DEF IInv, TypeOK, PhaseInv
  <2> QED BY <2>1, PhaseHolds
<1> QED BY <1>2, <1>3 DEF PhaseInv

\* Handlers before, after or outside the phase.
LEMMA PhaseElsewhere ==
  ASSUME IInv, PhaseInv, NEW r \in Requests, NEW q,
         req' = [req EXCEPT ![r] = q], UNCHANGED <<now, valid_until>>, q.at \notin Refreshing
  PROVE  PhaseInv'
<1>1. /\ valid_until' \in [Issuers -> Times]
      /\ \A e \in Issuers : valid_until[e] <= valid_until'[e]
  BY PosterAssumption DEF IInv, TypeOK, Times
<1> QED BY <1>1, PhaseLocal

\* A handler that ends, or moves on to a step outside the phase.
LEMMA PhaseMoves ==
  ASSUME IInv, PhaseInv, NEW r \in Requests, UNCHANGED <<now, valid_until>>,
         Finish(r) \/ \E p : Goto(r, p) /\ p \notin Refreshing
  PROVE  PhaseInv'
<1>1. CASE Finish(r)
  <2> DEFINE q == Idle(req[r].acct)
  <2>1. req' = [req EXCEPT ![r] = q]
    BY <1>1 DEF Finish
  <2>2. q.at \notin Refreshing
    BY DEF Idle, Req, Refreshing
  <2> HIDE DEF q
  <2> QED BY <2>1, <2>2, PhaseElsewhere
<1>2. ASSUME NEW p, Goto(r, p), p \notin Refreshing PROVE PhaseInv'
  <2> DEFINE q == Req(p, req[r].acct, req[r].user, req[r].since, req[r].pend, req[r].row)
  <2>1. req' = [req EXCEPT ![r] = q]
    BY <1>2 DEF Goto
  <2>2. q.at \notin Refreshing
    BY <1>2 DEF Req
  <2> HIDE DEF q
  <2> QED BY <2>1, <2>2, PhaseElsewhere
<1> QED BY <1>1, <1>2

\* No step of any process leads a request of the phase out of InPhase.
LEMMA PhaseNext == IInv /\ PhaseInv /\ [Next]_vars => PhaseInv'
<1> SUFFICES ASSUME IInv, PhaseInv, [Next]_vars PROVE PhaseInv'
  OBVIOUS
<1>0. TypeOK
  BY DEF IInv
<1>1. ASSUME NEW r \in Requests, NEW a \in Accounts, enable(r, a) \/ poll(r, a) \/ disable(r, a) \/ submit(r, a)
      PROVE  PhaseInv'
  <2>1. PICK q : req' = [req EXCEPT ![r] = q] /\ q.at \notin Refreshing
    BY <1>1 DEF enable, poll, disable, submit, Begin, Req, Refreshing
  <2>2. UNCHANGED <<now, valid_until>>
    BY <1>1 DEF enable, poll, disable, submit
  <2> QED BY <2>1, <2>2, PhaseElsewhere
<1>2. ASSUME NEW r \in Requests, EnableStep(r) \/ PollStep(r) \/ PollBlank(r) \/ DisableClear(r) PROVE PhaseInv'
  <2>1. UNCHANGED <<now, valid_until>>
    BY <1>2 DEF EnableStep, EnableReadPending, EnableStorePending, EnableFailed, PollStep, PollKeepWaiting,
                PollApproved, PollGiveUp, PollBlank, PollClear, DisableClear
  <2>2. Finish(r) \/ \E p : Goto(r, p) /\ p \notin Refreshing
    BY <1>2 DEF EnableStep, EnableReadPending, EnableStorePending, EnableFailed, PollStep, PollKeepWaiting,
                PollApproved, PollGiveUp, PollBlank, PollClear, DisableClear, Refreshing
  <2> QED BY <2>1, <2>2, PhaseMoves
<1>3. ASSUME NEW r \in Requests, SubmitStep(r) PROVE PhaseInv'
  <2>0. /\ InPhase(req[r]) /\ req[r] \in ReqRows /\ req[r].since \in Nat /\ now \in Nat
        /\ DNSSEC_MARGIN \in Nat /\ \A e \in Issuers : valid_until[e] \in Nat
    BY <1>0, PosterAssumption DEF PhaseInv, TypeOK, ReqRows, Times
  <2>1. CASE SubmitReadAccount(r)
    BY <2>1, PhaseElsewhere, PhaseMoves DEF SubmitReadAccount, Req, Refreshing
  <2>2. CASE SubmitMinted(r)
    <3> DEFINE q == Req("submit:access", req[r].acct, req[r].user, now, NoPending, req[r].row)
    <3>1. req'[r] = q /\ now' = now /\ valid_until' = valid_until
      BY <1>0, <2>2 DEF SubmitMinted, TypeOK
    <3>2. InPhase(req[r])'
      BY <2>0, <3>1 DEF InPhase, Req
    <3>3. \A e \in Issuers : valid_until[e] <= valid_until'[e]
      BY <2>0, <3>1
    <3> QED BY <1>0, <2>2, <3>1, <3>2, <3>3, PhaseLocal DEF SubmitMinted, TypeOK
  <2>3. CASE SubmitAccessIssuer(r)
    <3>1. /\ \A e \in Issuers : valid_until[e] <= valid_until'[e]
          /\ now + DNSSEC_MARGIN <= valid_until'[OwnIssuer] /\ valid_until' \in [Issuers -> Times]
      BY <1>0, <2>3, ProofsGrow, RefreshType, PosterAssumption DEF SubmitAccessIssuer
    <3>2. PICK p : /\ p \in {"submit:send", "submit:config"} /\ Goto(r, p)
                   /\ p = "submit:send" => IssuerOf[req[r].row.grant.grantor] = OwnIssuer
      BY <2>3 DEF SubmitAccessIssuer
    <3> DEFINE q == Req(p, req[r].acct, req[r].user, req[r].since, req[r].pend, req[r].row)
    <3>3. req'[r] = q /\ now' = now /\ req' = [req EXCEPT ![r] = q]
      BY <1>0, <2>3, <3>2 DEF Goto, TypeOK, SubmitAccessIssuer
    <3>4. req[r].since <= now /\ now <= req[r].since + DNSSEC_MARGIN
      BY <2>0, <2>3 DEF InPhase, Refreshing, SubmitAccessIssuer
    <3>5. valid_until'[OwnIssuer] \in Nat
      BY <3>1, PosterAssumption DEF Times
    <3>6. InPhase(req[r])'
      BY <2>0, <3>1, <3>2, <3>3, <3>4, <3>5 DEF InPhase, Req
    <3> HIDE DEF q
    <3> QED BY <3>1, <3>3, <3>6, PhaseLocal
  <2>4. CASE SubmitConfigIssuer(r)
    <3> DEFINE d == IssuerOf[req[r].row.grant.grantor]
               q == Req("submit:send", req[r].acct, req[r].user, req[r].since, req[r].pend, req[r].row)
    <3>0. d \in Issuers
      BY <2>4, GrantorIssuer DEF SubmitConfigIssuer, Refreshing
    <3>1. /\ \A e \in Issuers : valid_until[e] <= valid_until'[e]
          /\ now + DNSSEC_MARGIN <= valid_until'[d] /\ valid_until' \in [Issuers -> Times]
      BY <1>0, <2>4, <3>0, ProofsGrow, RefreshType DEF SubmitConfigIssuer
    <3>2. req'[r] = q /\ now' = now /\ req' = [req EXCEPT ![r] = q]
      BY <1>0, <2>4 DEF Goto, TypeOK, SubmitConfigIssuer
    <3>3. /\ req[r].since <= now /\ now <= req[r].since + DNSSEC_MARGIN
          /\ req[r].since + DNSSEC_MARGIN <= valid_until[OwnIssuer]
      BY <2>0, <2>4 DEF InPhase, Refreshing, SubmitConfigIssuer
    <3>4. /\ valid_until'[OwnIssuer] \in Nat /\ valid_until'[d] \in Nat /\ valid_until[OwnIssuer] \in Nat
          /\ valid_until[OwnIssuer] <= valid_until'[OwnIssuer]
      BY <2>0, <3>0, <3>1, PosterAssumption DEF Times
    <3>5. InPhase(req[r])'
      BY <2>0, <3>1, <3>2, <3>3, <3>4 DEF InPhase, Req
    <3> HIDE DEF q
    <3> QED BY <3>1, <3>2, <3>5, PhaseLocal
  <2>5. CASE SubmitSend(r) \/ SubmitFailed(r) \/ SubmitForget(r)
    BY <2>5, PhaseMoves DEF SubmitSend, SubmitFailed, SubmitForget, Refreshing
  <2> QED BY <1>3, <2>1, <2>2, <2>3, <2>4, <2>5 DEF SubmitStep
<1>4. ASSUME UNCHANGED <<req, valid_until, now>> PROVE PhaseInv'
  BY <1>4 DEF PhaseInv, InPhase
<1>5. CASE \/ \E c \in Codes : BrokerApprove(c) \/ BrokerDrop(c) \/ BrokerRevoke(c)
           \/ \E a \in Accounts : Rename(a) \/ DeleteAccount(a) \/ Logout(a) \/ SignIn(a)
           \/ UNCHANGED vars
  BY <1>4, <1>5 DEF BrokerApprove, BrokerDrop, BrokerRevoke, Rename, DeleteAccount, Logout, SignIn, vars
<1>6. CASE Tick
  <2> SUFFICES ASSUME NEW r \in Requests PROVE InPhase(req[r])'
    BY DEF PhaseInv
  <2>1. /\ now' = now + 1 /\ UNCHANGED <<req, valid_until>> /\ InPhase(req[r])
        /\ req[r].at \in Refreshing => now < req[r].since + DNSSEC_MARGIN
    BY <1>6 DEF Tick, PhaseInv, Refreshing
  <2>2. req[r].since \in Nat /\ now \in Nat /\ DNSSEC_MARGIN \in Nat
    BY <1>0, PosterAssumption DEF TypeOK, ReqRows
  <2> QED BY <2>1, <2>2 DEF InPhase
<1> QED BY <1>1, <1>2, <1>3, <1>5, <1>6 DEF Next, Handling

\* When a write is sent the proofs of both issuers in its presentation are valid.
THEOREM SendSafe == Spec => []ProofsFreshAtSend
<1>1. Init => PhaseInv
  BY DEF Init, PhaseInv, InPhase, Idle, Req, Refreshing
<1>2. IInv /\ PhaseInv => ProofsFreshAtSend
  <2> SUFFICES ASSUME IInv, PhaseInv, NEW r \in Requests, req[r].at = "submit:send",
                      NEW d \in {OwnIssuer, IssuerOf[req[r].row.grant.grantor]}
               PROVE  valid_until[d] >= now
    BY DEF ProofsFreshAtSend
  <2>1. d \in Issuers
    BY GrantorIssuer, PosterAssumption DEF Refreshing
  <2>2. /\ valid_until[d] \in Nat /\ now \in Nat /\ DNSSEC_MARGIN \in Nat /\ req[r].since \in Nat
    BY <2>1, PosterAssumption DEF IInv, TypeOK, ReqRows, Times
  <2>3. now <= req[r].since + DNSSEC_MARGIN /\ req[r].since + DNSSEC_MARGIN <= valid_until[d]
    BY DEF PhaseInv, InPhase, Refreshing
  <2> QED BY <2>2, <2>3
<1> QED BY InitInv, NextInv, PhaseNext, <1>1, <1>2, PTL DEF Spec
=============================================================================
