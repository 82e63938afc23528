------------------------- MODULE IdpAccountsProofs -------------------------
(***************************************************************************)
(* Proofs about IdpAccounts, for any sets of emails, names, requests and   *)
(* session ids and any bounds.                                             *)
(***************************************************************************)
EXTENDS IdpAccounts, TLAPS

\* Only ids that were handed out have a row, and only a row has a handle or a mode.
RowTypes == \A i \in Ids :
  /\ external_email[i] # None => i <= last_id
  /\ external_email[i] = None => handle[i] = None /\ identity_mode[i] = None

TypeInv == StoreTypes /\ StepTypes /\ SessionTypes /\ RowTypes

\* What find_or_create_account(e, i) leaves: the tables keep their types, ids
\* only grow, and the row it answers for exists and carries the email.
AccountsAfter(e, i) ==
  /\ external_email' \in [Ids -> Emails \cup {None}]
  /\ handle' \in [Ids -> Names \cup {None}]
  /\ identity_mode' \in [Ids -> Modes \cup {None}]
  /\ last_id' \in last_id..MaxAccounts
  /\ external_email'[i] = e /\ i <= last_id'
  /\ \A j \in Ids \ {i} : /\ external_email'[j] = external_email[j]
                         /\ handle'[j] = handle[j]
                         /\ identity_mode'[j] = identity_mode[j]
  /\ \/ UNCHANGED accounts
     \/ /\ i > last_id /\ external_email[i] = None
        /\ handle'[i] = None /\ identity_mode'[i] = None

\* find_or_create_account does what AccountsAfter says, whether it finds the
\* row or inserts it.
LEMMA FindOrCreateEffect ==
  ASSUME TypeInv, NEW e \in Emails, NEW i \in Ids, find_or_create_account(e, i)
  PROVE  AccountsAfter(e, i)
<1> USE ConstantsAssumption DEF TypeInv, StoreTypes, RowTypes, Ids, accounts, Modes, AccountsAfter
<1>1. CASE external_email[i] = e /\ UNCHANGED accounts
  BY <1>1
<1>2. CASE external_email[i] # e
  <2>1. /\ i = last_id + 1
        /\ external_email' = [external_email EXCEPT ![i] = e]
        /\ handle' = [handle EXCEPT ![i] = None]
        /\ identity_mode' = [identity_mode EXCEPT ![i] = None]
        /\ last_id' = i
    BY <1>2 DEF find_or_create_account, NextId
  <2>2. external_email[i] = None
    BY <2>1
  <2>3. QED
    BY <2>1, <2>2
<1>3. QED
  BY <1>1, <1>2 DEF find_or_create_account

\* Every variable keeps its type, a request in flight carries the id of an
\* account that was created, and a row that does not exist has no handle and
\* no mode.
LEMMA TypeInvariant == Spec => []TypeInv
<1> USE ConstantsAssumption DEF Ids, Modes, Steps, TypeInv, StepTypes, SessionTypes, RowTypes
<1>1. Init => TypeInv
  BY DEF Init, StoreTypes, Idle
<1>2. TypeInv /\ [Next]_vars => TypeInv'
  <2> SUFFICES ASSUME TypeInv, [Next]_vars PROVE TypeInv'
    OBVIOUS
  <2> USE DEF accounts, agents, sessions, Begin, Goto, Finish, At, Idle, StoreTypes
  <2>1. ASSUME NEW r \in Requests, SessionFindAccount(r) PROVE TypeInv'
    <3>1. PICK raw \in RawEmails, i \in Ids :
             /\ find_or_create_account(LowerEmail[raw], i)
             /\ req' = [req EXCEPT ![r] = At("session:create", i, None, LowerEmail[raw])]
             /\ UNCHANGED <<agents, sessions, now>>
      BY <2>1 DEF SessionFindAccount
    <3>2. LowerEmail[raw] \in Emails
      OBVIOUS
    <3>3. AccountsAfter(LowerEmail[raw], i)
      BY <3>1, <3>2, FindOrCreateEffect
    <3>4. StoreTypes'
      BY <3>1, <3>2, <3>3 DEF AccountsAfter
    <3>5. StepTypes'
      BY <3>1, <3>2, <3>3 DEF AccountsAfter
    <3>6. SessionTypes'
      BY <3>1, <3>3 DEF AccountsAfter
    <3>7. RowTypes'
      BY <3>2, <3>3 DEF AccountsAfter
    <3>8. QED
      BY <3>4, <3>5, <3>6, <3>7
  <2>2. ASSUME NEW r \in Requests, use_external(r) PROVE TypeInv'
    <3>1. PICK s \in SessionIds, i \in Ids :
             /\ sess_account[s] = i
             /\ req' = [req EXCEPT ![r] = At("external:mode", i, None, None)]
      BY <2>2 DEF use_external, account_for_session
    <3>2. UNCHANGED <<accounts, agents, sessions, now>>
      BY <2>2 DEF use_external
    <3>3. QED
      BY <3>1, <3>2
  <2>3. ASSUME NEW r \in Requests, claim_handle(r) PROVE TypeInv'
    BY <2>3 DEF claim_handle, account_for_session
  <2>4. ASSUME NEW r \in Requests, admin_seed(r) PROVE TypeInv'
    <3>1. PICK raw \in RawEmails, rawname \in RawNames, i \in Ids :
             /\ Canon[rawname] # None
             /\ find_or_create_account(LowerEmail[raw], i)
             /\ req' = [req EXCEPT ![r] = At("seed:set", i, Canon[rawname], LowerEmail[raw])]
             /\ UNCHANGED <<agents, sessions, now>>
      BY <2>4 DEF admin_seed
    <3>2. LowerEmail[raw] \in Emails /\ Canon[rawname] \in Names
      BY <3>1
    <3>3. AccountsAfter(LowerEmail[raw], i)
      BY <3>1, <3>2, FindOrCreateEffect
    <3>4. StoreTypes'
      BY <3>1, <3>2, <3>3 DEF AccountsAfter
    <3>5. StepTypes'
      BY <3>1, <3>2, <3>3 DEF AccountsAfter
    <3>6. SessionTypes'
      BY <3>1, <3>3 DEF AccountsAfter
    <3>7. RowTypes'
      BY <3>2, <3>3 DEF AccountsAfter
    <3>8. QED
      BY <3>4, <3>5, <3>6, <3>7
  <2>5. ASSUME NEW r \in Requests, logout(r) PROVE TypeInv'
    BY <2>5 DEF logout, account_for_session
  <2>6. ASSUME NEW r \in Requests, create_session(r) PROVE TypeInv'
    BY <2>6 DEF create_session
  <2>7. ASSUME NEW r \in Requests, UseExternalSetMode(r) PROVE TypeInv'
    BY <2>7 DEF UseExternalSetMode, set_identity_mode
  <2>8. ASSUME NEW r \in Requests, ClaimSetHandle(r) PROVE TypeInv'
    <3>1. req[r].id \in Ids /\ req[r].id \in 1..last_id /\ req[r].name \in Names
      BY <2>8 DEF ClaimSetHandle
    <3>2. handle' \in [Ids -> Names \cup {None}]
      BY <2>8, <3>1 DEF ClaimSetHandle, set_handle
    <3>3. \A i \in Ids : external_email[i] = None => handle'[i] = handle[i]
      BY <2>8, <3>1 DEF ClaimSetHandle, set_handle
    <3>0. \/ req' = [req EXCEPT ![r] = At("claim:mode", req[r].id, req[r].name, None)]
          \/ req' = [req EXCEPT ![r] = Idle]
      BY <2>8 DEF ClaimSetHandle
    <3>4. /\ req' \in [Requests -> [at : Steps, id : 0..MaxAccounts,
                             name : Names \cup {None}, email : Emails \cup {None}]]
          /\ \A q \in Requests \ {r} : req'[q] = req[q]
          /\ req'[r].at \in {"idle", "claim:mode"}
          /\ req'[r].at = "claim:mode" => req'[r].id = req[r].id /\ req'[r].name = req[r].name
      <4>1. CASE req' = [req EXCEPT ![r] = Idle]
        BY <4>1
      <4>2. CASE req' = [req EXCEPT ![r] = At("claim:mode", req[r].id, req[r].name, None)]
        BY <4>2, <3>1
      <4>3. QED
        BY <3>0, <4>1, <4>2
    <3>5. UNCHANGED <<external_email, identity_mode, last_id, agents, sessions, now>>
      BY <2>8 DEF ClaimSetHandle
    <3>6. StoreTypes'
      BY <3>2, <3>4, <3>5
    <3>7. StepTypes'
      <4> SUFFICES ASSUME NEW q \in Requests PROVE StepTypes!(q)'
        OBVIOUS
      <4>1. CASE q = r
        BY <4>1, <3>1, <3>4, <3>5
      <4>2. CASE q # r
        BY <4>2, <3>4, <3>5
      <4>3. QED
        BY <4>1, <4>2
    <3>8. SessionTypes' /\ RowTypes'
      BY <3>3, <3>5
    <3>9. QED
      BY <3>6, <3>7, <3>8
  <2>9. ASSUME NEW r \in Requests, ClaimSetMode(r) PROVE TypeInv'
    BY <2>9 DEF ClaimSetMode, set_identity_mode
  <2>10. ASSUME NEW r \in Requests, SeedSetHandle(r) PROVE TypeInv'
    <3>1. req[r].id \in Ids /\ req[r].name \in Names
      BY <2>10 DEF SeedSetHandle
    <3>2. handle' \in [Ids -> Names \cup {None}]
      BY <2>10, <3>1 DEF SeedSetHandle, set_handle
    <3>3. \A i \in Ids : external_email[i] = None => handle'[i] = handle[i]
      BY <2>10, <3>1 DEF SeedSetHandle, set_handle
    <3>0. req' = [req EXCEPT ![r] = Idle]
      BY <2>10 DEF SeedSetHandle
    <3>4. /\ req' \in [Requests -> [at : Steps, id : 0..MaxAccounts,
                             name : Names \cup {None}, email : Emails \cup {None}]]
          /\ \A q \in Requests \ {r} : req'[q] = req[q]
          /\ req'[r].at \in {"idle", "claim:mode"}
          /\ req'[r].at = "claim:mode" => req'[r].id = req[r].id /\ req'[r].name = req[r].name
      BY <3>0
    <3>5. UNCHANGED <<external_email, identity_mode, last_id, agents, sessions, now>>
      BY <2>10 DEF SeedSetHandle
    <3>6. StoreTypes'
      BY <3>2, <3>4, <3>5
    <3>7. StepTypes'
      <4> SUFFICES ASSUME NEW q \in Requests PROVE StepTypes!(q)'
        OBVIOUS
      <4>1. CASE q = r
        BY <4>1, <3>0, <3>1, <3>5
      <4>2. CASE q # r
        BY <4>2, <3>4, <3>5
      <4>3. QED
        BY <4>1, <4>2
    <3>8. SessionTypes' /\ RowTypes'
      BY <3>3, <3>5
    <3>9. QED
      BY <3>6, <3>7, <3>8
  <2>11. ASSUME NEW r \in Requests, LogoutDeleteSessions(r) PROVE TypeInv'
    BY <2>11 DEF LogoutDeleteSessions, delete_account_sessions
  <2>12. CASE admin_delete_account
    <3>1. PICK i \in Ids :
             /\ external_email' = [external_email EXCEPT ![i] = None]
             /\ handle' = [handle EXCEPT ![i] = None]
             /\ identity_mode' = [identity_mode EXCEPT ![i] = None]
             /\ sess_account' = [s \in SessionIds |->
                                  IF sess_account[s] = i THEN 0 ELSE sess_account[s]]
             /\ UNCHANGED <<last_id, agents, created_at, signed_in, req, now>>
      BY <2>12 DEF admin_delete_account, delete_account_sessions
    <3>2. StoreTypes'
      BY <3>1
    <3>3. StepTypes' /\ SessionTypes'
      BY <3>1
    <3>4. RowTypes'
      BY <3>1
    <3>5. QED
      BY <3>2, <3>3, <3>4
  <2>13. CASE PruneExpired
    <3>1. PICK s \in SessionIds : sess_account' = [sess_account EXCEPT ![s] = 0]
      BY <2>13 DEF PruneExpired
    <3>2. UNCHANGED <<accounts, agents, created_at, signed_in, req, now>>
      BY <2>13 DEF PruneExpired
    <3>3. QED
      BY <3>1, <3>2
  <2>14. CASE create_agent_identity
    BY <2>14 DEF create_agent_identity
  <2>15. CASE revoke_agent_identity
    BY <2>15 DEF revoke_agent_identity
  <2>16. CASE Tick
    BY <2>16 DEF Tick
  <2>17. CASE UNCHANGED vars
    BY <2>17 DEF vars
  <2>18. QED
    BY <2>1, <2>2, <2>3, <2>4, <2>5, <2>6, <2>7, <2>8, <2>9, <2>10, <2>11,
       <2>12, <2>13, <2>14, <2>15, <2>16, <2>17 DEF Next, Continue
<1>3. QED
  BY <1>1, <1>2, PTL DEF Spec

\* Every variable keeps its type, whatever requests interleave: in particular the
\* id a handler carries from one Store call to the next is one the store gave out.
THEOREM TypeCorrect == Spec => []TypeOK
<1>1. TypeInv => TypeOK
  BY DEF TypeInv, TypeOK
<1> QED BY TypeInvariant, <1>1, PTL

-----------------------------------------------------------------------------
\* The four ways a step may change who holds which name.
NamesStep ==
  \/ UNCHANGED <<handle, agent_account>>
  \/ \E i \in Ids : /\ handle' = [handle EXCEPT ![i] = None]
                    /\ UNCHANGED agent_account
  \/ \E i \in Ids, n \in Names : /\ handle_available(i, n)
                                /\ handle' = [handle EXCEPT ![i] = n]
                                /\ UNCHANGED agent_account
  \/ \E i \in Ids, n \in Names : /\ agent_account[n] = 0
                                /\ \A j \in Ids : handle[j] # n
                                /\ agent_account' = [agent_account EXCEPT ![n] = i]
                                /\ UNCHANGED handle

\* Every step of every handler changes the two name tables in one of them.
LEMMA StepNames == TypeInv /\ [Next]_vars => NamesStep
<1> SUFFICES ASSUME TypeInv, [Next]_vars PROVE NamesStep
  OBVIOUS
<1> USE ConstantsAssumption DEF accounts, agents, sessions, TypeInv, StoreTypes, Ids
<1>1. ASSUME NEW r \in Requests, SessionFindAccount(r) \/ admin_seed(r) PROVE NamesStep
  BY <1>1 DEF SessionFindAccount, admin_seed, find_or_create_account, NamesStep
<1>2. ASSUME NEW r \in Requests, ClaimSetHandle(r) \/ SeedSetHandle(r) PROVE NamesStep
  <2>1. req[r].id \in Ids /\ req[r].name \in Names
    BY <1>2 DEF ClaimSetHandle, SeedSetHandle, StepTypes
  <2>2. UNCHANGED agent_account
    BY <1>2 DEF ClaimSetHandle, SeedSetHandle
  <2>3. \/ UNCHANGED handle
        \/ /\ handle_available(req[r].id, req[r].name)
           /\ handle' = [handle EXCEPT ![req[r].id] = req[r].name]
    BY <1>2 DEF ClaimSetHandle, SeedSetHandle, set_handle
  <2>4. QED
    BY <2>1, <2>2, <2>3 DEF NamesStep
<1>3. CASE admin_delete_account
  BY <1>3 DEF admin_delete_account, NamesStep
<1>4. CASE create_agent_identity
  BY <1>4 DEF create_agent_identity, NamesStep
<1>5. ASSUME NEW r \in Requests,
             use_external(r) \/ claim_handle(r) \/ logout(r) \/ create_session(r)
               \/ UseExternalSetMode(r) \/ ClaimSetMode(r) \/ LogoutDeleteSessions(r)
      PROVE  NamesStep
  BY <1>5 DEF use_external, claim_handle, logout, create_session, UseExternalSetMode,
              ClaimSetMode, LogoutDeleteSessions, NamesStep
<1>6. CASE PruneExpired \/ revoke_agent_identity \/ Tick
  BY <1>6 DEF PruneExpired, revoke_agent_identity, Tick, NamesStep
<1>7. CASE UNCHANGED vars
  BY <1>7 DEF vars, NamesStep
<1>8. QED
  BY <1>1, <1>2, <1>3, <1>4, <1>5, <1>6, <1>7 DEF Next, Continue

\* No name is ever held twice, neither by two accounts nor by an account and an
\* agent, however the handlers of any number of requests interleave.
THEOREM NamespaceSafe == Spec => []OneNamespace
<1>1. Init => OneNamespace
  BY ConstantsAssumption DEF Init, OneNamespace, Ids
<1>2. TypeInv /\ NamesStep /\ OneNamespace => OneNamespace'
  <2> SUFFICES ASSUME TypeInv, NamesStep, OneNamespace PROVE OneNamespace'
    OBVIOUS
  <2> USE ConstantsAssumption DEF TypeInv, StoreTypes, OneNamespace
  <2>1. CASE UNCHANGED <<handle, agent_account>>
    BY <2>1
  <2>2. ASSUME NEW i \in Ids, handle' = [handle EXCEPT ![i] = None], UNCHANGED agent_account
        PROVE  OneNamespace'
    BY <2>2
  <2>3. ASSUME NEW i \in Ids, NEW n \in Names, handle_available(i, n),
               handle' = [handle EXCEPT ![i] = n], UNCHANGED agent_account
        PROVE  OneNamespace'
    BY <2>3 DEF handle_available
  <2>4. ASSUME NEW i \in Ids, NEW n \in Names, \A j \in Ids : handle[j] # n,
               agent_account' = [agent_account EXCEPT ![n] = i], UNCHANGED handle
        PROVE  OneNamespace'
    BY <2>4
  <2>5. QED
    BY <2>1, <2>2, <2>3, <2>4 DEF NamesStep
<1>3. QED
  BY <1>1, <1>2, StepNames, TypeInvariant, PTL DEF Spec

\* The initial tables give every name to nobody, as the registry begins.
LEMMA RegistryInit == Init => Registry!Init
BY ConstantsAssumption DEF Init, Registry!Init, Registry!Free, HolderOf

\* A change of the two tables is a step of the registry or none.
LEMMA RegistryStep ==
  ASSUME TypeInv, OneNamespace, NamesStep
  PROVE  [Registry!Next]_([n \in Names |-> HolderOf(n)])
<1> DEFINE H == [n \in Names |-> HolderOf(n)]
           H1 == [n \in Names |-> HolderOf(n)']
<1>a. H' = H1
  OBVIOUS
<1> USE ConstantsAssumption DEF TypeInv, StoreTypes
<1> USE DEF Registry!Next, Registry!Free, Registry!Human, Registry!Agent
<1>1. CASE UNCHANGED <<handle, agent_account>>
  BY <1>1 DEF HolderOf
<1>2. ASSUME NEW i \in Ids, handle' = [handle EXCEPT ![i] = None], UNCHANGED agent_account
      PROVE  Registry!Remove(i)
  BY <1>2 DEF HolderOf, OneNamespace, Registry!Remove
<1>3. ASSUME NEW i \in Ids, NEW n \in Names, handle_available(i, n),
             handle' = [handle EXCEPT ![i] = n], UNCHANGED agent_account
      PROVE  [Registry!Next]_H
  <2>1. CASE handle[i] = n
    <3>1. UNCHANGED <<handle, agent_account>>
      BY <1>3, <2>1
    <3>2. QED
      BY <1>1, <3>1
  <2>2. CASE handle[i] # n
    <3>1. HolderOf(n) = Registry!Free
      BY <1>3, <2>2 DEF HolderOf, handle_available
    <3>2. HolderOf(n)' = Registry!Human(i)
      BY <1>3 DEF HolderOf, handle_available
    <3>3. ASSUME NEW m \in Names, m # n
          PROVE  HolderOf(m)' = IF HolderOf(m) = Registry!Human(i)
                                THEN Registry!Free ELSE HolderOf(m)
      BY <1>3, <3>3 DEF HolderOf, OneNamespace
    <3>4. H' = [m \in Names |-> IF m = n THEN Registry!Human(i)
                               ELSE IF H[m] = Registry!Human(i) THEN Registry!Free ELSE H[m]]
      BY <3>2, <3>3
    <3>5. Registry!Claim(i, n)
      BY <3>1, <3>4 DEF Registry!Claim
    <3>6. QED
      BY <3>5
  <2>3. QED
    BY <2>1, <2>2
<1>4. ASSUME NEW i \in Ids, NEW n \in Names, agent_account[n] = 0, \A j \in Ids : handle[j] # n,
             agent_account' = [agent_account EXCEPT ![n] = i], UNCHANGED handle
      PROVE  Registry!Enrol(i, n)
  <2>1. HolderOf(n) = Registry!Free
    BY <1>4 DEF HolderOf
  <2>2. HolderOf(n)' = Registry!Agent(i)
    BY <1>4 DEF HolderOf, Ids
  <2>3. ASSUME NEW m \in Names, m # n PROVE HolderOf(m)' = HolderOf(m)
    BY <1>4, <2>3 DEF HolderOf
  <2>4. H' = [H EXCEPT ![n] = Registry!Agent(i)]
    BY <2>2, <2>3
  <2>5. QED
    BY <2>1, <2>4 DEF Registry!Enrol
<1>5. QED
  BY <1>1, <1>2, <1>3, <1>4 DEF NamesStep

\* The store and its handlers implement the name registry: behind two tables,
\* two kinds of holder and interleaved requests there is one table in which a
\* name changes hands only through being free, and agent names stay for good.
THEOREM RegistryRefined == Spec => RegistryImplemented
<1>1. TypeInv /\ OneNamespace /\ [Next]_vars
        => [Registry!Next]_([n \in Names |-> HolderOf(n)])
  BY StepNames, RegistryStep
<1>2. QED
  BY <1>1, RegistryInit, TypeInvariant, NamespaceSafe, PTL
     DEF Spec, RegistryImplemented, Registry!Spec

-----------------------------------------------------------------------------
\* SessionResolvesToSigner is not inductive: a sign-in that has its account and
\* not yet its session must also not have lost the account to somebody else.
SignerInv ==
  /\ SessionResolvesToSigner
  /\ \A r \in Requests :
       req[r].at = "session:create" => external_email[req[r].id] \in {req[r].email, None}

\* Whatever accounts come and go, a session stands for the email that signed
\* in.  The proof rests on AUTOINCREMENT: a new row has an id above every id
\* that a session or a request in flight can hold.
THEOREM SessionSafe == Spec => []SessionResolvesToSigner
<1> USE ConstantsAssumption
<1>1. Init => SignerInv
  BY DEF Init, SignerInv, SessionResolvesToSigner, Idle, Ids
<1>2. TypeInv /\ SignerInv /\ [Next]_vars => SignerInv'
  <2> SUFFICES ASSUME TypeInv, SignerInv, [Next]_vars PROVE SignerInv'
    OBVIOUS
  <2> USE DEF TypeInv, StoreTypes, SignerInv, SessionResolvesToSigner, Ids,
              accounts, agents, sessions, Begin, Goto, Finish, At, Idle
  <2>1. ASSUME NEW r \in Requests, NEW e \in Emails, NEW i \in Ids, NEW n \in Names \cup {None},
               find_or_create_account(e, i), UNCHANGED sessions,
               \E step \in {"session:create", "seed:set"} :
                 req' = [req EXCEPT ![r] = At(step, i, n, e)]
        PROVE  SignerInv'
    <3>1. AccountsAfter(e, i)
      BY <2>1, FindOrCreateEffect
    <3>2. ASSUME NEW j \in Ids, j <= last_id PROVE external_email'[j] = external_email[j]
      BY <3>1, <3>2 DEF AccountsAfter
    <3>3. SessionResolvesToSigner'
      BY <2>1, <3>2 DEF SessionTypes
    <3>4. ASSUME NEW q \in Requests, req'[q].at = "session:create"
          PROVE  external_email'[req'[q].id] \in {req'[q].email, None}
      <4>1. CASE q = r
        BY <2>1, <3>1, <4>1 DEF AccountsAfter
      <4>2. CASE q # r
        <5>1. req'[q] = req[q]
          BY <2>1, <4>2
        <5>2. req[q].id \in Ids /\ req[q].id <= last_id
          BY <3>4, <5>1 DEF StepTypes
        <5>3. QED
          BY <3>2, <3>4, <5>1, <5>2
      <4>3. QED
        BY <4>1, <4>2
    <3>5. QED
      BY <3>3, <3>4
  <2>2. ASSUME NEW r \in Requests, SessionFindAccount(r) PROVE SignerInv'
    <3>1. PICK raw \in RawEmails, i \in Ids :
             /\ find_or_create_account(LowerEmail[raw], i)
             /\ req' = [req EXCEPT ![r] = At("session:create", i, None, LowerEmail[raw])]
             /\ UNCHANGED sessions
      BY <2>2 DEF SessionFindAccount
    <3>2. LowerEmail[raw] \in Emails
      OBVIOUS
    <3>3. QED
      BY <2>1, <3>1, <3>2
  <2>3. ASSUME NEW r \in Requests, admin_seed(r) PROVE SignerInv'
    <3>1. PICK raw \in RawEmails, rawname \in RawNames, i \in Ids :
             /\ Canon[rawname] # None
             /\ find_or_create_account(LowerEmail[raw], i)
             /\ req' = [req EXCEPT ![r] = At("seed:set", i, Canon[rawname], LowerEmail[raw])]
             /\ UNCHANGED sessions
      BY <2>3 DEF admin_seed
    <3>2. LowerEmail[raw] \in Emails /\ Canon[rawname] \in Names
      BY <3>1
    <3>3. QED
      BY <2>1, <3>1, <3>2
  <2>4. ASSUME NEW r \in Requests, create_session(r) PROVE SignerInv'
    <3>1. PICK s \in SessionIds :
             /\ sess_account' = [sess_account EXCEPT ![s] = req[r].id]
             /\ signed_in' = [signed_in EXCEPT ![s] = req[r].email]
      BY <2>4 DEF create_session
    <3>2. UNCHANGED external_email /\ req[r].at = "session:create" /\ req' = [req EXCEPT ![r] = Idle]
      BY <2>4 DEF create_session
    <3>3. QED
      BY <3>1, <3>2
  <2>5. ASSUME NEW r \in Requests, use_external(r) \/ claim_handle(r) \/ logout(r)
        PROVE  SignerInv'
    <3>1. /\ UNCHANGED <<external_email, sess_account, signed_in>>
          /\ req'[r].at # "session:create"
          /\ \A q \in Requests \ {r} : req'[q] = req[q]
      BY <2>5 DEF use_external, claim_handle, logout
    <3>2. QED
      BY <3>1
  <2>6. ASSUME NEW r \in Requests,
               UseExternalSetMode(r) \/ ClaimSetHandle(r) \/ ClaimSetMode(r) \/ SeedSetHandle(r)
        PROVE  SignerInv'
    <3>1. /\ UNCHANGED <<external_email, sess_account, signed_in>>
          /\ req'[r].at # "session:create"
          /\ \A q \in Requests \ {r} : req'[q] = req[q]
      BY <2>6 DEF UseExternalSetMode, ClaimSetHandle, ClaimSetMode, SeedSetHandle
    <3>2. QED
      BY <3>1
  <2>7. ASSUME NEW r \in Requests, LogoutDeleteSessions(r) PROVE SignerInv'
    BY <2>7 DEF LogoutDeleteSessions, delete_account_sessions
  <2>8. CASE admin_delete_account
    BY <2>8 DEF admin_delete_account, delete_account_sessions
  <2>9. CASE PruneExpired
    BY <2>9 DEF PruneExpired
  <2>10. CASE create_agent_identity \/ revoke_agent_identity \/ Tick
    BY <2>10 DEF create_agent_identity, revoke_agent_identity, Tick
  <2>11. CASE UNCHANGED vars
    BY <2>11 DEF vars
  <2>12. QED
    BY <2>2, <2>3, <2>4, <2>5, <2>6, <2>7, <2>8, <2>9, <2>10, <2>11 DEF Next, Continue
<1>3. SignerInv => SessionResolvesToSigner
  BY DEF SignerInv
<1>4. QED
  BY <1>1, <1>2, <1>3, TypeInvariant, PTL DEF Spec

-----------------------------------------------------------------------------
\* The inductive form of ModeHasHandle: a claim between its two writes works
\* for an account that is gone or holds a handle.
ModeInv ==
  /\ ModeHasHandle
  /\ \A r \in Requests :
       req[r].at = "claim:mode" => \/ external_email[req[r].id] = None
                                  \/ handle[req[r].id] # None

\* An account recorded as shown by its handle always has a handle, although
\* claim_handle writes the two columns in separate transactions.
THEOREM ModeSafe == Spec => []ModeHasHandle
<1> USE ConstantsAssumption
<1>1. Init => ModeInv
  BY DEF Init, ModeInv, ModeHasHandle, Idle, Ids
<1>2. TypeInv /\ ModeInv /\ [Next]_vars => ModeInv'
  <2> SUFFICES ASSUME TypeInv, ModeInv, [Next]_vars PROVE ModeInv'
    OBVIOUS
  <2> USE DEF TypeInv, StoreTypes, ModeInv, ModeHasHandle, Ids, Modes,
              accounts, agents, sessions, Begin, Goto, Finish, At, Idle
  <2>1. ASSUME NEW r \in Requests, NEW e \in Emails, NEW i \in Ids,
               find_or_create_account(e, i),
               req'[r].at # "claim:mode", \A q \in Requests \ {r} : req'[q] = req[q]
        PROVE  ModeInv'
    <3>1. AccountsAfter(e, i)
      BY <2>1, FindOrCreateEffect
    <3>2. ASSUME NEW j \in Ids, j <= last_id
          PROVE  external_email'[j] = external_email[j] /\ handle'[j] = handle[j]
      BY <3>1, <3>2 DEF AccountsAfter
    <3>3. ModeHasHandle'
      BY <3>1 DEF AccountsAfter
    <3>4. ASSUME NEW q \in Requests, req'[q].at = "claim:mode"
          PROVE  external_email'[req'[q].id] = None \/ handle'[req'[q].id] # None
      <4>1. req'[q] = req[q]
        BY <2>1, <3>4
      <4>2. req[q].id \in Ids /\ req[q].id <= last_id
        BY <3>4, <4>1 DEF StepTypes
      <4>3. QED
        BY <3>2, <3>4, <4>1, <4>2
    <3>5. QED
      BY <3>3, <3>4
  <2>2. ASSUME NEW r \in Requests, SessionFindAccount(r) PROVE ModeInv'
    <3>1. PICK raw \in RawEmails, i \in Ids :
             /\ find_or_create_account(LowerEmail[raw], i)
             /\ req' = [req EXCEPT ![r] = At("session:create", i, None, LowerEmail[raw])]
      BY <2>2 DEF SessionFindAccount
    <3>2. LowerEmail[raw] \in Emails
      OBVIOUS
    <3>3. QED
      BY <2>1, <3>1, <3>2
  <2>3. ASSUME NEW r \in Requests, admin_seed(r) PROVE ModeInv'
    <3>1. PICK raw \in RawEmails, rawname \in RawNames, i \in Ids :
             /\ find_or_create_account(LowerEmail[raw], i)
             /\ req' = [req EXCEPT ![r] = At("seed:set", i, Canon[rawname], LowerEmail[raw])]
      BY <2>3 DEF admin_seed
    <3>2. LowerEmail[raw] \in Emails
      OBVIOUS
    <3>3. QED
      BY <2>1, <3>1, <3>2
  <2>4. ASSUME NEW r \in Requests,
               use_external(r) \/ claim_handle(r) \/ logout(r) \/ create_session(r)
                 \/ LogoutDeleteSessions(r)
        PROVE  ModeInv'
    <3>1. /\ UNCHANGED <<external_email, handle, identity_mode>>
          /\ req'[r].at # "claim:mode"
          /\ \A q \in Requests \ {r} : req'[q] = req[q]
      BY <2>4 DEF use_external, claim_handle, logout, create_session, LogoutDeleteSessions
    <3>2. QED
      BY <3>1
  <2>5. ASSUME NEW r \in Requests, UseExternalSetMode(r) PROVE ModeInv'
    BY <2>5 DEF UseExternalSetMode, set_identity_mode
  <2>6. ASSUME NEW r \in Requests, ClaimSetMode(r) PROVE ModeInv'
    BY <2>6 DEF ClaimSetMode, set_identity_mode
  <2>7. ASSUME NEW r \in Requests, ClaimSetHandle(r) \/ SeedSetHandle(r) PROVE ModeInv'
    <3>1. req[r].id \in Ids /\ req[r].name \in Names
      BY <2>7 DEF ClaimSetHandle, SeedSetHandle, StepTypes
    <3>2. /\ UNCHANGED <<external_email, identity_mode>>
          /\ \A q \in Requests \ {r} : req'[q] = req[q]
      BY <2>7 DEF ClaimSetHandle, SeedSetHandle
    <3>3. \A j \in Ids : handle[j] # None => handle'[j] # None
      BY <2>7, <3>1 DEF ClaimSetHandle, SeedSetHandle, set_handle
    <3>4. req'[r].at = "claim:mode" =>
             /\ req'[r].id = req[r].id
             /\ external_email[req[r].id] # None => handle'[req[r].id] # None
      BY <2>7, <3>1 DEF ClaimSetHandle, SeedSetHandle, set_handle
    <3>5. ModeHasHandle'
      BY <3>2, <3>3
    <3>6. ASSUME NEW q \in Requests, req'[q].at = "claim:mode"
          PROVE  external_email'[req'[q].id] = None \/ handle'[req'[q].id] # None
      <4>1. CASE q = r
        BY <3>1, <3>2, <3>4, <3>6, <4>1
      <4>2. CASE q # r
        <5>1. req'[q] = req[q] /\ req[q].id \in Ids
          BY <3>2, <3>6, <4>2 DEF StepTypes
        <5>2. QED
          BY <3>2, <3>3, <3>6, <5>1
      <4>3. QED
        BY <4>1, <4>2
    <3>7. QED
      BY <3>5, <3>6
  <2>8. CASE admin_delete_account
    <3>1. PICK i \in Ids :
             /\ external_email' = [external_email EXCEPT ![i] = None]
             /\ handle' = [handle EXCEPT ![i] = None]
             /\ identity_mode' = [identity_mode EXCEPT ![i] = None]
             /\ UNCHANGED req
      BY <2>8 DEF admin_delete_account
    <3>2. None # "handle"
      BY <3>1
    <3>3. QED
      BY <3>1, <3>2 DEF StepTypes
  <2>9. CASE PruneExpired \/ create_agent_identity \/ revoke_agent_identity \/ Tick
    BY <2>9 DEF PruneExpired, create_agent_identity, revoke_agent_identity, Tick
  <2>10. CASE UNCHANGED vars
    BY <2>10 DEF vars
  <2>11. QED
    BY <2>2, <2>3, <2>4, <2>5, <2>6, <2>7, <2>8, <2>9, <2>10 DEF Next, Continue
<1>3. ModeInv => ModeHasHandle
  BY DEF ModeInv
<1>4. QED
  BY <1>1, <1>2, <1>3, TypeInvariant, PTL DEF Spec
=============================================================================
