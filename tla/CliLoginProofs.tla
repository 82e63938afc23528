--------------------------- MODULE CliLoginProofs ---------------------------
(***************************************************************************)
(* Proofs about module CliLogin: a post leaves only under a grant a human  *)
(* approved, a reported login is stored, and a confirmed post is one's own, *)
(* for any number of shells, commands, approvals and milliseconds.         *)
(***************************************************************************)
EXTENDS CliLogin, SequenceTheorems, TLAPS

Covered(w) == [audience |-> Audience, grantor |-> w.owner, grantee |-> w.signer] \in approved

\* Every login, in the file and in memory, holds grants the broker delivered, and
\* every write is covered by one of them.
GrantInv ==
  /\ file \notin {Absent, Empty, Torn} => file.grants \subseteq approved
  /\ \A s \in Shells : mem[s].grants \subseteq approved
  /\ \A s \in Shells : draft[s] \in Writes => Covered(draft[s])
  /\ \A n \in 1 .. Len(pending) : Covered(pending[n])
  /\ \A t \in 0 .. MaxMs : object[t] \in Writes => Covered(object[t])

\* What the steps of a command rely on.
Posting == {"sign", "submit", "confirm"}
StepInv ==
  \A s \in Shells :
    /\ at[s] \in Posting => draft[s] \in Writes
    /\ at[s] \notin Posting => draft[s] = None
    /\ Rewriting(s) => mem[s] \in Logins
    /\ Rewriting(s) /\ cmd[s] = "login" => mem[s].grants # {}

IInv == TypeOK /\ GrantInv /\ StepInv

-----------------------------------------------------------------------------
(* Operators.                                                              *)

\* A login has an identity and grants for approved identities only.
LEMMA LoginTypes ==
  /\ Default.grants = {} /\ Default.ident = None
  /\ \A l \in Logins : /\ l.ident \in Identities
                       /\ l.grants = {} \/ \E a \in Approvals : l.grants = a.grants
  /\ \A i \in Identities : \A l \in Logins \cup {Default} : Login(i, l.grants) \in Logins
  /\ \A a \in Approvals : Login(a.ident, a.grants) \in Logins
  /\ \A i, g : Login(i, g).grants = g /\ Login(i, g).ident = i
<1>1. /\ Default.grants = {} /\ Default.ident = None
      /\ \A i, g : Login(i, g).grants = g /\ Login(i, g).ident = i
  BY DEF Default, Login
<1>2. ASSUME NEW l \in Logins
      PROVE  l.ident \in Identities /\ (l.grants = {} \/ \E a \in Approvals : l.grants = a.grants)
  BY DEF Logins, Login
<1>3. ASSUME NEW i \in Identities, NEW l \in Logins \cup {Default} PROVE Login(i, l.grants) \in Logins
  BY <1>1, <1>2 DEF Logins
<1>4. ASSUME NEW a \in Approvals PROVE Login(a.ident, a.grants) \in Logins
  BY DEF Logins, Identities
<1> QED BY <1>1, <1>2, <1>3, <1>4

\* What a command reads from the file.
LEMMA LoadTypes ==
  ASSUME TypeOK, GrantInv, NEW l \in load
  PROVE  l \in Logins \cup {Default} /\ l.grants \subseteq approved /\ load = {l}
BY LoginTypes DEF load, TypeOK, GrantInv

\* A write that post builds from a usable login is a write under one of its grants.
LEMMA OpenedWrite ==
  ASSUME TypeOK, GrantInv, NEW s \in Shells, NEW l \in load,
         NEW owner \in UNION {grantor_for(x) : x \in {y \in load : agent(y)}},
         NEW w, w = [by |-> s, owner |-> owner, signer |-> l.ident, ms |-> now, run |-> runs]
  PROVE  w \in Writes /\ Covered(w) /\ w.ms = now
<1>1. l \in Logins \cup {Default} /\ l.grants \subseteq approved /\ load = {l}
  BY LoadTypes
<1>2. agent(l) /\ owner \in grantor_for(l)
  BY <1>1
<1>3. PICK g \in l.grants : g.audience = Audience /\ owner = g.grantor
  BY <1>2 DEF grantor_for
<1>4. g.grantee = l.ident /\ l.ident # None
  BY <1>2, <1>3 DEF agent
<1>5. l \in Logins
  BY <1>1, <1>4, LoginTypes
<1>6. PICK a \in Approvals : g \in a.grants
  BY <1>3, <1>5, LoginTypes
<1>7. g = [audience |-> g.audience, grantor |-> g.grantor, grantee |-> g.grantee]
  BY <1>6, CliAssumption
<1>8. owner \in {h.grantor : h \in UNION {b.grants : b \in Approvals}}
  BY <1>3, <1>6
<1>9. l.ident \in Identities /\ now \in 0 .. MaxMs /\ runs \in 0 .. MaxRuns
  BY <1>5, LoginTypes DEF TypeOK
<1>10. w \in Writes
  BY <1>8, <1>9 DEF Writes
<1>11. [audience |-> Audience, grantor |-> w.owner, grantee |-> w.signer] = g
  BY <1>3, <1>4, <1>7
<1> QED BY <1>1, <1>3, <1>10, <1>11 DEF Covered

-----------------------------------------------------------------------------
(* Types.                                                                  *)

Ats == {"idle", "wait", "read", "truncate", "write", "look", "open", "sign", "submit", "confirm"}

\* The first step of a command.
LEMMA RunTypes ==
  ASSUME TypeOK, NEW s \in Shells, NEW c \in {"login", "import", "whoami", "post"}, NEW p \in Ats, Run(s, c, p)
  PROVE  TypeOK'
<1>1. runs' \in 0 .. MaxRuns
  BY CliAssumption DEF Run, TypeOK
<1> QED BY <1>1 DEF Run, TypeOK, Ats, Reports

\* The end of a command.
LEMMA ReportTypes ==
  ASSUME TypeOK, NEW s \in Shells, NEW v \in Reports, Report(s, v)
  PROVE  /\ at' \in [Shells -> Ats] /\ said' \in [Shells -> Reports \cup {None}]
         /\ mem' \in [Shells -> Logins \cup {Default}] /\ draft' \in [Shells -> Writes \cup {None}]
         /\ cmd' = cmd
BY DEF Report, TypeOK, Ats, Reports

\* The next step of a command.
LEMMA GotoTypes ==
  ASSUME TypeOK, NEW s \in Shells, NEW p \in Ats, Goto(s, p)
  PROVE  at' \in [Shells -> Ats] /\ cmd' = cmd /\ said' = said
BY DEF Goto, TypeOK, Ats, Reports

\* A login that is stored, or a torn file.
LEMMA FileTypes ==
  ASSUME TypeOK, NEW s \in Shells, mem[s] \in Logins, NEW f \in Written(s) \cup {file, Torn, Empty}
  PROVE  f \in {Absent, Empty, Torn} \cup Logins
BY DEF TypeOK, Written

\* MetBy adds shells.
LEMMA MetTypes ==
  ASSUME TypeOK, NEW s \in Shells, MetBy(s)
  PROVE  overlapped' \subseteq Shells
BY DEF TypeOK, MetBy, Overlapping

\* Types are kept by the steps of a command.
LEMMA TypeCommand ==
  ASSUME IInv, NEW s \in Shells, Begin(s) \/ Command(s) \/ Kill(s)
  PROVE  TypeOK'
<1>0. TypeOK /\ StepInv /\ GrantInv
  BY DEF IInv
<1> USE <1>0
<1>1. CASE Begin(s)
  BY <1>1, RunTypes DEF Begin, LoginBegin, ImportBegin, WhoamiBegin, PostBegin, Ats
<1>2. CASE Kill(s)
  <2>1. file' \in {Absent, Empty, Torn} \cup Logins
    BY <1>2 DEF Kill, TypeOK
  <2> QED BY <1>2, <2>1, ReportTypes DEF Kill, TypeOK, Ats, Reports
<1>3. ASSUME NEW a \in Approvals, LoginDelivered(s, a) PROVE TypeOK'
  <2>1. CASE Report(s, "declined") /\ UNCHANGED overlapped
    BY <1>3, <2>1, ReportTypes DEF LoginDelivered, TypeOK, Ats, Reports
  <2>2. CASE mem' = [mem EXCEPT ![s] = Login(a.ident, a.grants)] /\ Goto(s, "truncate") /\ MetBy(s) /\ UNCHANGED draft
    <3>1. mem' \in [Shells -> Logins \cup {Default}]
      BY <2>2, LoginTypes DEF TypeOK
    <3> QED BY <1>3, <2>2, <3>1, GotoTypes, MetTypes DEF LoginDelivered, TypeOK, Ats, Reports
  <2> QED BY <1>3, <2>1, <2>2 DEF LoginDelivered
<1>4. CASE LoginRefused(s)
  BY <1>4, ReportTypes DEF LoginRefused, TypeOK, Ats, Reports
<1>5. ASSUME NEW i \in Imports, Import(s, i) PROVE TypeOK'
  <2>1. CASE Report(s, "error") /\ UNCHANGED overlapped
    BY <1>5, <2>1, ReportTypes DEF Import, TypeOK, Ats, Reports
  <2>2. ASSUME NEW l \in load, mem' = [mem EXCEPT ![s] = Login(i, l.grants)], Goto(s, "truncate"), MetBy(s), UNCHANGED draft
        PROVE  TypeOK'
    <3>1. Login(i, l.grants) \in Logins
      BY <2>2, LoadTypes, LoginTypes DEF Identities
    <3>2. mem' \in [Shells -> Logins \cup {Default}]
      BY <2>2, <3>1 DEF TypeOK
    <3> QED BY <1>5, <2>2, <3>2, GotoTypes, MetTypes DEF Import, TypeOK, Ats, Reports
  <2> QED BY <1>5, <2>1, <2>2 DEF Import
<1>6. CASE Truncate(s)
  BY <1>6, ReportTypes, GotoTypes DEF Truncate, TypeOK, Ats, Reports
<1>7. CASE Save(s)
  <2>1. mem[s] \in Logins
    BY <1>7 DEF Save, StepInv, Rewriting
  <2>2. file' \in {Absent, Empty, Torn} \cup Logins
    BY <1>7, <2>1, FileTypes DEF Save
  <2>3. \E v \in Reports : Report(s, v)
    BY <1>7 DEF Save, Reports
  <2> QED BY <1>7, <2>2, <2>3, ReportTypes DEF Save, TypeOK, Ats, Reports
<1>8. CASE Whoami(s)
  <2>1. \E v \in Reports : Report(s, v)
    BY <1>8 DEF Whoami, Reports
  <2> QED BY <1>8, <2>1, ReportTypes DEF Whoami, TypeOK, Ats, Reports
<1>9. CASE PostOpen(s)
  <2>0. collided' \in BOOLEAN
    BY <1>9 DEF PostOpen, TypeOK
  <2>1. CASE Goto(s, "sign")
    <3>1. PICK w : draft' = [draft EXCEPT ![s] = w] /\ w \in Writes
      <4>1. PICK l \in load, owner \in UNION {grantor_for(x) : x \in {y \in load : agent(y)}} :
              draft' = [draft EXCEPT ![s] = [by |-> s, owner |-> owner, signer |-> l.ident, ms |-> now, run |-> runs]]
        BY <1>9, <2>1 DEF PostOpen, Goto, Report, TypeOK
      <4> QED BY <4>1, OpenedWrite
    <3> QED BY <1>9, <2>0, <2>1, <3>1, GotoTypes DEF PostOpen, Report, TypeOK, Ats, Goto
  <2>2. CASE \E v \in Reports : Report(s, v)
    BY <1>9, <2>0, <2>2, ReportTypes DEF PostOpen, TypeOK, Ats, Reports
  <2> QED BY <1>9, <2>1, <2>2 DEF PostOpen, Reports
<1>10. CASE PostSign(s)
  BY <1>10, ReportTypes, GotoTypes DEF PostSign, TypeOK, Ats, Reports
<1>11. CASE PostSubmit(s)
  <2>1. draft[s] \in Writes
    BY <1>11 DEF PostSubmit, StepInv, Posting
  <2>2. pending' \in Seq(Writes)
    <3>1. Append(pending, draft[s]) \in Seq(Writes)
      BY <2>1 DEF TypeOK
    <3> QED BY <1>11, <3>1 DEF PostSubmit, TypeOK
  <2> QED BY <1>11, <2>2, ReportTypes, GotoTypes DEF PostSubmit, TypeOK, Ats, Reports
<1>12. CASE PostConfirm(s)
  <2>1. \E v \in Reports : Report(s, v)
    BY <1>12 DEF PostConfirm, Reports
  <2> QED BY <1>12, <2>1, ReportTypes DEF PostConfirm, TypeOK, Ats, Reports
<1> QED BY <1>1, <1>2, <1>3, <1>4, <1>5, <1>6, <1>7, <1>8, <1>9, <1>10, <1>11, <1>12 DEF Command

\* The first write accepted is a write, and so is every other.
LEMMA HeadTypes ==
  ASSUME TypeOK, pending # <<>>
  PROVE  /\ Head(pending) \in Writes /\ Head(pending) = pending[1] /\ 1 \in 1 .. Len(pending)
         /\ Tail(pending) \in Seq(Writes) /\ Head(pending).ms \in 0 .. MaxMs
         /\ Len(Tail(pending)) = Len(pending) - 1
         /\ \A n \in 1 .. Len(Tail(pending)) : n + 1 \in 1 .. Len(pending) /\ Tail(pending)[n] = pending[n + 1]
<1>1. pending \in Seq(Writes)
  BY DEF TypeOK
<1>2. Head(pending) \in Writes
  BY <1>1, HeadTailProperties
<1> QED BY <1>1, <1>2, HeadTailProperties DEF Writes

\* The clock and the daemon.
LEMMA TypeWorld ==
  ASSUME IInv, Tick \/ Sync \/ UNCHANGED vars
  PROVE  TypeOK'
<1>0. TypeOK
  BY DEF IInv
<1>1. CASE Tick
  <2>1. now' \in 0 .. MaxMs
    BY <1>0, <1>1, CliAssumption DEF Tick, TypeOK
  <2> QED BY <1>0, <1>1, <2>1 DEF Tick, TypeOK, local
<1>2. CASE Sync
  <2>1. object' \in [0 .. MaxMs -> Writes \cup {None}] /\ pending' \in Seq(Writes)
    BY <1>0, <1>2, HeadTypes DEF Sync, TypeOK
  <2> QED BY <1>0, <1>2, <2>1 DEF Sync, TypeOK, local
<1>3. CASE UNCHANGED vars
  BY <1>0, <1>3 DEF vars, local, TypeOK
<1> QED BY <1>1, <1>2, <1>3

-----------------------------------------------------------------------------
(* What the steps rely on.                                                 *)

\* One shell moves to a step whose needs are met; the others stand still.
LEMMA StepMoves ==
  ASSUME IInv, NEW s \in Shells,
         \A x \in Shells \ {s} : at'[x] = at[x] /\ cmd'[x] = cmd[x] /\ mem'[x] = mem[x] /\ draft'[x] = draft[x],
         at'[s] \in Posting => draft'[s] \in Writes,
         at'[s] \notin Posting => draft'[s] = None,
         Rewriting(s)' => mem'[s] \in Logins,
         Rewriting(s)' /\ cmd'[s] = "login" => mem'[s].grants # {}
  PROVE  StepInv'
<1>1. ASSUME NEW x \in Shells, x # s
      PROVE  /\ at'[x] \in Posting => draft'[x] \in Writes
             /\ at'[x] \notin Posting => draft'[x] = None
             /\ Rewriting(x)' => mem'[x] \in Logins
             /\ Rewriting(x)' /\ cmd'[x] = "login" => mem'[x].grants # {}
  BY <1>1 DEF IInv, StepInv, Rewriting
<1> QED BY <1>1 DEF StepInv

\* A command that ends needs nothing.
LEMMA StepReport ==
  ASSUME IInv, NEW s \in Shells, NEW v, Report(s, v)
  PROVE  StepInv'
<1>1. at'[s] = "idle" /\ draft'[s] = None
  BY DEF IInv, TypeOK, Report
<1>2. \A x \in Shells \ {s} : at'[x] = at[x] /\ cmd'[x] = cmd[x] /\ mem'[x] = mem[x] /\ draft'[x] = draft[x]
  BY DEF IInv, TypeOK, Report
<1> QED BY <1>1, <1>2, StepMoves DEF Posting, Rewriting

\* A command starts with a step that needs nothing.
LEMMA StepRun ==
  ASSUME IInv, NEW s \in Shells, NEW c, NEW p \in {"wait", "read", "look", "open"}, Run(s, c, p)
  PROVE  StepInv'
<1>1. at'[s] = p /\ at[s] = "idle" /\ draft'[s] = draft[s]
  BY DEF IInv, TypeOK, Run
<1>2. \A x \in Shells \ {s} : at'[x] = at[x] /\ cmd'[x] = cmd[x] /\ mem'[x] = mem[x] /\ draft'[x] = draft[x]
  BY DEF IInv, TypeOK, Run
<1>3. draft'[s] = None
  BY <1>1 DEF IInv, StepInv, Posting
<1> QED BY <1>1, <1>2, <1>3, StepMoves DEF Posting, Rewriting

\* A command begins to rewrite the file with what it holds.
LEMMA StepRewrite ==
  ASSUME IInv, NEW s \in Shells, NEW l \in Logins, at[s] \in {"wait", "read"},
         mem' = [mem EXCEPT ![s] = l], Goto(s, "truncate"), UNCHANGED draft,
         cmd[s] = "login" => l.grants # {}
  PROVE  StepInv'
<1>1. at'[s] = "truncate" /\ cmd'[s] = cmd[s] /\ mem'[s] = l /\ draft'[s] = draft[s]
  BY DEF IInv, TypeOK, Goto
<1>2. \A x \in Shells \ {s} : at'[x] = at[x] /\ cmd'[x] = cmd[x] /\ mem'[x] = mem[x] /\ draft'[x] = draft[x]
  BY DEF IInv, TypeOK, Goto
<1>3. draft[s] = None
  BY DEF IInv, StepInv, Posting
<1> QED BY <1>1, <1>2, <1>3, StepMoves DEF Posting, Rewriting

\* A command goes on with what it has.
LEMMA StepGoto ==
  ASSUME IInv, NEW s \in Shells, NEW p, Goto(s, p), UNCHANGED <<mem, draft>>,
         \/ at[s] = "truncate" /\ p = "write"
         \/ at[s] = "sign" /\ p = "submit"
         \/ at[s] = "submit" /\ p = "confirm"
  PROVE  StepInv'
<1>1. at'[s] = p /\ cmd'[s] = cmd[s] /\ mem'[s] = mem[s] /\ draft'[s] = draft[s]
  BY DEF IInv, TypeOK, Goto
<1>2. \A x \in Shells \ {s} : at'[x] = at[x] /\ cmd'[x] = cmd[x] /\ mem'[x] = mem[x] /\ draft'[x] = draft[x]
  BY DEF IInv, TypeOK, Goto
<1>3. /\ at[s] \in Posting => draft[s] \in Writes
      /\ at[s] \notin Posting => draft[s] = None
      /\ Rewriting(s) => mem[s] \in Logins
      /\ Rewriting(s) /\ cmd[s] = "login" => mem[s].grants # {}
  BY DEF IInv, StepInv
<1> QED BY <1>1, <1>2, <1>3, StepMoves DEF Posting, Rewriting

\* What the steps rely on is kept.
LEMMA StepNext ==
  ASSUME IInv, [Next]_vars
  PROVE  StepInv'
<1>0. TypeOK /\ StepInv /\ GrantInv
  BY DEF IInv
<1>1. ASSUME NEW s \in Shells, Begin(s) PROVE StepInv'
  BY <1>1, StepRun DEF Begin, LoginBegin, ImportBegin, WhoamiBegin, PostBegin
<1>2. ASSUME NEW s \in Shells, \/ LoginRefused(s) \/ Whoami(s) \/ PostConfirm(s) \/ Kill(s) PROVE StepInv'
  BY <1>2, StepReport DEF LoginRefused, Whoami, PostConfirm, Kill
<1>3. ASSUME NEW s \in Shells, NEW a \in Approvals, LoginDelivered(s, a) PROVE StepInv'
  <2>1. CASE Report(s, "declined")
    BY <2>1, StepReport
  <2>2. CASE a.grants # {} /\ mem' = [mem EXCEPT ![s] = Login(a.ident, a.grants)] /\ Goto(s, "truncate") /\ UNCHANGED draft
    <3>1. PICK l \in Logins : l = Login(a.ident, a.grants) /\ l.grants # {}
      BY <2>2, LoginTypes
    <3> QED BY <1>3, <2>2, <3>1, StepRewrite DEF LoginDelivered
  <2> QED BY <1>3, <2>1, <2>2 DEF LoginDelivered
<1>4. ASSUME NEW s \in Shells, NEW i \in Imports, Import(s, i) PROVE StepInv'
  <2>1. CASE Report(s, "error")
    BY <2>1, StepReport
  <2>2. ASSUME NEW l \in load, mem' = [mem EXCEPT ![s] = Login(i, l.grants)], Goto(s, "truncate"), UNCHANGED draft
        PROVE  StepInv'
    <3>1. PICK k \in Logins : k = Login(i, l.grants)
      BY <1>0, <2>2, LoadTypes, LoginTypes DEF Identities
    <3> QED BY <1>4, <2>2, <3>1, StepRewrite DEF Import
  <2> QED BY <1>4, <2>1, <2>2 DEF Import
<1>5. ASSUME NEW s \in Shells, Truncate(s) PROVE StepInv'
  BY <1>5, StepReport, StepGoto DEF Truncate
<1>6. ASSUME NEW s \in Shells, Save(s) PROVE StepInv'
  BY <1>6, StepReport DEF Save
<1>7. ASSUME NEW s \in Shells, PostOpen(s) PROVE StepInv'
  <2>1. ASSUME NEW l \in load, NEW owner \in UNION {grantor_for(x) : x \in {y \in load : agent(y)}}, NEW w,
               w = [by |-> s, owner |-> owner, signer |-> l.ident, ms |-> now, run |-> runs],
               draft' = [draft EXCEPT ![s] = w], Goto(s, "sign"), UNCHANGED mem
        PROVE  StepInv'
    <3>1. w \in Writes
      BY <1>0, <2>1, OpenedWrite
    <3>2. at'[s] = "sign" /\ draft'[s] = w
      BY <1>0, <2>1 DEF TypeOK, Goto
    <3>3. \A x \in Shells \ {s} : at'[x] = at[x] /\ cmd'[x] = cmd[x] /\ mem'[x] = mem[x] /\ draft'[x] = draft[x]
      BY <1>0, <2>1 DEF TypeOK, Goto
    <3> QED BY <3>1, <3>2, <3>3, StepMoves DEF Posting, Rewriting
  <2>2. CASE \E v : Report(s, v)
    BY <2>2, StepReport
  <2> QED BY <1>7, <2>1, <2>2 DEF PostOpen
<1>8. ASSUME NEW s \in Shells, PostSign(s) PROVE StepInv'
  BY <1>8, StepReport, StepGoto DEF PostSign
<1>9. ASSUME NEW s \in Shells, PostSubmit(s) PROVE StepInv'
  BY <1>9, StepReport, StepGoto DEF PostSubmit
<1>10. CASE Tick \/ Sync \/ UNCHANGED vars
  BY <1>0, <1>10 DEF Tick, Sync, vars, local, StepInv, Rewriting
<1> QED BY <1>1, <1>2, <1>3, <1>4, <1>5, <1>6, <1>7, <1>8, <1>9, <1>10 DEF Next, Command

-----------------------------------------------------------------------------
(* Grants.                                                                 *)

\* The broker's deliveries only add to what was approved.
LEMMA ApprovedGrows == [Next]_vars => approved \subseteq approved'
BY DEF Next, Begin, LoginBegin, ImportBegin, WhoamiBegin, PostBegin, Run, Command, LoginDelivered, LoginRefused,
       Import, Truncate, Save, Whoami, PostOpen, PostSign, PostSubmit, PostConfirm, Kill, Tick, Sync, vars

\* A step of one shell keeps every part covered if what it writes is.
LEMMA GrantMoves ==
  ASSUME IInv, NEW s \in Shells, approved \subseteq approved', object' = object,
         \A x \in Shells \ {s} : mem'[x] = mem[x] /\ draft'[x] = draft[x],
         mem'[s].grants \subseteq approved',
         draft'[s] \in Writes => Covered(draft[s])',
         file' \in {file, Empty, Torn, mem[s]},
         pending' = pending \/ (draft[s] \in Writes /\ pending' = Append(pending, draft[s]))
  PROVE  GrantInv'
<1>0. TypeOK /\ GrantInv
  BY DEF IInv
<1>1. file' \notin {Absent, Empty, Torn} => file'.grants \subseteq approved'
  BY <1>0 DEF GrantInv
<1>2. \A x \in Shells : mem'[x].grants \subseteq approved'
  BY <1>0 DEF GrantInv
<1>3. \A x \in Shells : draft'[x] \in Writes => Covered(draft[x])'
  BY <1>0 DEF GrantInv, Covered
<1>4. \A t \in 0 .. MaxMs : object'[t] \in Writes => Covered(object[t])'
  BY <1>0 DEF GrantInv, Covered
<1>5. \A n \in 1 .. Len(pending') : Covered(pending[n])'
  <2>1. CASE pending' = pending
    BY <1>0, <2>1 DEF GrantInv, Covered
  <2>2. CASE draft[s] \in Writes /\ pending' = Append(pending, draft[s])
    <3>1. pending \in Seq(Writes) /\ Covered(draft[s])
      BY <1>0, <2>2 DEF TypeOK, GrantInv
    <3>2. \A n \in 1 .. Len(pending') : (n \in 1 .. Len(pending) /\ pending'[n] = pending[n]) \/ pending'[n] = draft[s]
      BY <2>2, <3>1, AppendProperties, LenProperties
    <3> QED BY <1>0, <3>1, <3>2 DEF GrantInv, Covered
  <2> QED BY <2>1, <2>2
<1> QED BY <1>1, <1>2, <1>3, <1>4, <1>5 DEF GrantInv

\* A command that ends holds nothing, and one that goes on holds what it held.
LEMMA HeldGrants ==
  ASSUME IInv, NEW s \in Shells, approved \subseteq approved',
         (\E v : Report(s, v)) \/ UNCHANGED <<mem, draft>>
  PROVE  /\ \A x \in Shells \ {s} : mem'[x] = mem[x] /\ draft'[x] = draft[x]
         /\ mem'[s].grants \subseteq approved'
         /\ draft'[s] \in Writes => Covered(draft[s])'
<1>0. TypeOK /\ GrantInv
  BY DEF IInv
<1>1. CASE UNCHANGED <<mem, draft>>
  BY <1>0, <1>1 DEF GrantInv, Covered
<1>2. ASSUME NEW v, Report(s, v)
      PROVE  /\ \A x \in Shells \ {s} : mem'[x] = mem[x] /\ draft'[x] = draft[x]
             /\ mem'[s] = Default /\ draft'[s] = None
  BY <1>0, <1>2 DEF TypeOK, Report
<1>3. CASE \E v : Report(s, v)
  BY <1>2, <1>3, LoginTypes, NoneAssumption
<1> QED BY <1>1, <1>3

\* Every write stays covered by a grant that was delivered.
LEMMA GrantNext ==
  ASSUME IInv, [Next]_vars
  PROVE  GrantInv'
<1>0. TypeOK /\ StepInv /\ GrantInv /\ approved \subseteq approved'
  BY ApprovedGrows DEF IInv
<1>1. ASSUME NEW s \in Shells, Begin(s) PROVE GrantInv'
  BY <1>0, <1>1, GrantMoves, HeldGrants DEF Begin, LoginBegin, ImportBegin, WhoamiBegin, PostBegin, Run
<1>2. ASSUME NEW s \in Shells, LoginRefused(s) \/ Whoami(s) \/ PostConfirm(s) \/ Truncate(s) \/ PostSign(s)
      PROVE  GrantInv'
  <2>1. /\ (\E v : Report(s, v)) \/ UNCHANGED <<mem, draft>>
        /\ object' = object /\ pending' = pending /\ file' \in {file, Empty}
    BY <1>2 DEF LoginRefused, Whoami, PostConfirm, Truncate, PostSign
  <2> QED BY <1>0, <2>1, GrantMoves, HeldGrants
<1>3. ASSUME NEW s \in Shells, NEW a \in Approvals, LoginDelivered(s, a) PROVE GrantInv'
  <2>1. object' = object /\ pending' = pending /\ file' = file /\ approved' = approved \cup a.grants
    BY <1>3 DEF LoginDelivered
  <2>2. CASE Report(s, "declined")
    BY <1>0, <2>1, <2>2, GrantMoves, HeldGrants
  <2>3. CASE mem' = [mem EXCEPT ![s] = Login(a.ident, a.grants)] /\ UNCHANGED draft
    <3>1. /\ \A x \in Shells \ {s} : mem'[x] = mem[x] /\ draft'[x] = draft[x]
          /\ mem'[s].grants \subseteq approved' /\ (draft'[s] \in Writes => Covered(draft[s])')
      BY <1>0, <2>1, <2>3, LoginTypes DEF TypeOK, GrantInv, Covered
    <3> QED BY <1>0, <2>1, <3>1, GrantMoves
  <2> QED BY <1>3, <2>2, <2>3 DEF LoginDelivered
<1>4. ASSUME NEW s \in Shells, NEW i \in Imports, Import(s, i) PROVE GrantInv'
  <2>1. object' = object /\ pending' = pending /\ file' = file
    BY <1>4 DEF Import
  <2>2. CASE Report(s, "error")
    BY <1>0, <2>1, <2>2, GrantMoves, HeldGrants
  <2>3. ASSUME NEW l \in load, mem' = [mem EXCEPT ![s] = Login(i, l.grants)], UNCHANGED draft PROVE GrantInv'
    <3>1. l.grants \subseteq approved'
      BY <1>0, <2>3, LoadTypes
    <3>2. /\ \A x \in Shells \ {s} : mem'[x] = mem[x] /\ draft'[x] = draft[x]
          /\ mem'[s].grants \subseteq approved' /\ (draft'[s] \in Writes => Covered(draft[s])')
      BY <1>0, <2>1, <2>3, <3>1, LoginTypes DEF TypeOK, GrantInv, Covered
    <3> QED BY <1>0, <2>1, <3>2, GrantMoves
  <2> QED BY <1>4, <2>2, <2>3 DEF Import
<1>5. ASSUME NEW s \in Shells, Save(s) \/ Kill(s) PROVE GrantInv'
  <2>1. object' = object /\ pending' = pending /\ file' \in {file, Torn, mem[s]} /\ \E v : Report(s, v)
    BY <1>5 DEF Save, Kill, Written
  <2> QED BY <1>0, <2>1, GrantMoves, HeldGrants
<1>6. ASSUME NEW s \in Shells, PostOpen(s) PROVE GrantInv'
  <2>1. object' = object /\ pending' = pending /\ file' = file
    BY <1>6 DEF PostOpen
  <2>2. CASE \E v : Report(s, v)
    BY <1>0, <2>1, <2>2, GrantMoves, HeldGrants
  <2>3. ASSUME NEW l \in load, NEW owner \in UNION {grantor_for(x) : x \in {y \in load : agent(y)}}, NEW w,
               w = [by |-> s, owner |-> owner, signer |-> l.ident, ms |-> now, run |-> runs],
               draft' = [draft EXCEPT ![s] = w], UNCHANGED mem
        PROVE  GrantInv'
    <3>1. Covered(w)
      BY <1>0, <2>3, OpenedWrite
    <3>2. /\ \A x \in Shells \ {s} : mem'[x] = mem[x] /\ draft'[x] = draft[x]
          /\ mem'[s].grants \subseteq approved' /\ Covered(draft[s])'
      BY <1>0, <2>3, <3>1 DEF TypeOK, GrantInv, Covered
    <3> QED BY <1>0, <2>1, <3>2, GrantMoves
  <2> QED BY <1>6, <2>2, <2>3 DEF PostOpen
<1>7. ASSUME NEW s \in Shells, PostSubmit(s) PROVE GrantInv'
  <2>1. draft[s] \in Writes
    BY <1>0, <1>7 DEF PostSubmit, StepInv, Posting
  <2>2. /\ object' = object /\ file' = file /\ pending' \in {pending, Append(pending, draft[s])}
        /\ (\E v : Report(s, v)) \/ UNCHANGED <<mem, draft>>
    BY <1>7 DEF PostSubmit
  <2> QED BY <1>0, <2>1, <2>2, GrantMoves, HeldGrants
<1>8. CASE Tick \/ UNCHANGED vars
  BY <1>0, <1>8 DEF Tick, vars, local, GrantInv, Covered
<1>9. CASE Sync
  <2>1. /\ UNCHANGED <<file, mem, draft, approved>> /\ pending # <<>> /\ pending' = Tail(pending)
        /\ object' \in {object, [object EXCEPT ![Head(pending).ms] = Head(pending)]}
    BY <1>9 DEF Sync, local
  <2>2. Covered(Head(pending)) /\ \A n \in 1 .. Len(pending') : Covered(pending'[n])
    BY <1>0, <2>1, HeadTypes DEF GrantInv
  <2>3. \A t \in 0 .. MaxMs : object'[t] \in {object[t], Head(pending)}
    BY <1>0, <2>1, HeadTypes DEF TypeOK
  <2> QED BY <1>0, <2>1, <2>2, <2>3 DEF GrantInv, Covered
<1> QED BY <1>1, <1>2, <1>3, <1>4, <1>5, <1>6, <1>7, <1>8, <1>9 DEF Next, Command

\* No file, no command, no write.
LEMMA InitInv == Init => IInv
<1> SUFFICES ASSUME Init PROVE IInv
  OBVIOUS
<1>1. runs \in 0 .. MaxRuns /\ now \in 0 .. MaxMs /\ pending \in Seq(Writes) /\ Len(pending) = 0
  BY CliAssumption DEF Init
<1>2. TypeOK
  BY <1>1 DEF Init, TypeOK
<1>3. GrantInv /\ StepInv
  BY <1>1, LoginTypes, NoneAssumption DEF Init, GrantInv, StepInv, Posting, Rewriting
<1> QED BY <1>2, <1>3 DEF IInv

\* The invariant is inductive.
LEMMA NextInv == IInv /\ [Next]_vars => IInv'
<1> SUFFICES ASSUME IInv, [Next]_vars PROVE IInv'
  OBVIOUS
<1>1. TypeOK'
  BY TypeCommand, TypeWorld DEF Next
<1> QED BY <1>1, StepNext, GrantNext DEF IInv

\* File, commands, writes and reports keep their types.
THEOREM TypeCorrect == Spec => []TypeOK
<1>1. IInv => TypeOK
  BY DEF IInv
<1> QED BY InitInv, NextInv, <1>1, PTL DEF Spec

\* Every write that leaves the machine is covered by one grant a human approved,
\* whatever logins and imports replace the file meanwhile.
THEOREM GrantSafe == Spec => []WriteWithinGrant
<1>1. IInv => WriteWithinGrant
  <2> SUFFICES ASSUME IInv,
                      NEW w \in Range(pending) \cup {draft[s] : s \in Shells} \cup {object[t] : t \in 0 .. MaxMs},
                      w # None
               PROVE  Covered(w)
    BY DEF WriteWithinGrant, Covered
  <2>1. TypeOK /\ GrantInv
    BY DEF IInv
  <2>2. CASE w \in Range(pending)
    BY <2>1, <2>2, LenProperties DEF Range, TypeOK, GrantInv
  <2>3. CASE w \in {draft[s] : s \in Shells}
    BY <2>1, <2>3 DEF TypeOK, GrantInv
  <2>4. CASE w \in {object[t] : t \in 0 .. MaxMs}
    BY <2>1, <2>4 DEF TypeOK, GrantInv
  <2> QED BY <2>2, <2>3, <2>4
<1> QED BY InitInv, NextInv, <1>1, PTL DEF Spec

-----------------------------------------------------------------------------
(* A reported login is stored.                                             *)

\* A running command has reported nothing; of two commands that rewrite the file
\* at once both know it; and who truncated the file alone finds it empty.
FileInv ==
  /\ \A s \in Shells : at[s] # "idle" => said[s] = None
  /\ \A s, t \in Shells : (s # t /\ Rewriting(s) /\ Rewriting(t)) => s \in overlapped
  /\ \A s \in Shells : (at[s] = "write" /\ s \notin overlapped) => file = Empty

\* One shell moves on, or ends, without touching the file.
LEMMA FileMoves ==
  ASSUME IInv, FileInv, NEW s \in Shells, file' = file, overlapped \subseteq overlapped',
         \A x \in Shells \ {s} : at'[x] = at[x] /\ said'[x] = said[x],
         at'[s] # "idle" => said'[s] = None,
         Rewriting(s)' => (Rewriting(s) \/ \A x \in Shells \ {s} : Rewriting(x) => {s, x} \subseteq overlapped'),
         at'[s] # "write"
  PROVE  FileInv'
<1>1. \A x \in Shells : at'[x] # "idle" => said'[x] = None
  BY DEF FileInv
<1>2. ASSUME NEW x \in Shells, NEW y \in Shells, x # y, Rewriting(x)', Rewriting(y)' PROVE x \in overlapped'
  BY <1>2 DEF FileInv, Rewriting
<1>3. ASSUME NEW x \in Shells, at'[x] = "write", x \notin overlapped' PROVE file' = Empty
  BY <1>3 DEF FileInv
<1> QED BY <1>1, <1>2, <1>3 DEF FileInv

\* A command that ends, without touching the file.
LEMMA FileReport ==
  ASSUME IInv, FileInv, NEW s \in Shells, NEW v, Report(s, v), UNCHANGED <<file, overlapped>>
  PROVE  FileInv'
<1>1. at'[s] = "idle" /\ \A x \in Shells \ {s} : at'[x] = at[x] /\ said'[x] = said[x]
  BY DEF IInv, TypeOK, Report
<1> QED BY <1>1, FileMoves DEF Rewriting

\* A command that starts; it was idle, so nothing is said of it.
LEMMA FileRun ==
  ASSUME IInv, FileInv, NEW s \in Shells, NEW c, NEW p \in {"wait", "read", "look", "open"}, Run(s, c, p)
  PROVE  FileInv'
<1>1. /\ at'[s] = p /\ said'[s] = None /\ ~Rewriting(s)' /\ file' = file /\ overlapped' = overlapped \ {s}
      /\ \A x \in Shells \ {s} : at'[x] = at[x] /\ said'[x] = said[x]
  BY DEF IInv, TypeOK, Run, Rewriting
<1>2. \A x \in Shells \ {s} : Rewriting(x)' <=> Rewriting(x)
  BY <1>1 DEF Rewriting
<1>3. \A x \in Shells : at'[x] = "write" => x # s /\ at[x] = "write"
  BY <1>1
<1>4. \A x \in Shells : at'[x] # "idle" => said'[x] = None
  BY <1>1 DEF FileInv
<1>5. \A x, y \in Shells : (x # y /\ Rewriting(x)' /\ Rewriting(y)') => x \in overlapped'
  BY <1>1, <1>2 DEF FileInv
<1> QED BY <1>1, <1>3, <1>4, <1>5 DEF FileInv

\* A command begins to rewrite the file, and knows of the others that do.
LEMMA FileRewrite ==
  ASSUME IInv, FileInv, NEW s \in Shells, at[s] # "idle", Goto(s, "truncate"), MetBy(s), UNCHANGED file
  PROVE  FileInv'
<1>1. /\ at'[s] = "truncate" /\ said'[s] = said[s] /\ said[s] = None
      /\ \A x \in Shells \ {s} : at'[x] = at[x] /\ said'[x] = said[x]
  BY DEF IInv, TypeOK, Goto, FileInv
<1>2. \A x \in Shells \ {s} : Rewriting(x) => {s, x} \subseteq overlapped'
  BY DEF MetBy, Overlapping
<1>3. overlapped \subseteq overlapped'
  BY DEF MetBy
<1> QED BY <1>1, <1>2, <1>3, FileMoves

\* Only the commands that rewrite the file touch it, and the others that do so
\* know of them.
LEMMA FileTouched ==
  ASSUME IInv, FileInv, NEW s \in Shells, Rewriting(s), UNCHANGED overlapped,
         \A x \in Shells \ {s} : at'[x] = at[x] /\ said'[x] = said[x],
         at'[s] # "idle" => said'[s] = None,
         at'[s] = "write" => file' = Empty,
         Rewriting(s)' => at'[s] = "write"
  PROVE  FileInv'
<1>1. \A x \in Shells \ {s} : Rewriting(x)' <=> Rewriting(x)
  BY DEF Rewriting
<1>2. \A x \in Shells \ {s} : Rewriting(x) => {s, x} \subseteq overlapped
  BY DEF FileInv
<1>3. \A x \in Shells : at'[x] # "idle" => said'[x] = None
  BY DEF FileInv
<1>4. \A x, y \in Shells : (x # y /\ Rewriting(x)' /\ Rewriting(y)') => x \in overlapped'
  BY <1>1, <1>2 DEF FileInv
<1>5. ASSUME NEW x \in Shells, at'[x] = "write", x \notin overlapped' PROVE file' = Empty
  BY <1>5, <1>1, <1>2 DEF Rewriting
<1> QED BY <1>3, <1>4, <1>5 DEF FileInv

\* Whoever writes, reports or is killed, FileInv holds on.
LEMMA FileNext == IInv /\ FileInv /\ [Next]_vars => FileInv'
<1> SUFFICES ASSUME IInv, FileInv, [Next]_vars PROVE FileInv'
  OBVIOUS
<1>0. TypeOK
  BY DEF IInv
<1>1. ASSUME NEW s \in Shells, Begin(s) PROVE FileInv'
  BY <1>1, FileRun DEF Begin, LoginBegin, ImportBegin, WhoamiBegin, PostBegin
<1>2. ASSUME NEW s \in Shells, LoginRefused(s) \/ Whoami(s) \/ PostConfirm(s) PROVE FileInv'
  BY <1>2, FileReport DEF LoginRefused, Whoami, PostConfirm
<1>3. ASSUME NEW s \in Shells, NEW a \in Approvals, LoginDelivered(s, a) PROVE FileInv'
  BY <1>3, FileReport, FileRewrite DEF LoginDelivered
<1>4. ASSUME NEW s \in Shells, NEW i \in Imports, Import(s, i) PROVE FileInv'
  BY <1>4, FileReport, FileRewrite DEF Import
<1>5. ASSUME NEW s \in Shells, Truncate(s) PROVE FileInv'
  <2>1. CASE file' = Empty /\ Goto(s, "write")
    <3>1. /\ at'[s] = "write" /\ said'[s] = said[s] /\ Rewriting(s) /\ overlapped' = overlapped
          /\ \A x \in Shells \ {s} : at'[x] = at[x] /\ said'[x] = said[x]
      BY <1>0, <1>5, <2>1 DEF Truncate, TypeOK, Goto, Rewriting
    <3>2. said[s] = None
      BY <1>5 DEF Truncate, FileInv
    <3> QED BY <2>1, <3>1, <3>2, FileTouched
  <2>2. CASE Report(s, "error") /\ UNCHANGED file
    BY <1>5, <2>2, FileReport DEF Truncate
  <2> QED BY <1>5, <2>1, <2>2 DEF Truncate
<1>6. ASSUME NEW s \in Shells, Save(s) \/ (Kill(s) /\ at[s] = "write") PROVE FileInv'
  <2>1. PICK v : Report(s, v)
    BY <1>6 DEF Save, Kill
  <2>2. /\ at'[s] = "idle" /\ Rewriting(s) /\ overlapped' = overlapped
        /\ \A x \in Shells \ {s} : at'[x] = at[x] /\ said'[x] = said[x]
    BY <1>0, <1>6, <2>1 DEF Save, Kill, TypeOK, Report, Rewriting
  <2> QED BY <2>2, FileTouched DEF Rewriting
<1>7. ASSUME NEW s \in Shells, Kill(s), at[s] # "write" PROVE FileInv'
  BY <1>7, FileReport DEF Kill
<1>8. ASSUME NEW s \in Shells, PostOpen(s) \/ PostSign(s) \/ PostSubmit(s) PROVE FileInv'
  <2>1. /\ file' = file /\ overlapped' = overlapped /\ at[s] # "idle"
        /\ (\E v : Report(s, v)) \/ \E p \in {"sign", "submit", "confirm"} : Goto(s, p)
    BY <1>8 DEF PostOpen, PostSign, PostSubmit
  <2>2. ASSUME NEW p \in {"sign", "submit", "confirm"}, Goto(s, p) PROVE FileInv'
    <3>1. /\ at'[s] = p /\ said'[s] = said[s] /\ said[s] = None
          /\ \A x \in Shells \ {s} : at'[x] = at[x] /\ said'[x] = said[x]
      BY <1>0, <2>1, <2>2 DEF TypeOK, Goto, FileInv
    <3> QED BY <2>1, <3>1, FileMoves DEF Rewriting
  <2> QED BY <2>1, <2>2, FileReport
<1>9. CASE Tick \/ Sync \/ UNCHANGED vars
  BY <1>9 DEF Tick, Sync, vars, local, FileInv, Rewriting
<1> QED BY <1>1, <1>2, <1>3, <1>4, <1>5, <1>6, <1>7, <1>8, <1>9 DEF Next, Command

\* What a step of another shell, or of nobody, leaves of a shell's report.
LEMMA SaidByOthers ==
  ASSUME IInv, [Next]_vars, NEW s \in Shells, said'[s] # said[s]
  PROVE  Begin(s) \/ Command(s) \/ Kill(s)
<1>1. ASSUME NEW x \in Shells, Begin(x) \/ Command(x) \/ Kill(x)
      PROVE  \A y \in Shells \ {x} : said'[y] = said[y]
  BY <1>1 DEF IInv, TypeOK, Begin, LoginBegin, ImportBegin, WhoamiBegin, PostBegin, Run, Command, LoginDelivered,
     LoginRefused, Import, Truncate, Save, Whoami, PostOpen, PostSign, PostSubmit, PostConfirm, Kill, Report, Goto
<1>2. CASE Tick \/ Sync \/ UNCHANGED vars
  BY <1>2 DEF Tick, Sync, vars, local
<1> QED BY <1>1, <1>2 DEF Next

\* A login or import that reports success and met no other rewrite has stored what
\* it held, and after a login that is one that post can use.
THEOREM StoredSafe == Spec => SuccessIsStored
<1>1. ASSUME IInv, FileInv, [Next]_vars, NEW s \in Shells, at[s] = "write", said'[s] = "stored", s \notin overlapped
      PROVE  file' = mem[s] /\ (cmd[s] = "login" => agent(file') /\ file'.grants # {})
  <2>0. TypeOK /\ StepInv /\ said[s] = None
    BY <1>1 DEF IInv, FileInv
  <2>1. said'[s] # said[s]
    BY <1>1, <2>0, NoneAssumption DEF Reports
  <2>2. Save(s)
    <3>1. ~Kill(s)
      BY <1>1, <2>0 DEF Kill, Report, TypeOK
    <3> QED BY <1>1, <2>1, <3>1, SaidByOthers
            DEF Begin, LoginBegin, ImportBegin, WhoamiBegin, PostBegin, Run, Command, LoginDelivered,
                LoginRefused, Import, Truncate, Whoami, PostOpen, PostSign, PostSubmit, PostConfirm
  <2>3. /\ file' \in Written(s)
        /\ cmd[s] # "import" => agent(mem[s])
    BY <1>1, <2>0, <2>2 DEF Save, Report, TypeOK
  <2>4. file' = mem[s]
    <3>1. file = Empty
      BY <1>1, Zenon DEF FileInv
    <3> QED BY <2>3, <3>1 DEF Written
  <2>5. cmd[s] = "login" => mem[s].grants # {}
    BY <1>1, <2>0 DEF StepInv, Rewriting
  <2> QED BY <2>3, <2>4, <2>5 DEF agent
<1>2. IInv /\ FileInv /\ [Next]_vars =>
  [\A s \in Shells :
       (at[s] = "write" /\ said'[s] = "stored" /\ s \notin overlapped)
         => /\ file' = mem[s]
            /\ cmd[s] = "login" => agent(file') /\ file'.grants # {}]_vars
  BY <1>1
<1>3. Init => FileInv
  BY DEF Init, FileInv, Rewriting
<1> QED BY InitInv, NextInv, FileNext, <1>2, <1>3, PTL DEF Spec, SuccessIsStored

-----------------------------------------------------------------------------
(* A confirmed post is one's own.                                          *)

\* Before two posts met in one millisecond, whatever has the id of a write being
\* posted is that write.
IdInv ==
  ~collided => \A s \in Shells : draft[s] \in Writes =>
    /\ \A t \in Shells \ {s} : draft[t] \in Writes => draft[t].ms # draft[s].ms
    /\ \A n \in 1 .. Len(pending) : pending[n].ms = draft[s].ms => pending[n] = draft[s]
    /\ object[draft[s].ms] \in Writes => object[draft[s].ms] = draft[s]

\* No new draft, and at most one write submitted, which is a draft.
LEMMA IdMoves ==
  ASSUME IInv, IdInv, NEW s \in Shells, UNCHANGED <<object, collided>>,
         \A x \in Shells : draft'[x] \in {draft[x], None},
         pending' = pending \/ (draft[s] \in Writes /\ pending' = Append(pending, draft[s]))
  PROVE  IdInv'
<1>0. TypeOK
  BY DEF IInv
<1>1. SUFFICES ASSUME ~collided, NEW x \in Shells, draft'[x] \in Writes
      PROVE /\ \A t \in Shells \ {x} : draft'[t] \in Writes => draft'[t].ms # draft'[x].ms
            /\ \A n \in 1 .. Len(pending') : pending'[n].ms = draft'[x].ms => pending'[n] = draft'[x]
            /\ object[draft'[x].ms] \in Writes => object[draft'[x].ms] = draft'[x]
  BY DEF IdInv
<1>2. /\ draft'[x] = draft[x]
      /\ \A t \in Shells \ {x} : draft[t] \in Writes => draft[t].ms # draft[x].ms
      /\ \A n \in 1 .. Len(pending) : pending[n].ms = draft[x].ms => pending[n] = draft[x]
      /\ object[draft[x].ms] \in Writes => object[draft[x].ms] = draft[x]
  BY <1>1, NoneAssumption DEF IdInv
<1>3. \A t \in Shells \ {x} : draft'[t] \in Writes => draft'[t].ms # draft'[x].ms
  BY <1>2, NoneAssumption
<1>4. \A n \in 1 .. Len(pending') : pending'[n].ms = draft'[x].ms => pending'[n] = draft'[x]
  <2>1. CASE pending' = pending
    BY <1>2, <2>1
  <2>2. CASE draft[s] \in Writes /\ pending' = Append(pending, draft[s])
    <3>1. \A n \in 1 .. Len(pending') : (n \in 1 .. Len(pending) /\ pending'[n] = pending[n]) \/ pending'[n] = draft[s]
      BY <1>0, <2>2, AppendProperties, LenProperties DEF TypeOK
    <3> QED BY <1>2, <2>2, <3>1
  <2> QED BY <2>1, <2>2
<1> QED BY <1>2, <1>3, <1>4

\* A new draft has an id that no draft and no write in flight has.
LEMMA IdOpen ==
  ASSUME IInv, IdInv, NEW s \in Shells, PostOpen(s)
  PROVE  IdInv'
<1>0. TypeOK /\ GrantInv
  BY DEF IInv
<1>1. ASSUME NEW v, Report(s, v), collided' = collided PROVE IdInv'
  <2>1. \A x \in Shells : draft'[x] \in {draft[x], None}
    BY <1>0, <1>1 DEF TypeOK, Report
  <2> QED BY <1>1, <2>1, IdMoves DEF PostOpen
<1>2. ASSUME NEW l \in load, NEW owner \in UNION {grantor_for(x) : x \in {y \in load : agent(y)}}, NEW w,
             w = [by |-> s, owner |-> owner, signer |-> l.ident, ms |-> now, run |-> runs],
             draft' = [draft EXCEPT ![s] = w],
             collided' = (collided \/ object[now] # None
                          \/ (\E n \in DOMAIN pending : pending[n].ms = now)
                          \/ (\E t \in Shells : draft[t] # None /\ draft[t].ms = now))
      PROVE  IdInv'
  <2>1. w \in Writes /\ w.ms = now
    BY <1>0, <1>2, OpenedWrite
  <2>2. SUFFICES ASSUME ~collided', NEW x \in Shells, draft'[x] \in Writes
        PROVE /\ \A t \in Shells \ {x} : draft'[t] \in Writes => draft'[t].ms # draft'[x].ms
              /\ \A n \in 1 .. Len(pending) : pending[n].ms = draft'[x].ms => pending[n] = draft'[x]
              /\ object[draft'[x].ms] \in Writes => object[draft'[x].ms] = draft'[x]
    BY DEF IdInv, PostOpen
  <2>3. /\ ~collided /\ object[now] \notin Writes
        /\ \A n \in 1 .. Len(pending) : pending[n].ms # now
        /\ \A t \in Shells : draft[t] \in Writes => draft[t].ms # now
    BY <1>0, <1>2, <2>2, NoneAssumption, LenProperties DEF TypeOK
  <2>4. draft'[s] = w /\ \A t \in Shells \ {s} : draft'[t] = draft[t]
    BY <1>0, <1>2 DEF TypeOK
  <2>5. CASE x = s
    BY <2>1, <2>3, <2>4, <2>5
  <2>6. CASE x # s
    <3>1. /\ draft[x] \in Writes /\ draft'[x] = draft[x]
          /\ \A t \in Shells \ {x} : draft[t] \in Writes => draft[t].ms # draft[x].ms
          /\ \A n \in 1 .. Len(pending) : pending[n].ms = draft[x].ms => pending[n] = draft[x]
          /\ object[draft[x].ms] \in Writes => object[draft[x].ms] = draft[x]
      BY <2>2, <2>3, <2>4, <2>6 DEF IdInv
    <3>2. draft[x].ms # now
      BY <2>3, <3>1
    <3> QED BY <2>1, <2>4, <3>1, <3>2
  <2> QED BY <2>5, <2>6
<1> QED BY <1>1, <1>2 DEF PostOpen

\* The oldest write is synced, and has the id it had.
LEMMA IdSync ==
  ASSUME IInv, IdInv, Sync
  PROVE  IdInv'
<1>0. TypeOK
  BY DEF IInv
<1>1. /\ UNCHANGED <<draft, collided>> /\ pending # <<>> /\ pending' = Tail(pending)
      /\ object' \in {object, [object EXCEPT ![Head(pending).ms] = Head(pending)]}
  BY DEF Sync, local
<1>2. SUFFICES ASSUME ~collided, NEW x \in Shells, draft[x] \in Writes
      PROVE /\ \A t \in Shells \ {x} : draft[t] \in Writes => draft[t].ms # draft[x].ms
            /\ \A n \in 1 .. Len(pending') : pending'[n].ms = draft[x].ms => pending'[n] = draft[x]
            /\ object'[draft[x].ms] \in Writes => object'[draft[x].ms] = draft[x]
  BY <1>1 DEF IdInv
<1>3. /\ \A t \in Shells \ {x} : draft[t] \in Writes => draft[t].ms # draft[x].ms
      /\ \A n \in 1 .. Len(pending) : pending[n].ms = draft[x].ms => pending[n] = draft[x]
      /\ object[draft[x].ms] \in Writes => object[draft[x].ms] = draft[x]
  BY <1>2 DEF IdInv
<1>4. \A n \in 1 .. Len(pending') : pending'[n].ms = draft[x].ms => pending'[n] = draft[x]
  BY <1>0, <1>1, <1>3, HeadTypes
<1>5. Head(pending).ms = draft[x].ms => Head(pending) = draft[x]
  BY <1>0, <1>1, <1>3, HeadTypes
<1>6. draft[x].ms \in 0 .. MaxMs
  BY <1>2 DEF Writes
<1>7. object'[draft[x].ms] = object[draft[x].ms]
      \/ (object'[draft[x].ms] = Head(pending) /\ Head(pending).ms = draft[x].ms)
  <2>1. CASE object' = object
    BY <2>1
  <2>2. ASSUME NEW m, m = Head(pending).ms, object' = [object EXCEPT ![m] = Head(pending)]
        PROVE  \/ object'[draft[x].ms] = object[draft[x].ms]
               \/ (object'[draft[x].ms] = Head(pending) /\ m = draft[x].ms)
    BY <1>0, <1>6, <2>2 DEF TypeOK
  <2> QED BY <1>1, <2>1, <2>2
<1> QED BY <1>3, <1>4, <1>5, <1>7

\* Ids stay apart while no two posts met in one millisecond.
LEMMA IdNext == IInv /\ IdInv /\ [Next]_vars => IdInv'
<1> SUFFICES ASSUME IInv, IdInv, [Next]_vars PROVE IdInv'
  OBVIOUS
<1>0. TypeOK /\ StepInv
  BY DEF IInv
<1>1. ASSUME NEW s \in Shells,
             \/ Begin(s) \/ LoginRefused(s) \/ Truncate(s) \/ Save(s) \/ Whoami(s) \/ PostSign(s)
             \/ PostConfirm(s) \/ Kill(s) \/ (\E a \in Approvals : LoginDelivered(s, a))
             \/ \E i \in Imports : Import(s, i)
      PROVE  IdInv'
  <2>1. /\ UNCHANGED <<object, collided, pending>>
        /\ (\E v : Report(s, v)) \/ UNCHANGED draft
    BY <1>1 DEF Begin, LoginBegin, ImportBegin, WhoamiBegin, PostBegin, Run, LoginDelivered, LoginRefused,
                Import, Truncate, Save, Whoami, PostSign, PostConfirm, Kill
  <2>2. \A x \in Shells : draft'[x] \in {draft[x], None}
    BY <1>0, <2>1 DEF TypeOK, Report
  <2> QED BY <2>1, <2>2, IdMoves
<1>2. ASSUME NEW s \in Shells, PostSubmit(s) PROVE IdInv'
  <2>1. /\ UNCHANGED <<object, collided>> /\ pending' \in {pending, Append(pending, draft[s])}
        /\ (\E v : Report(s, v)) \/ UNCHANGED draft
    BY <1>2 DEF PostSubmit
  <2>2. draft[s] \in Writes
    BY <1>0, <1>2 DEF PostSubmit, StepInv, Posting
  <2>3. \A x \in Shells : draft'[x] \in {draft[x], None}
    BY <1>0, <2>1 DEF TypeOK, Report
  <2> QED BY <2>1, <2>2, <2>3, IdMoves
<1>3. CASE Tick \/ UNCHANGED vars
  BY <1>3 DEF Tick, vars, local, IdInv
<1> QED BY <1>1, <1>2, <1>3, IdOpen, IdSync DEF Next, Command

\* What the daemon serves under the id of a write being posted is that write.
LEMMA ServedIsMine ==
  ASSUME IInv, IdInv, ~collided, NEW s \in Shells, draft[s] \in Writes, NEW w \in Served(draft[s].ms)
  PROVE  w = draft[s] /\ w \in Range(pending) \cup {object[draft[s].ms]}
<1>0. TypeOK /\ DOMAIN pending = 1 .. Len(pending)
  BY LenProperties DEF IInv, TypeOK
<1>1. CASE \E n \in DOMAIN pending : pending[n].ms = draft[s].ms
  <2>1. PICK n \in DOMAIN pending : w = pending[n] /\ pending[n].ms = draft[s].ms
    BY <1>1 DEF Served, Newest
  <2> QED BY <1>0, <2>1 DEF IdInv, Range
<1>2. CASE ~\E n \in DOMAIN pending : pending[n].ms = draft[s].ms
  <2>1. w = object[draft[s].ms] /\ w # None /\ draft[s].ms \in 0 .. MaxMs
    BY <1>2 DEF Served, Writes
  <2>2. w \in Writes
    BY <1>0, <2>1 DEF TypeOK
  <2> QED BY <2>1, <2>2 DEF IdInv
<1> QED BY <1>1, <1>2

\* "attribution confirmed" is only said of a post of this command that is in
\* flight or confirmed, unless two posts met in one millisecond.
THEOREM ConfirmedSafe == Spec => ConfirmedIsMine
<1>1. ASSUME IInv, FileInv, IdInv, [Next]_vars, NEW s \in Shells, at[s] = "confirm", said'[s] = "confirmed", ~collided
      PROVE  draft[s] \in Range(pending) \cup {object[draft[s].ms]}
  <2>0. TypeOK /\ StepInv /\ said[s] = None
    BY <1>1 DEF IInv, FileInv
  <2>1. said'[s] # said[s]
    BY <1>1, <2>0, NoneAssumption DEF Reports
  <2>2. PostConfirm(s)
    <3>1. ~Kill(s)
      BY <1>1, <2>0 DEF Kill, Report, TypeOK
    <3> QED BY <1>1, <2>1, <3>1, SaidByOthers
            DEF Begin, LoginBegin, ImportBegin, WhoamiBegin, PostBegin, Run, Command, LoginDelivered,
                LoginRefused, Import, Truncate, Save, Whoami, PostOpen, PostSign, PostSubmit
  <2>3. draft[s] \in Writes
    BY <1>1, <2>0 DEF StepInv, Posting
  <2>4. \E w \in Served(draft[s].ms) : TRUE
    BY <1>1, <2>0, <2>2 DEF PostConfirm, Report, TypeOK
  <2> QED BY <1>1, <2>3, <2>4, ServedIsMine
<1>2. IInv /\ FileInv /\ IdInv /\ [Next]_vars =>
  [\A s \in Shells : (at[s] = "confirm" /\ said'[s] = "confirmed" /\ ~collided)
       => draft[s] \in Range(pending) \cup {object[draft[s].ms]}]_vars
  BY <1>1
<1>3. Init => FileInv /\ IdInv
  BY NoneAssumption DEF Init, FileInv, Rewriting, IdInv
<1> QED BY InitInv, NextInv, FileNext, IdNext, <1>2, <1>3, PTL DEF Spec, ConfirmedIsMine
=============================================================================
