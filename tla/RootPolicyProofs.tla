-------------------------- MODULE RootPolicyProofs --------------------------
(***************************************************************************)
(* Proofs about module RootPolicy, for any number of operators, runs,      *)
(* identities and layers: the sys key leaves the policy in force only if a *)
(* cutover was acknowledged, no entry is in force twice, and tools used    *)
(* one after the other lose and move no entry.                             *)
(***************************************************************************)
EXTENDS RootPolicy, WellFoundedInduction, TLAPS

Keeps(p) == Sys \in p.admin

\* Nothing acknowledged: the sys key is an admin in the policy in force, in
\* every policy on its way to the chain and in every copy a tool is editing.
CutoverInv ==
  /\ \E S : pending \in Seq(S)
  /\ hidden \in 0 .. Len(pending)
  /\ update = [o \in Operators |-> update[o]]
  /\ ~acked => /\ Keeps(policy)
               /\ \A n \in 1 .. Len(pending) : Keeps(pending[n])
               /\ \A o \in Operators : Keeps(update[o])

LEMMA CutoverInit == Init => CutoverInv
  BY DEF Init, CutoverInv, Keeps

\* The fetched copy keeps the sys key while nothing is acknowledged.
LEMMA FetchedKeeps == CutoverInv /\ ~acked => Keeps(Fetched)
<1> SUFFICES ASSUME CutoverInv, ~acked PROVE Keeps(Fetched)
  OBVIOUS
<1>1. CASE Confirmed
  BY <1>1 DEF Fetched, CutoverInv
<1>2. CASE ~Confirmed
  <2>1. PICK S : pending \in Seq(S)
    BY DEF CutoverInv
  <2>2. Len(pending) \in 1 .. Len(pending)
    BY <2>1, <1>2 DEF Confirmed, CutoverInv
  <2> QED
    BY <2>2, <1>2 DEF Fetched, CutoverInv
<1> QED
  BY <1>1, <1>2

\* An edited copy is handed to one operator.
LEMMA EditKeeps ==
  ASSUME CutoverInv, NEW o \in Operators, NEW u, ~acked' => Keeps(u), acked => acked',
         update' = [update EXCEPT ![o] = u], UNCHANGED <<policy, pending, hidden>>
  PROVE  CutoverInv'
<1>1. \A p \in Operators : update'[p] = IF p = o THEN u ELSE update[p]
  BY DEF CutoverInv
<1>2. update' = [p \in Operators |-> update'[p]]
  BY DEF CutoverInv
<1>3. \E S : pending' \in Seq(S)
  BY DEF CutoverInv
<1>4. ASSUME ~acked'
      PROVE /\ Keeps(policy)' /\ \A n \in 1 .. Len(pending') : Keeps(pending'[n])
            /\ \A p \in Operators : Keeps(update'[p])
  <2>1. Keeps(policy) /\ (\A n \in 1 .. Len(pending) : Keeps(pending[n]))
        /\ \A p \in Operators : Keeps(update[p])
    BY <1>4 DEF CutoverInv
  <2> QED
    BY <2>1, <1>1, <1>4 DEF Keeps
<1> QED
  BY <1>2, <1>3, <1>4 DEF CutoverInv, Keeps

\* The queue gets shorter at its old end, and the overlay with it.
LEMMA ShiftLength ==
  ASSUME NEW S, pending \in Seq(S), hidden \in 0 .. Len(pending), Shift
  PROVE  pending' \in Seq(S) /\ Len(pending') = Len(pending) - 1 /\ hidden' \in 0 .. Len(pending')
<1>1. pending # <<>> /\ pending' = Tail(pending) /\ hidden' = IF hidden = 0 THEN 0 ELSE hidden - 1
  BY DEF Shift
<1>2. Len(pending) \in Nat /\ Len(pending) # 0
  BY <1>1
<1>3. pending' \in Seq(S) /\ Len(pending') = Len(pending) - 1
  BY <1>1
<1> QED BY <1>1, <1>2, <1>3

\* Taking the oldest pending policy off the queue.
LEMMA TailKeeps ==
  ASSUME CutoverInv, Shift, UNCHANGED <<update, acked>>,
         ~acked => Keeps(policy')
  PROVE  CutoverInv'
<1>1. PICK S : pending \in Seq(S)
  BY DEF CutoverInv
<1>2. pending' \in Seq(S) /\ hidden' \in 0 .. Len(pending')
  BY <1>1, ShiftLength DEF CutoverInv
<1>3. \A n \in 1 .. Len(pending') : n + 1 \in 1 .. Len(pending) /\ pending'[n] = pending[n + 1]
  BY <1>1 DEF Shift
<1> QED
  BY <1>2, <1>3 DEF CutoverInv, Keeps

LEMMA CutoverStep == CutoverInv /\ [Next]_vars => CutoverInv'
<1> SUFFICES ASSUME CutoverInv, [Next]_vars PROVE CutoverInv'
  OBVIOUS
<1>1. ASSUME NEW o \in Operators, FetchForAdmin(o) PROVE CutoverInv'
  <2>1. PICK admins \in Admins \ {{}}, understood \in BOOLEAN :
           /\ is_cutover(admins) => understood
           /\ update' = [update EXCEPT ![o] = mutate_admin(Fetched, admins)]
           /\ acked' = (acked \/ understood)
    BY <1>1 DEF FetchForAdmin
  <2>2. ~acked' => Keeps(mutate_admin(Fetched, admins))
    BY <2>1 DEF is_cutover, mutate_admin, Keeps
  <2>3. (acked => acked') /\ UNCHANGED <<policy, pending, hidden>>
    BY <2>1, <1>1 DEF FetchForAdmin
  <2> QED
    BY <2>1, <2>2, <2>3, EditKeeps
<1>2. ASSUME NEW o \in Operators, FetchForLayer(o) PROVE CutoverInv'
  <2>1. PICK layer \in Layers : update' = [update EXCEPT ![o] = merge(Fetched, layer)]
    BY <1>2 DEF FetchForLayer
  <2>2. UNCHANGED <<policy, pending, hidden, acked>>
    BY <1>2 DEF FetchForLayer
  <2>3. ~acked => Keeps(merge(Fetched, layer))
    BY FetchedKeeps DEF merge, Keeps
  <2> QED
    BY <2>1, <2>2, <2>3, EditKeeps
<1>3. ASSUME NEW o \in Operators, Submit(o) PROVE CutoverInv'
  <2>1. UNCHANGED <<policy, hidden, update, acked>>
    BY <1>3 DEF Submit
  <2>2. PICK S : pending \in Seq(S)
    BY DEF CutoverInv
  <2>3. CASE UNCHANGED pending
    BY <2>1, <2>3 DEF CutoverInv, Keeps
  <2>4. CASE pending' = Append(pending, update[o])
    <3>1. pending \in Seq(S \cup {update[o]})
      BY <2>2
    <3>2. pending' \in Seq(S \cup {update[o]}) /\ Len(pending') = Len(pending) + 1
      BY <3>1, <2>4
    <3>3. \A n \in 1 .. Len(pending') : pending'[n] = IF n = Len(pending) + 1 THEN update[o] ELSE pending[n]
      BY <3>1, <3>2, <2>4
    <3>4. Len(pending) \in Nat
      BY <3>1
    <3>5. \A n \in 1 .. Len(pending') : n # Len(pending) + 1 => n \in 1 .. Len(pending)
      BY <3>2, <3>4
    <3>6. hidden' \in 0 .. Len(pending')
      BY <2>1, <3>2, <3>4 DEF CutoverInv
    <3> QED
      BY <3>2, <3>3, <3>5, <3>6, <2>1 DEF CutoverInv, Keeps
  <2> QED
    BY <1>3, <2>3, <2>4 DEF Submit
<1>4. CASE Sync
  <2>1. pending # <<>> /\ Shift /\ UNCHANGED <<update, acked>>
        /\ policy' = IF Sys \in policy.admin THEN Head(pending) ELSE policy
    BY <1>4 DEF Sync, Shift
  <2>2. PICK S : pending \in Seq(S)
    BY DEF CutoverInv
  <2>3. 1 \in 1 .. Len(pending) /\ Head(pending) = pending[1]
    BY <2>1, <2>2
  <2>4. ~acked => Keeps(policy')
    BY <2>1, <2>3 DEF CutoverInv, Keeps
  <2> QED
    BY <2>1, <2>4, TailKeeps
<1>5. CASE Drop
  <2>1. Shift /\ UNCHANGED <<policy, update, acked>>
    BY <1>5 DEF Drop
  <2>2. ~acked => Keeps(policy')
    BY <2>1 DEF CutoverInv, Keeps
  <2> QED
    BY <2>1, <2>2, TailKeeps
<1>6. CASE UNCHANGED vars
  BY <1>6 DEF vars, CutoverInv, Keeps
<1>7. CASE Forget
  <2>1. PICK S : pending \in Seq(S)
    BY DEF CutoverInv
  <2>2. hidden' \in 0 .. Len(pending) /\ UNCHANGED <<policy, pending, update, acked>>
    BY <1>7, <2>1 DEF Forget, CutoverInv
  <2> QED
    BY <2>2 DEF CutoverInv, Keeps
<1> QED
  BY <1>1, <1>2, <1>3, <1>4, <1>5, <1>6, <1>7 DEF Next

\* The sys key leaves the policy in force only after an operator passed
\* --i-understand-cutover (set_root_admin.rs, the cutover guard of run).
THEOREM CutoverSafe == Spec => []CutoverAcknowledged
<1>1. CutoverInv => CutoverAcknowledged
  BY DEF CutoverInv, CutoverAcknowledged, Keeps
<1> QED
  BY <1>1, CutoverInit, CutoverStep, PTL DEF Spec

-----------------------------------------------------------------------------
(* Induction, and what a merge computes.                                   *)

\* A set of numbers with 0 and with the successor of each of its members has all
\* of them: the smallest of those it has not would follow one that it has.
LEMMA InductionSet ==
  ASSUME NEW P, 0 \in P, \A n \in Nat : n \in P => n + 1 \in P
  PROVE  \A n \in Nat : n \in P
<1> DEFINE T == {n \in Nat : n \notin P}
           R == OpToRel(<, Nat)
<1> SUFFICES ASSUME T # {} PROVE FALSE
  OBVIOUS
<1>1. R = {ss \in Nat \X Nat : ss[1] < ss[2]} /\ IsWellFoundedOn(R, Nat)
  BY NatLessThanWellFounded DEF OpToRel
<1>2. T \subseteq Nat
  OBVIOUS
<1> HIDE DEF R
<1>3. PICK x \in T : \A y \in T : <<y, x>> \notin R
  <2> HIDE DEF T
  <2> QED BY <1>1, <1>2, WFMin
<1>4. x # 0 /\ x - 1 \in Nat /\ x - 1 < x /\ (x - 1) + 1 = x
  BY <1>3
<1>5. x - 1 \notin T
  BY <1>1, <1>2, <1>3, <1>4
<1> QED BY <1>3, <1>4, <1>5

Entry == Entries \cup {Genesis}
Clean(es) == es \in Seq(Entry) /\ IsInjective(es)

\* The one sequence begins with the other.
Extends(a, b) == Len(a) <= Len(b) /\ \A n \in 1 .. Len(a) : b[n] = a[n]

LEMMA ExtendsIsPrefix ==
  ASSUME NEW a \in Seq(Entry), NEW b \in Seq(Entry), Extends(a, b)
  PROVE  IsPrefix(a, b)
<1>1. Len(a) \in Nat /\ Len(b) \in Nat /\ Len(a) <= Len(b)
  BY DEF Extends
<1>2. SubSeq(a, 1, Len(a)) = [n \in 1 .. Len(a) |-> a[n]]
  BY <1>1
<1>3. SubSeq(b, 1, Len(a)) = [n \in 1 .. Len(a) |-> b[n]]
  BY <1>1
<1>4. \A n \in 1 .. Len(a) : b[n] = a[n]
  BY DEF Extends
<1> QED BY <1>1, <1>2, <1>3, <1>4 DEF IsPrefix

LEMMA ExtendsOrder ==
  ASSUME NEW a \in Seq(Entry), NEW b \in Seq(Entry), NEW c \in Seq(Entry)
  PROVE  Extends(a, a) /\ (Extends(a, b) /\ Extends(b, c) => Extends(a, c))
<1>1. Len(a) \in Nat /\ Len(b) \in Nat /\ Len(c) \in Nat
  OBVIOUS
<1> QED BY <1>1 DEF Extends

\* Pushing an entry keeps what is there and duplicates nothing.
LEMMA PushKeeps ==
  ASSUME NEW es, Clean(es), NEW e \in Entry
  PROVE  Clean(Push(es, e)) /\ Extends(es, Push(es, e))
<1>0. es \in Seq(Entry) /\ Len(es) \in Nat /\ DOMAIN es = 1 .. Len(es) /\ \A j, k \in 1 .. Len(es) : es[j] = es[k] => j = k
  BY DEF Clean, IsInjective
<1>1. CASE e \in Range(es)
  BY <1>0, <1>1 DEF Push, Clean, Extends
<1>2. CASE e \notin Range(es)
  <2> DEFINE t == Append(es, e)
  <2>1. t \in Seq(Entry) /\ Len(t) = Len(es) + 1 /\ t[Len(es) + 1] = e /\ \A n \in 1 .. Len(es) : t[n] = es[n]
    BY <1>0
  <2>2. DOMAIN t = 1 .. Len(es) + 1
    BY <2>1
  <2> HIDE DEF t
  <2>3. \A n \in 1 .. Len(es) + 1 : n \in 1 .. Len(es) \/ n = Len(es) + 1
    BY <1>0
  <2>4. \A n \in 1 .. Len(es) : es[n] # e
    BY <1>0, <1>2 DEF Range
  <2>5. \A j, k \in 1 .. Len(es) + 1 : t[j] = t[k] => j = k
    BY <1>0, <2>1, <2>3, <2>4
  <2>6. Clean(t)
    BY <2>1, <2>2, <2>5 DEF Clean, IsInjective
  <2>7. Extends(es, t)
    BY <1>0, <2>1 DEF Extends
  <2>8. Push(es, e) = t
    BY <1>2 DEF Push, t
  <2> QED BY <2>6, <2>7, <2>8
<1> QED BY <1>1, <1>2

\* A merge pushes the entries of the layer one after the other.
LEMMA MergeIsPushes ==
  ASSUME NEW p, NEW layer \in Seq(Entries)
  PROVE  \E g : /\ g[0] = p.entries /\ merge(p, layer) = [admin |-> p.admin, entries |-> g[Len(layer)]]
                /\ \A n \in 1 .. Len(layer) : g[n] = Push(g[n - 1], layer[n])
<1> DEFINE Merged(g, N) == g = [n \in 0 .. N |-> IF n = 0 THEN p.entries ELSE Push(g[n - 1], layer[n])]
           P == {N \in Nat : \E g : Merged(g, N)}
           L == Len(layer)
<1>0. L \in Nat
  OBVIOUS
<1>1. 0 \in P
  <2> DEFINE g == [n \in 0 .. 0 |-> p.entries]
  <2>1. g = [n \in 0 .. 0 |-> IF n = 0 THEN p.entries ELSE Push(g[n - 1], layer[n])]
    <3>1. \A n \in 0 .. 0 : n = 0
      OBVIOUS
    <3> QED BY <3>1
  <2> HIDE DEF g
  <2> QED BY <2>1
<1>2. ASSUME NEW N \in Nat, N \in P PROVE N + 1 \in P
  <2>1. PICK g : Merged(g, N)
    BY <1>2
  <2>2. \A n \in 0 .. N : g[n] = IF n = 0 THEN p.entries ELSE Push(g[n - 1], layer[n])
    <3> DEFINE w == [n \in 0 .. N |-> IF n = 0 THEN p.entries ELSE Push(g[n - 1], layer[n])]
    <3>1. g = w
      BY <2>1
    <3>2. \A n \in 0 .. N : w[n] = IF n = 0 THEN p.entries ELSE Push(g[n - 1], layer[n])
      OBVIOUS
    <3> HIDE DEF w
    <3> QED BY <3>1, <3>2
  <2> DEFINE h == [n \in 0 .. N + 1 |-> IF n = 0 THEN p.entries ELSE Push(g[n - 1], layer[n])]
  <2>3. \A n \in 0 .. N : h[n] = g[n]
    BY <2>2
  <2>4. \A n \in 0 .. N + 1 : n # 0 => n - 1 \in 0 .. N
    OBVIOUS
  <2>5. h = [n \in 0 .. N + 1 |-> IF n = 0 THEN p.entries ELSE Push(h[n - 1], layer[n])]
    <3>1. \A n \in 0 .. N + 1 : n # 0 => h[n - 1] = g[n - 1]
      BY <2>3, <2>4
    <3> DEFINE k == h
    <3> HIDE DEF h
    <3>2. k = h
      BY DEF k
    <3> QED BY <3>1 DEF h
  <2> HIDE DEF h
  <2>6. Merged(h, N + 1)
    BY <2>5
  <2> HIDE DEF Merged
  <2> QED BY <2>6
<1>3. L \in P
  <2> HIDE DEF P
  <2> QED BY <1>0, <1>1, <1>2, InductionSet
<1>4. PICK f : Merged(f, L)
  BY <1>3
<1> DEFINE F == CHOOSE g : g = [n \in 0 .. Len(layer) |-> IF n = 0 THEN p.entries ELSE Push(g[n - 1], layer[n])]
<1>5. F = [n \in 0 .. L |-> IF n = 0 THEN p.entries ELSE Push(F[n - 1], layer[n])]
  BY <1>4, Zenon
<1>6. merge(p, layer) = [admin |-> p.admin, entries |-> F[L]]
  BY DEF merge
<1> HIDE DEF F
<1>7. PICK g : g = F
  OBVIOUS
<1>8. \A n \in 0 .. L : g[n] = IF n = 0 THEN p.entries ELSE Push(g[n - 1], layer[n])
  <2> DEFINE w == [n \in 0 .. L |-> IF n = 0 THEN p.entries ELSE Push(g[n - 1], layer[n])]
  <2>1. g = w
    BY <1>5, <1>7
  <2>2. \A n \in 0 .. L : w[n] = IF n = 0 THEN p.entries ELSE Push(g[n - 1], layer[n])
    OBVIOUS
  <2> HIDE DEF w
  <2> QED BY <2>1, <2>2
<1>9. 0 \in 0 .. L /\ \A n \in 1 .. L : n \in 0 .. L /\ n # 0
  BY <1>0
<1> QED BY <1>6, <1>7, <1>8, <1>9

\* A merge keeps the entries that are there, in order, and duplicates nothing.
LEMMA MergeKeeps ==
  ASSUME NEW p, Clean(p.entries), NEW layer \in Seq(Entries)
  PROVE  Clean(merge(p, layer).entries) /\ Extends(p.entries, merge(p, layer).entries)
<1>1. PICK g : /\ g[0] = p.entries /\ merge(p, layer) = [admin |-> p.admin, entries |-> g[Len(layer)]]
               /\ \A n \in 1 .. Len(layer) : g[n] = Push(g[n - 1], layer[n])
  BY MergeIsPushes
<1> DEFINE L == Len(layer)
           P == {n \in Nat : n <= L => Clean(g[n]) /\ Extends(p.entries, g[n])}
<1>2. L \in Nat /\ \A n \in 1 .. L : layer[n] \in Entry
  BY DEF Entry
<1>3. p.entries \in Seq(Entry)
  BY DEF Clean
<1>4. 0 \in P
  BY <1>1, <1>3, ExtendsOrder
<1>5. ASSUME NEW n \in Nat, n \in P PROVE n + 1 \in P
  <2> SUFFICES ASSUME n + 1 <= L PROVE Clean(g[n + 1]) /\ Extends(p.entries, g[n + 1])
    OBVIOUS
  <2>1. n <= L /\ n + 1 \in 1 .. L /\ (n + 1) - 1 = n
    BY <1>2
  <2>2. Clean(g[n]) /\ Extends(p.entries, g[n])
    BY <1>5, <2>1
  <2>3. g[n + 1] = Push(g[n], layer[n + 1])
    BY <1>1, <2>1
  <2>4. Clean(g[n + 1]) /\ Extends(g[n], g[n + 1])
    BY <1>2, <2>1, <2>2, <2>3, PushKeeps
  <2>5. g[n] \in Seq(Entry) /\ g[n + 1] \in Seq(Entry)
    BY <2>2, <2>4 DEF Clean
  <2> QED BY <1>3, <2>2, <2>4, <2>5, ExtendsOrder
<1>6. L \in P
  <2> HIDE DEF P
  <2> QED BY <1>2, <1>4, <1>5, InductionSet
<1> QED BY <1>1, <1>2, <1>6

-----------------------------------------------------------------------------
(* Types, and no entry twice.                                              *)

Docs == [admin : Admins, entries : {es \in Seq(Entry) : IsInjective(es)}]

\* The policy in force, those on their way and the copies being edited are
\* policies in which no entry occurs twice.
DocInv ==
  /\ policy \in Docs /\ pending \in Seq(Docs) /\ update \in [Operators -> Docs]
  /\ hidden \in 0 .. Len(pending)
  /\ at \in [Operators -> {"idle", "submit"}]
  /\ runs \in 0 .. MaxRuns /\ acked \in BOOLEAN /\ overlapped \in BOOLEAN /\ blind \in BOOLEAN

LEMMA DocParts ==
  ASSUME NEW d \in Docs
  PROVE  IsPolicy(d) /\ Clean(d.entries)
  BY DEF Docs, IsPolicy, Clean, Entry

LEMMA DocInit == Init => DocInv
<1> SUFFICES ASSUME Init PROVE DocInv
  OBVIOUS
<1>1. <<Genesis>> \in Seq(Entry) /\ IsInjective(<<Genesis>>)
  BY DEF Entry, IsInjective
<1>2. {Sys} \in Admins
  BY DEF Admins
<1>3. policy \in Docs
  BY <1>1, <1>2 DEF Init, Docs
<1>4. pending \in Seq(Docs) /\ hidden \in 0 .. Len(pending)
  BY DEF Init
<1>5. update \in [Operators -> Docs]
  <2>1. update = [o \in Operators |-> policy]
    BY DEF Init
  <2> QED BY <1>3, <2>1
<1>6. at \in [Operators -> {"idle", "submit"}]
  BY DEF Init
<1>7. runs \in 0 .. MaxRuns /\ acked \in BOOLEAN /\ overlapped \in BOOLEAN /\ blind \in BOOLEAN
  <2>1. 0 \in 0 .. MaxRuns
    BY RootPolicyAssumption
  <2>2. runs = 0 /\ acked = FALSE /\ overlapped = FALSE /\ blind = FALSE
    BY DEF Init
  <2> QED BY <2>1, <2>2
<1> QED BY <1>3, <1>4, <1>5, <1>6, <1>7 DEF DocInv

LEMMA FetchedDoc == DocInv => Fetched \in Docs
<1> SUFFICES ASSUME DocInv PROVE Fetched \in Docs
  OBVIOUS
<1>1. policy \in Docs /\ pending \in Seq(Docs)
  BY DEF DocInv
<1>2. ~Confirmed => Len(pending) \in 1 .. Len(pending)
  BY <1>1 DEF Confirmed, DocInv
<1> QED BY <1>1, <1>2 DEF Fetched

\* What the tools make of a policy: set-root-admin keeps the entries, and
\* add-policy-layer adds to them.
Follows(d, u) == Extends(d.entries, u.entries)

LEMMA AdminEdit ==
  ASSUME NEW d \in Docs, NEW admins \in Admins
  PROVE  mutate_admin(d, admins) \in Docs /\ Follows(d, mutate_admin(d, admins))
<1>1. mutate_admin(d, admins) \in Docs
  BY DEF mutate_admin, Docs
<1>2. Extends(d.entries, d.entries)
  BY DocParts, ExtendsOrder DEF Clean
<1> QED BY <1>1, <1>2 DEF Follows, mutate_admin

LEMMA LayerEdit ==
  ASSUME NEW d \in Docs, NEW layer \in Layers
  PROVE  merge(d, layer) \in Docs /\ Follows(d, merge(d, layer))
<1>1. layer \in Seq(Entries)
  BY RootPolicyAssumption
<1>2. Clean(merge(d, layer).entries) /\ Extends(d.entries, merge(d, layer).entries)
  BY <1>1, DocParts, MergeKeeps
<1>3. PICK es : merge(d, layer) = [admin |-> d.admin, entries |-> es]
  BY DEF merge
<1>4. Clean(es) /\ d.admin \in Admins
  BY <1>2, <1>3 DEF Docs
<1>5. merge(d, layer) \in Docs
  BY <1>3, <1>4 DEF Clean, Docs
<1> QED BY <1>2, <1>5 DEF Follows

\* A fetch hands the tool a copy that carries on from the fetched policy.
LEMMA FetchEdits ==
  ASSUME DocInv, NEW o \in Operators, FetchForAdmin(o) \/ FetchForLayer(o)
  PROVE  /\ \E u \in Docs : Follows(Fetched, u) /\ update' = [update EXCEPT ![o] = u]
         /\ at' = [at EXCEPT ![o] = "submit"] /\ runs' = runs + 1 /\ runs < MaxRuns
         /\ acked' \in BOOLEAN /\ Reads(o)
         /\ UNCHANGED <<policy, pending, hidden>>
<1>0. Fetched \in Docs /\ acked \in BOOLEAN
  BY FetchedDoc DEF DocInv
<1>1. CASE FetchForAdmin(o)
  <2>1. PICK admins \in Admins \ {{}}, understood \in BOOLEAN :
           /\ update' = [update EXCEPT ![o] = mutate_admin(Fetched, admins)]
           /\ acked' = (acked \/ understood)
    BY <1>1 DEF FetchForAdmin
  <2>2. mutate_admin(Fetched, admins) \in Docs /\ Follows(Fetched, mutate_admin(Fetched, admins))
    BY <1>0, AdminEdit
  <2>3. acked' \in BOOLEAN
    BY <1>0, <2>1
  <2> QED BY <1>1, <2>1, <2>2, <2>3 DEF FetchForAdmin
<1>2. CASE FetchForLayer(o)
  <2>1. PICK layer \in Layers : update' = [update EXCEPT ![o] = merge(Fetched, layer)]
    BY <1>2 DEF FetchForLayer
  <2>2. merge(Fetched, layer) \in Docs /\ Follows(Fetched, merge(Fetched, layer))
    BY <1>0, LayerEdit
  <2> QED BY <1>0, <1>2, <2>1, <2>2 DEF FetchForLayer
<1> QED BY <1>1, <1>2

LEMMA DocStep == DocInv /\ [Next]_vars => DocInv'
<1> SUFFICES ASSUME DocInv, [Next]_vars PROVE DocInv'
  OBVIOUS
<1>0. /\ policy \in Docs /\ pending \in Seq(Docs) /\ update \in [Operators -> Docs]
      /\ hidden \in 0 .. Len(pending) /\ at \in [Operators -> {"idle", "submit"}]
      /\ runs \in 0 .. MaxRuns /\ acked \in BOOLEAN /\ overlapped \in BOOLEAN /\ blind \in BOOLEAN
  BY DEF DocInv
<1>1. ASSUME NEW o \in Operators, FetchForAdmin(o) \/ FetchForLayer(o) PROVE DocInv'
  <2>1. PICK u \in Docs : update' = [update EXCEPT ![o] = u]
    BY <1>1, FetchEdits
  <2>2. /\ at' = [at EXCEPT ![o] = "submit"] /\ runs' = runs + 1 /\ runs < MaxRuns
        /\ acked' \in BOOLEAN /\ Reads(o)
        /\ UNCHANGED <<policy, pending, hidden>>
    BY <1>1, FetchEdits
  <2>3. runs' \in 0 .. MaxRuns
    BY <1>0, <2>2, RootPolicyAssumption
  <2>4. overlapped' \in BOOLEAN /\ blind' \in BOOLEAN
    BY <1>0, <2>2 DEF Reads
  <2> QED BY <1>0, <2>1, <2>2, <2>3, <2>4 DEF DocInv
<1>2. ASSUME NEW o \in Operators, Submit(o) PROVE DocInv'
  <2>1. pending' \in {pending, Append(pending, update[o])} /\ hidden' = hidden
    BY <1>2 DEF Submit
  <2>2. pending' \in Seq(Docs) /\ hidden' \in 0 .. Len(pending')
    BY <1>0, <2>1
  <2> QED BY <1>0, <1>2, <2>2 DEF Submit, DocInv
<1>3. CASE Sync \/ Drop
  <2>1. pending # <<>> /\ Shift /\ policy' \in {policy, Head(pending)}
        /\ UNCHANGED <<at, update, runs, acked, overlapped, blind>>
    BY <1>3 DEF Sync, Drop, Shift
  <2>2. pending' \in Seq(Docs) /\ hidden' \in 0 .. Len(pending') /\ Head(pending) \in Docs
    BY <1>0, <2>1, ShiftLength
  <2> QED BY <1>0, <2>1, <2>2 DEF DocInv
<1>4. CASE UNCHANGED vars
  BY <1>4 DEF vars, DocInv
<1>5. CASE Forget
  <2>1. hidden' \in 0 .. Len(pending)
    BY <1>0, <1>5 DEF Forget
  <2> QED BY <1>0, <1>5, <2>1 DEF Forget, DocInv
<1> QED BY <1>1, <1>2, <1>3, <1>4, <1>5 DEF Next

\* Policies, queue, tools and histories keep their types (the state of both
\* tools between their fetch and their submit, and of the daemon).
THEOREM TypeCorrect == Spec => []TypeOK
<1>1. DocInv => TypeOK
  <2> SUFFICES ASSUME DocInv PROVE TypeOK
    OBVIOUS
  <2>1. \A n \in DOMAIN pending : pending[n] \in Docs
    BY DEF DocInv
  <2>2. policy \in Docs /\ \A o \in Operators : update[o] \in Docs
    BY DEF DocInv
  <2> QED BY <2>1, <2>2, DocParts DEF DocInv, TypeOK
<1> QED BY <1>1, DocInit, DocStep, PTL DEF Spec

\* No entry is in force twice, however often a layer was submitted again
\* (add_policy_layer.rs, merge).
THEOREM NoDuplicateSafe == Spec => []NoDuplicateEntry
<1>1. DocInv => NoDuplicateEntry
  BY DEF DocInv, Docs, NoDuplicateEntry
<1> QED BY <1>1, DocInit, DocStep, PTL DEF Spec

-----------------------------------------------------------------------------
(* No entry lost.                                                          *)

\* Each pending policy carries on from the policy in force and from those
\* before it; and a copy from all of them.
Line(pol, pend) ==
  /\ \A n \in 1 .. Len(pend) : Follows(pol, pend[n])
  /\ \A j, k \in 1 .. Len(pend) : j <= k => Follows(pend[j], pend[k])
Ahead(pol, pend, u) == Follows(pol, u) /\ \A n \in 1 .. Len(pend) : Follows(pend[n], u)

\* As long as the tools have not overlapped and read past nothing, one copy at
\* most is being edited, and it carries on from everything in force or pending.
OrderInv ==
  (~overlapped /\ ~blind) =>
    /\ Line(policy, pending)
    /\ \A o \in Operators : at[o] = "submit" => Ahead(policy, pending, update[o])
    /\ \A o, p \in Operators : at[o] = "submit" /\ at[p] = "submit" => o = p

LEMMA FollowsOrder ==
  ASSUME NEW a \in Docs, NEW b \in Docs, NEW c \in Docs
  PROVE  Follows(a, a) /\ (Follows(a, b) /\ Follows(b, c) => Follows(a, c))
<1>1. a.entries \in Seq(Entry) /\ b.entries \in Seq(Entry) /\ c.entries \in Seq(Entry)
  BY DocParts DEF Clean
<1> QED BY <1>1, ExtendsOrder DEF Follows

\* The oldest pending policy leaves the queue, applied or not.
LEMMA LineTail ==
  ASSUME NEW pol, NEW pend \in Seq(Docs), pend # <<>>, Line(pol, pend), NEW next \in {pol, Head(pend)}
  PROVE  /\ Line(next, Tail(pend)) /\ Follows(pol, Head(pend))
         /\ \A u : Ahead(pol, pend, u) => Ahead(next, Tail(pend), u)
<1>1. Len(pend) \in Nat /\ 1 \in 1 .. Len(pend) /\ Head(pend) = pend[1] /\ Len(Tail(pend)) = Len(pend) - 1
  OBVIOUS
<1>2. \A n \in 1 .. Len(Tail(pend)) : n + 1 \in 1 .. Len(pend) /\ 1 <= n + 1 /\ Tail(pend)[n] = pend[n + 1]
  BY <1>1
<1>3. \A n \in 1 .. Len(Tail(pend)) : Follows(next, Tail(pend)[n])
  BY <1>1, <1>2 DEF Line
<1>4. \A j, k \in 1 .. Len(Tail(pend)) : j <= k => Follows(Tail(pend)[j], Tail(pend)[k])
  BY <1>1, <1>2 DEF Line
<1>5. ASSUME NEW u, Ahead(pol, pend, u) PROVE Ahead(next, Tail(pend), u)
  BY <1>1, <1>2, <1>5 DEF Ahead
<1> QED BY <1>1, <1>3, <1>4, <1>5 DEF Line

\* A copy that carries on from all joins the end of the queue.
LEMMA LineAppend ==
  ASSUME NEW pol, NEW pend \in Seq(Docs), NEW u \in Docs, Line(pol, pend), Ahead(pol, pend, u)
  PROVE  Line(pol, Append(pend, u))
<1> DEFINE q == Append(pend, u)
           L == Len(pend)
<1>1. L \in Nat /\ Len(q) = L + 1 /\ q[L + 1] = u /\ \A n \in 1 .. L : q[n] = pend[n]
  OBVIOUS
<1>2. \A n \in 1 .. L + 1 : n \in 1 .. L \/ n = L + 1
  BY <1>1
<1>3. Follows(u, u)
  BY FollowsOrder
<1> HIDE DEF q
<1>4. \A n \in 1 .. Len(q) : Follows(pol, q[n])
  BY <1>1, <1>2 DEF Line, Ahead
<1>5. ASSUME NEW j \in 1 .. Len(q), NEW k \in 1 .. Len(q), j <= k PROVE Follows(q[j], q[k])
  <2>1. CASE k = L + 1
    BY <1>1, <1>2, <1>3, <2>1 DEF Ahead
  <2>2. CASE k \in 1 .. L
    <3>1. j \in 1 .. L
      BY <1>1, <1>5, <2>2
    <3> QED BY <1>1, <1>5, <2>2, <3>1 DEF Line
  <2> QED BY <1>1, <1>2, <2>1, <2>2
<1> QED BY <1>4, <1>5 DEF Line, q

\* The fetched policy, unless it was read past one that is forgotten, carries on
\* from all, and so does what carries on from it.
LEMMA FetchedAhead ==
  ASSUME DocInv, Line(policy, pending), ~(Confirmed /\ pending # <<>>), NEW u \in Docs, Follows(Fetched, u)
  PROVE  Ahead(policy, pending, u)
<1>0. policy \in Docs /\ pending \in Seq(Docs) /\ Len(pending) \in Nat /\ Fetched \in Docs
  BY FetchedDoc DEF DocInv
<1>1. Ahead(policy, pending, Fetched)
  <2>1. CASE pending = <<>>
    <3>1. Fetched = policy /\ 1 .. Len(pending) = {}
      BY <2>1 DEF Fetched, Confirmed, DocInv
    <3> QED BY <1>0, <3>1, FollowsOrder DEF Ahead
  <2>2. CASE pending # <<>>
    <3>1. Len(pending) \in 1 .. Len(pending) /\ \A n \in 1 .. Len(pending) : n <= Len(pending)
      BY <1>0, <2>2
    <3>2. Fetched = pending[Len(pending)]
      BY <2>2 DEF Fetched
    <3> QED BY <3>1, <3>2 DEF Ahead, Line
  <2> QED BY <2>1, <2>2
<1>2. \A n \in 1 .. Len(pending) : pending[n] \in Docs
  BY <1>0
<1> QED BY <1>0, <1>1, <1>2, FollowsOrder DEF Ahead

LEMMA OrderInit == Init => OrderInv
<1> SUFFICES ASSUME Init PROVE OrderInv
  OBVIOUS
<1>1. 1 .. Len(pending) = {} /\ \A o \in Operators : at[o] = "idle"
  BY DEF Init
<1> QED BY <1>1 DEF OrderInv, Line

LEMMA OrderStep == DocInv /\ OrderInv /\ [Next]_vars => OrderInv'
<1> SUFFICES ASSUME DocInv, OrderInv, [Next]_vars, ~overlapped', ~blind' PROVE OrderInv'
  BY DEF OrderInv
<1>0. /\ policy \in Docs /\ pending \in Seq(Docs) /\ update \in [Operators -> Docs]
      /\ at \in [Operators -> {"idle", "submit"}]
  BY DEF DocInv
<1>1. ASSUME NEW o \in Operators, FetchForAdmin(o) \/ FetchForLayer(o) PROVE OrderInv'
  <2>1. PICK u \in Docs : Follows(Fetched, u) /\ update' = [update EXCEPT ![o] = u]
    BY <1>1, FetchEdits
  <2>2. at' = [at EXCEPT ![o] = "submit"] /\ ~overlapped /\ ~blind /\ ~Overlap(o)
        /\ ~(Confirmed /\ pending # <<>>) /\ UNCHANGED <<policy, pending>>
    BY <1>1, FetchEdits DEF Reads
  <2>3. \A p \in Operators : at'[p] = "submit" => p = o
    BY <1>0, <2>2 DEF Overlap
  <2>4. Line(policy, pending)
    BY <2>2 DEF OrderInv
  <2>5. Ahead(policy, pending, u) /\ update'[o] = u
    BY <1>0, <2>1, <2>2, <2>4, FetchedAhead
  <2>6. \A p \in Operators : at'[p] = "submit" => Ahead(policy', pending', update'[p])
    BY <2>2, <2>3, <2>5
  <2>7. Line(policy', pending')
    BY <2>2, <2>4
  <2> QED BY <2>3, <2>6, <2>7 DEF OrderInv
<1>2. ASSUME NEW o \in Operators, Submit(o) PROVE OrderInv'
  <2>1. at[o] = "submit" /\ at' = [at EXCEPT ![o] = "idle"] /\ UNCHANGED <<policy, update, overlapped, blind>>
        /\ pending' \in {pending, Append(pending, update[o])}
    BY <1>2 DEF Submit
  <2>2. Line(policy, pending) /\ Ahead(policy, pending, update[o])
        /\ \A p \in Operators : at[p] = "submit" => p = o
    BY <2>1 DEF OrderInv
  <2>3. \A p \in Operators : at'[p] # "submit"
    BY <1>0, <2>1, <2>2
  <2>4. Line(policy, pending')
    BY <1>0, <2>1, <2>2, LineAppend
  <2> QED BY <2>1, <2>3, <2>4 DEF OrderInv
<1>3. CASE Sync \/ Drop
  <2>1. pending # <<>> /\ pending' = Tail(pending) /\ policy' \in {policy, Head(pending)}
        /\ UNCHANGED <<at, update, overlapped, blind>>
    BY <1>3 DEF Sync, Drop, Shift
  <2>2. Line(policy, pending) /\ ~overlapped /\ ~blind
    BY <2>1 DEF OrderInv
  <2>3. Line(policy', pending') /\ \A u : Ahead(policy, pending, u) => Ahead(policy', pending', u)
    BY <1>0, <2>1, <2>2, LineTail
  <2>4. \A o \in Operators : at'[o] = "submit" => Ahead(policy', pending', update'[o])
    BY <2>1, <2>2, <2>3 DEF OrderInv
  <2>5. \A o, p \in Operators : at'[o] = "submit" /\ at'[p] = "submit" => o = p
    BY <2>1, <2>2 DEF OrderInv
  <2> QED BY <2>3, <2>4, <2>5 DEF OrderInv
<1>4. CASE Forget \/ UNCHANGED vars
  BY <1>4 DEF Forget, vars, OrderInv, Line, Ahead
<1> QED BY <1>1, <1>2, <1>3, <1>4 DEF Next

\* A step in force carries on from the policy before it.
LEMMA StepFollows ==
  DocInv /\ OrderInv /\ [Next]_vars => (overlapped \/ blind \/ IsPrefix(policy.entries, policy'.entries))
<1> SUFFICES ASSUME DocInv, OrderInv, [Next]_vars, ~overlapped, ~blind
             PROVE  IsPrefix(policy.entries, policy'.entries)
  OBVIOUS
<1>0. policy \in Docs /\ pending \in Seq(Docs)
  BY DEF DocInv
<1>1. policy' = policy \/ (pending # <<>> /\ policy' = Head(pending))
  BY DEF Next, vars, FetchForAdmin, FetchForLayer, Submit, Sync, Drop, Shift, Forget
<1>2. PICK next : next = policy'
  OBVIOUS
<1>3. next \in Docs /\ Follows(policy, next)
  <2>1. CASE next = policy
    BY <1>0, <2>1, FollowsOrder
  <2>2. CASE pending # <<>> /\ next = Head(pending)
    <3>1. Line(policy, pending) /\ Head(pending) \in {policy, Head(pending)}
      BY DEF OrderInv
    <3>2. Follows(policy, Head(pending))
      BY <1>0, <2>2, <3>1, LineTail
    <3>3. Head(pending) \in Docs
      BY <1>0, <2>2
    <3> QED BY <2>2, <3>2, <3>3
  <2> QED BY <1>1, <1>2, <2>1, <2>2
<1>4. IsPrefix(policy.entries, next.entries)
  BY <1>0, <1>3, DocParts, ExtendsIsPrefix DEF Follows, Clean
<1> QED BY <1>2, <1>4

\* Used one after the other, from any number of shells, the tools never lose or
\* move an entry in force, whatever was lost, dropped or unsynced when they read,
\* unless the overlay had forgotten what was still on its way (fetch to submit in
\* add_policy_layer.rs and set_root_admin.rs).
THEOREM PriorSafe == Spec => PriorEntriesKept
<1>1. DocInv /\ OrderInv /\ [Next]_vars => [overlapped \/ blind \/ IsPrefix(policy.entries, policy'.entries)]_vars
  BY StepFollows
<1> QED BY <1>1, DocInit, DocStep, OrderInit, OrderStep, PTL DEF Spec, PriorEntriesKept
=============================================================================
