------------------------- MODULE DaemonToolsProofs -------------------------
(***************************************************************************)
(* Proofs about the tools that write through an SBO daemon.                *)
(*                                                                         *)
(* Module Seed, for any corpora, personas, communities, runs and retries:  *)
(* an item is refused for nothing but a proof that was not to be had, no   *)
(* reply is on the chain without what it answers, the lag is restored, and *)
(* success means that all is written.                                      *)
(*                                                                         *)
(* Module LiveTest, for any of the scenarios, finality depth, delay and    *)
(* number of misjudged writes: what a pass and a failure are worth, and    *)
(* that the sweep leaves no policy that could still be swept.              *)
(***************************************************************************)
EXTENDS Seed, LiveTest, FiniteSetTheorems, SequenceTheorems, WellFoundedInduction, TLAPS

-----------------------------------------------------------------------------
(* Induction, and the lists of a set.                                      *)

\* A set of numbers with 0 and with the successor of each of its members has all
\* of them: the smallest of those it has not would follow one that it has.
LEMMA InductionSet ==
  ASSUME NEW P, 0 \in P, \A n \in Nat : n \in P => n + 1 \in P
  PROVE  \A n \in Nat : n \in P
<1> DEFINE T == {n \in Nat : n \notin P}
           R == OpToRel(<, Nat)
<1> SUFFICES ASSUME T # {} PROVE FALSE
  OBVIOUS
<1>1. R = {ss \in Nat \X Nat : ss[1] < ss[2]} /\ IsWellFoundedOn(R, Nat)
  BY NatLessThanWellFounded DEF OpToRel
<1>2. T \subseteq Nat
  OBVIOUS
<1> HIDE DEF R
<1>3. PICK x \in T : \A y \in T : <<y, x>> \notin R
  <2> HIDE DEF T
  <2> QED BY <1>1, <1>2, WFMin
<1>4. x # 0 /\ x - 1 \in Nat /\ x - 1 < x /\ (x - 1) + 1 = x
  BY <1>3
<1>5. x - 1 \notin T
  BY <1>1, <1>2, <1>3, <1>4
<1> QED BY <1>3, <1>4, <1>5

\* A finite set of numbers has a largest one.
LEMMA SetMax ==
  ASSUME NEW S, IsFiniteSet(S), S \subseteq Int, S # {}
  PROVE  Max(S) \in S /\ \A y \in S : y <= Max(S)
<1> DEFINE P == {n \in Nat : \A Q \in SUBSET S : (Q # {} /\ Cardinality(Q) = n) => \E x \in Q : \A y \in Q : x >= y}
<1>0. \A Q \in SUBSET S : IsFiniteSet(Q) /\ Cardinality(Q) \in Nat
  BY FS_Subset, FS_CardinalityType
<1>1. 0 \in P
  <2>1. \A Q \in SUBSET S : Cardinality(Q) = 0 => Q = {}
    BY <1>0, FS_EmptySet
  <2> QED BY <2>1
<1>2. ASSUME NEW n \in Nat, n \in P PROVE n + 1 \in P
  <2> SUFFICES ASSUME NEW Q \in SUBSET S, Q # {}, Cardinality(Q) = n + 1 PROVE \E x \in Q : \A y \in Q : x >= y
    OBVIOUS
  <2>1. PICK q : q \in Q
    OBVIOUS
  <2>2. Cardinality(Q \ {q}) = n /\ Q \ {q} \in SUBSET S
    <3>1. IsFiniteSet(Q)
      BY <1>0
    <3>2. Cardinality(Q \ {q}) = Cardinality(Q) - 1
      BY <2>1, <3>1, FS_RemoveElement
    <3>3. Q \ {q} \in SUBSET S
      OBVIOUS
    <3>4. Cardinality(Q) - 1 = n
      OBVIOUS
    <3> QED BY <3>2, <3>3, <3>4
  <2>3. CASE Q \ {q} = {}
    BY <2>1, <2>3
  <2>4. CASE Q \ {q} # {}
    <3>1. PICK x \in Q \ {q} : \A y \in Q \ {q} : x >= y
      BY <1>2, <2>2, <2>4
    <3>2. x \in Int /\ q \in Int /\ Q \subseteq Int
      BY <2>1
    <3>3. CASE x >= q
      BY <3>1, <3>3
    <3>4. CASE ~(x >= q)
      <4>1. \A y \in Q : q >= y
        BY <3>1, <3>2, <3>4
      <4> QED BY <2>1, <4>1
    <3> QED BY <3>3, <3>4
  <2> QED BY <2>3, <2>4
<1>3. \A n \in Nat : n \in P
  <2> HIDE DEF P
  <2> QED BY <1>1, <1>2, InductionSet
<1>4. \E x \in S : \A y \in S : x >= y
  BY <1>0, <1>3
<1>5. Max(S) \in S /\ \A y \in S : Max(S) >= y
  BY <1>4 DEF Max
<1> QED BY <1>5

\* What an enumeration of a finite set without repetitions is.
LEMMA Enumerates ==
  ASSUME NEW S, IsFiniteSet(S), NEW f \in [1 .. Cardinality(S) -> S], IsInjective(f)
  PROVE  f \in Seq(S) /\ \A x \in S : \E n \in 1 .. Len(f) : f[n] = x
<1> DEFINE N == Cardinality(S)
           D == 1 .. N
<1>1. N \in Nat
  BY FS_CardinalityType
<1>2. f \in Seq(S) /\ Len(f) = N
  BY <1>1
<1>3. f \in Injection(D, S)
  BY DEF Injection
<1>4. IsFiniteSet(D) /\ Cardinality(D) = N
  <2>1. Cardinality(1 .. N) = IF 1 > N THEN 0 ELSE N - 1 + 1
    BY <1>1, FS_Interval
  <2> QED BY <1>1, <2>1, FS_Interval
<1>5. f \in Surjection(D, S)
  <2> HIDE DEF D, N
  <2>1. Cardinality(D) = Cardinality(S)
    BY <1>4 DEF N
  <2> QED BY <1>3, <2>1, FS_Injection
<1> QED BY <1>2, <1>5 DEF Surjection

LEMMA SetToSeqList ==
  ASSUME NEW S, IsFiniteSet(S)
  PROVE  SetToSeq(S) \in Seq(S) /\ \A x \in S : \E n \in 1 .. Len(SetToSeq(S)) : SetToSeq(S)[n] = x
<1>1. \E f \in [1 .. Cardinality(S) -> S] : IsInjective(f)
  BY FS_CardinalityType DEF ExistsBijection, Bijection, Injection
<1>2. SetToSeq(S) \in [1 .. Cardinality(S) -> S] /\ IsInjective(SetToSeq(S))
  BY <1>1 DEF SetToSeq
<1> QED BY <1>2, Enumerates

\* The list from the oldest to the youngest: there is one.
Sorted(S, f) ==
  LET D == 1 .. Cardinality(S)
  IN f \in [D -> S] /\ IsInjective(f) /\ \A m, n \in D : m < n => f[m].age >= f[n].age

LEMMA SortedExists ==
  ASSUME NEW S, IsFiniteSet(S), \A x \in S : x.age \in Int
  PROVE  \E f : Sorted(S, f)
<1> DEFINE P == {n \in Nat : \A Q \in SUBSET S : Cardinality(Q) = n => \E f : Sorted(Q, f)}
<1>0. \A Q \in SUBSET S : IsFiniteSet(Q) /\ Cardinality(Q) \in Nat
  BY FS_Subset, FS_CardinalityType
<1>1. 0 \in P
  <2> SUFFICES ASSUME NEW Q \in SUBSET S, Cardinality(Q) = 0 PROVE \E f : Sorted(Q, f)
    OBVIOUS
  <2>1. 1 .. Cardinality(Q) = {}
    OBVIOUS
  <2>2. <<>> \in [1 .. Cardinality(Q) -> Q]
    BY <2>1
  <2>3. Sorted(Q, <<>>)
    BY <2>1, <2>2 DEF Sorted, IsInjective
  <2> QED BY <2>3
<1>2. ASSUME NEW n \in Nat, n \in P PROVE n + 1 \in P
  <2> SUFFICES ASSUME NEW Q \in SUBSET S, Cardinality(Q) = n + 1 PROVE \E f : Sorted(Q, f)
    OBVIOUS
  <2>1. Q # {} /\ IsFiniteSet(Q)
    BY <1>0, FS_EmptySet
  <2>2. PICK q \in Q : \A x \in Q : x.age >= q.age
    <3> DEFINE A == {0 - x.age : x \in Q}
    <3>1. IsFiniteSet(A)
      <4> DEFINE f == [x \in Q |-> 0 - x.age]
      <4>1. f \in Surjection(Q, A)
        BY DEF Surjection
      <4> HIDE DEF f, A
      <4> QED BY <2>1, <4>1, FS_Surjection
    <3>2. A \subseteq Int /\ A # {}
      BY <2>1
    <3>3. Max(A) \in A /\ \A y \in A : y <= Max(A)
      <4> HIDE DEF A
      <4> QED BY <3>1, <3>2, SetMax
    <3>4. PICK q \in Q : Max(A) = 0 - q.age
      BY <3>3
    <3>5. \A x \in Q : 0 - x.age <= 0 - q.age /\ x.age \in Int /\ q.age \in Int
      BY <3>3, <3>4
    <3>6. \A x \in Q : x.age >= q.age
      BY <3>5
    <3> QED BY <3>6
  <2>3. Cardinality(Q \ {q}) = n /\ Q \ {q} \in SUBSET S
    <3>1. Cardinality(Q \ {q}) = Cardinality(Q) - 1
      BY <2>1, FS_RemoveElement
    <3> QED BY <3>1
  <2>4. PICK f : Sorted(Q \ {q}, f)
    BY <1>2, <2>3
  <2>5. f \in [1 .. n -> Q \ {q}] /\ IsInjective(f) /\ \A j, k \in 1 .. n : j < k => f[j].age >= f[k].age
    BY <2>3, <2>4 DEF Sorted
  <2> DEFINE g == [k \in 1 .. n + 1 |-> IF k = n + 1 THEN q ELSE f[k]]
  <2>6. \A k \in 1 .. n + 1 : k # n + 1 => k \in 1 .. n
    OBVIOUS
  <2>7. g \in [1 .. n + 1 -> Q]
    BY <2>5, <2>6
  <2>8. IsInjective(g)
    <3> SUFFICES ASSUME NEW j \in 1 .. n + 1, NEW k \in 1 .. n + 1, g[j] = g[k] PROVE j = k
      BY <2>7 DEF IsInjective
    <3> QED BY <2>5, <2>6 DEF IsInjective
  <2>9. ASSUME NEW j \in 1 .. n + 1, NEW k \in 1 .. n + 1, j < k PROVE g[j].age >= g[k].age
    <3>1. j \in 1 .. n /\ f[j] \in Q
      BY <2>5, <2>9
    <3>2. CASE k = n + 1
      BY <2>2, <3>1, <3>2
    <3>3. CASE k # n + 1
      BY <2>5, <2>6, <2>9, <3>1, <3>3
    <3> QED BY <3>2, <3>3
  <2> HIDE DEF g
  <2>10. Sorted(Q, g)
    BY <2>7, <2>8, <2>9 DEF Sorted
  <2> QED BY <2>10
<1>3. \A n \in Nat : n \in P
  <2> HIDE DEF P
  <2> QED BY <1>1, <1>2, InductionSet
<1> QED BY <1>0, <1>3

LEMMA OldestFirstList ==
  ASSUME NEW S, IsFiniteSet(S), \A x \in S : x.age \in Int
  PROVE  OldestFirst(S) \in Seq(S) /\ \A x \in S : \E n \in 1 .. Len(OldestFirst(S)) : OldestFirst(S)[n] = x
<1>1. PICK f : Sorted(S, f)
  BY SortedExists
<1>2. Sorted(S, OldestFirst(S))
  BY <1>1 DEF Sorted, OldestFirst
<1> QED BY <1>2, Enumerates DEF Sorted

-----------------------------------------------------------------------------
(* Ages.                                                                   *)

LEMMA DivMono ==
  ASSUME NEW x \in Nat, NEW y \in Nat, NEW d \in Nat, d > 0, x <= y
  PROVE  x \div d \in Nat /\ x \div d <= y \div d
OBVIOUS

LEMMA DivBound ==
  ASSUME NEW x \in Nat, NEW b \in Nat, NEW d \in Nat, d > 0, x <= b * d
  PROVE  x \div d <= b
OBVIOUS

LEMMA MulMono ==
  ASSUME NEW x \in Nat, NEW y \in Nat, NEW d \in Nat, x <= y
  PROVE  x * d \in Nat /\ y * d \in Nat /\ x * d <= y * d
OBVIOUS

\* The clamp keeps the order of ages, and clamped ages are within the cap.
LEMMA ClampKeeps ==
  ASSUME NEW a \in Int, NEW b \in Int, NEW max \in Int, NEW clamp \in BOOLEAN, a <= b, b <= max
  PROVE  /\ effective_age(a, max, clamp) \in Int
         /\ effective_age(a, max, clamp) <= effective_age(b, max, clamp)
         /\ effective_age(a, max, clamp) <= max
         /\ clamp => effective_age(a, max, clamp) <= CAP
<1>0. KNEE \in Nat /\ CAP \in Nat /\ KNEE < CAP
  BY SeedAssumption
<1>1. CASE ~clamp \/ max <= CAP
  BY <1>0, <1>1 DEF effective_age
<1>2. CASE clamp /\ ~(max <= CAP)
  <2> DEFINE w == CAP - KNEE
             d == max - KNEE
             e(x) == ((x - KNEE) * w) \div d
  <2>1. w \in Nat /\ d \in Nat /\ d > 0
    BY <1>0, <1>2
  <2>2. ASSUME NEW x \in Int, KNEE < x, x <= max PROVE e(x) \in Nat /\ e(x) <= w
    <3>1. x - KNEE \in Nat /\ x - KNEE <= d
      BY <1>0, <2>2
    <3> HIDE DEF w, d
    <3>2. (x - KNEE) * w \in Nat /\ (x - KNEE) * w <= d * w
      BY <2>1, <3>1, MulMono
    <3>3. d * w = w * d
      BY <2>1
    <3> QED BY <2>1, <3>2, <3>3, DivMono, DivBound
  <2>3. ASSUME KNEE < a PROVE e(a) <= e(b)
    <3>1. a - KNEE \in Nat /\ b - KNEE \in Nat /\ a - KNEE <= b - KNEE
      BY <1>0, <2>3
    <3> HIDE DEF w, d
    <3>2. (a - KNEE) * w \in Nat /\ (b - KNEE) * w \in Nat /\ (a - KNEE) * w <= (b - KNEE) * w
      BY <2>1, <3>1, MulMono
    <3> QED BY <2>1, <3>2, DivMono
  <2>4. ASSUME NEW x \in Int
        PROVE  effective_age(x, max, clamp) = IF x <= KNEE THEN x ELSE KNEE + e(x)
    BY <1>0, <1>2 DEF effective_age
  <2>5. KNEE + w = CAP /\ CAP < max /\ w \in Nat
    BY <1>0, <1>2
  <2> SUFFICES ASSUME NEW ea, ea = effective_age(a, max, clamp), NEW eb, eb = effective_age(b, max, clamp)
               PROVE  ea \in Int /\ ea <= eb /\ ea <= max /\ ea <= CAP
    OBVIOUS
  <2>6. ea = (IF a <= KNEE THEN a ELSE KNEE + e(a)) /\ eb = (IF b <= KNEE THEN b ELSE KNEE + e(b))
    BY <2>4
  <2> HIDE DEF e, w, d
  <2>7. CASE a <= KNEE
    <3>1. ea = a /\ ea \in Int /\ ea <= KNEE
      BY <2>6, <2>7
    <3>2. KNEE <= eb \/ eb = b
      <4>1. CASE b <= KNEE
        BY <2>6, <4>1
      <4>2. CASE ~(b <= KNEE)
        <5>1. e(b) \in Nat /\ eb = KNEE + e(b)
          BY <1>0, <2>2, <2>6, <4>2
        <5> QED BY <1>0, <5>1
      <4> QED BY <4>1, <4>2
    <3>3. eb \in Int
      <4>1. CASE b <= KNEE
        BY <2>6, <4>1
      <4>2. CASE ~(b <= KNEE)
        <5>1. e(b) \in Nat /\ eb = KNEE + e(b)
          BY <1>0, <2>2, <2>6, <4>2
        <5> QED BY <1>0, <5>1
      <4> QED BY <4>1, <4>2
    <3>4. ea <= eb
      BY <1>0, <3>1, <3>2, <3>3
    <3>5. ea <= max /\ ea <= CAP
      BY <1>0, <2>5, <3>1
    <3> QED BY <3>1, <3>4, <3>5
  <2>8. CASE ~(a <= KNEE)
    <3>1. ea = KNEE + e(a) /\ eb = KNEE + e(b)
      BY <1>0, <2>6, <2>8
    <3>2. KNEE < a /\ a <= max /\ KNEE < b
      BY <1>0, <2>8
    <3>3. e(a) \in Nat /\ e(b) \in Nat /\ e(a) <= w /\ e(a) <= e(b)
      BY <2>2, <2>3, <3>2
    <3> QED BY <1>0, <2>5, <3>1, <3>3
  <2> QED BY <2>7, <2>8
<1> QED BY <1>1, <1>2, Zenon
-----------------------------------------------------------------------------
(* The plan.                                                               *)

\* What an item needs or answers is written by an item before it.
Closed(s) ==
  \A n \in 1 .. Len(s) : \A k \in s[n].needs \cup s[n].parent : \E m \in 1 .. n - 1 : s[m].key = k

\* A list that needs nothing but what another writes can follow it.
LEMMA Joined ==
  ASSUME NEW T, NEW a \in Seq(T), NEW b \in Seq(T), Closed(a),
         \A n \in 1 .. Len(b) : \A k \in b[n].needs \cup b[n].parent : \E m \in 1 .. Len(a) : a[m].key = k
  PROVE  /\ a \o b \in Seq(T) /\ Closed(a \o b)
         /\ \A m \in 1 .. Len(a) : \E j \in 1 .. Len(a \o b) : (a \o b)[j] = a[m]
         /\ \A m \in 1 .. Len(b) : \E j \in 1 .. Len(a \o b) : (a \o b)[j] = b[m]
<1> DEFINE c == a \o b
<1>1. c \in Seq(T) /\ Len(c) = Len(a) + Len(b) /\ Len(a) \in Nat /\ Len(b) \in Nat
  OBVIOUS
<1>2. \A n \in 1 .. Len(a) : n \in 1 .. Len(c) /\ c[n] = a[n]
  OBVIOUS
<1>3. \A n \in 1 .. Len(b) : Len(a) + n \in 1 .. Len(c) /\ c[Len(a) + n] = b[n]
  OBVIOUS
<1> HIDE DEF c
<1>4. ASSUME NEW n \in 1 .. Len(c), NEW k \in c[n].needs \cup c[n].parent
      PROVE  \E m \in 1 .. n - 1 : c[m].key = k
  <2>1. CASE n \in 1 .. Len(a)
    <3>1. PICK m \in 1 .. n - 1 : a[m].key = k
      BY <1>2, <1>4, <2>1 DEF Closed
    <3>2. m \in 1 .. Len(a)
      BY <1>1, <2>1
    <3> QED BY <1>2, <3>1, <3>2
  <2>2. CASE n \notin 1 .. Len(a)
    <3>1. n - Len(a) \in 1 .. Len(b) /\ Len(a) + (n - Len(a)) = n
      BY <1>1, <2>2
    <3>2. c[n] = b[n - Len(a)]
      BY <1>3, <3>1
    <3>3. PICK m \in 1 .. Len(a) : a[m].key = k
      BY <1>4, <3>1, <3>2
    <3>4. m \in 1 .. n - 1
      BY <1>1, <2>2
    <3> QED BY <1>2, <3>3, <3>4
  <2> QED BY <2>1, <2>2
<1>5. Closed(c)
  BY <1>4 DEF Closed
<1> QED BY <1>1, <1>2, <1>3, <1>5 DEF c

\* The items of a plan.
Items(c, clamp) ==
  Memberships(c) \cup Posts(c, clamp) \cup Replies(c, "c", clamp) \cup Replies(c, "r", clamp)
    \cup Attested(c, "vouch") \cup Attested(c, "badge")

\* The sets of items are finite.
LEMMA FinitePlan ==
  ASSUME NEW c \in Candidates, NEW clamp \in BOOLEAN, NEW kind
  PROVE  /\ IsFiniteSet(Memberships(c)) /\ IsFiniteSet(Posts(c, clamp))
         /\ IsFiniteSet(Replies(c, kind, clamp)) /\ IsFiniteSet(Attested(c, kind))
<1>0. IsFiniteSet(c.posts) /\ IsFiniteSet(c.replies) /\ IsFiniteSet(c.attests)
  BY CorporaAssumption
<1>1. IsFiniteSet(Memberships(c))
  <2> DEFINE S == c.posts \cup c.replies
             f == [x \in S |-> Attestation(x.author, x.author, "membership-" \o x.comm)]
  <2>1. IsFiniteSet(S)
    BY <1>0, FS_Union
  <2>2. f \in Surjection(S, Memberships(c))
    BY DEF Surjection, Memberships
  <2> HIDE DEF S, f
  <2> QED BY <2>1, <2>2, FS_Surjection
<1>2. IsFiniteSet(Posts(c, clamp))
  <2> DEFINE f == [p \in c.posts |-> Content(PostKey(p.comm, p.slug), p.author, p.comm, age_of(c, p, clamp), {})]
  <2>1. f \in Surjection(c.posts, Posts(c, clamp))
    BY DEF Surjection, Posts
  <2> HIDE DEF f
  <2> QED BY <1>0, <2>1, FS_Surjection
<1>3. IsFiniteSet(Replies(c, kind, clamp))
  <2> DEFINE S == {x \in c.replies : x.kind = kind}
             f == [r \in S |-> Content(<<"space", r.comm, kind, r.slug, r.id>>, r.author, r.comm,
                                       age_of(c, r, clamp), {PostKey(r.comm, r.slug)})]
  <2>1. IsFiniteSet(S)
    BY <1>0, FS_Subset
  <2>2. f \in Surjection(S, Replies(c, kind, clamp))
    BY DEF Surjection, Replies
  <2> HIDE DEF S, f
  <2> QED BY <2>1, <2>2, FS_Surjection
<1>4. IsFiniteSet(Attested(c, kind))
  <2> DEFINE S == {x \in c.attests : x.kind = kind}
             f == [a \in S |-> Attestation(a.from, a.to, a.type)]
  <2>1. IsFiniteSet(S)
    BY <1>0, FS_Subset
  <2>2. f \in Surjection(S, Attested(c, kind))
    BY DEF Surjection, Attested
  <2> HIDE DEF S, f
  <2> QED BY <2>1, <2>2, FS_Surjection
<1> QED BY <1>1, <1>2, <1>3, <1>4

\* A post is no older than the oldest post.
LEMMA WithinMaxAge ==
  ASSUME NEW c \in Candidates, Valid(c)
  PROVE  /\ MaxAge(c) \in Int /\ MaxAge(c) <= MAX_CORPUS_AGE
         /\ \A p \in c.posts : p.age \in Int /\ p.age <= MaxAge(c)
<1> DEFINE S == {p.age : p \in c.posts} \cup {0}
<1>0. IsFiniteSet(c.posts) /\ \A p \in c.posts : p.age \in Int
  BY CorporaAssumption
<1>1. IsFiniteSet(S)
  <2> DEFINE A == {p.age : p \in c.posts}
             f == [p \in c.posts |-> p.age]
  <2>1. f \in Surjection(c.posts, A)
    BY DEF Surjection
  <2> HIDE DEF A, f
  <2>2. IsFiniteSet(A)
    BY <1>0, <2>1, FS_Surjection
  <2>3. IsFiniteSet(A \cup {0})
    BY <2>2, FS_AddElement
  <2> QED BY <2>3 DEF A
<1>2. S \subseteq Int /\ S # {}
  BY <1>0
<1>3. Max(S) \in S /\ \A y \in S : y <= Max(S)
  <2> HIDE DEF S
  <2> QED BY <1>1, <1>2, SetMax
<1>4. \A y \in S : y <= MAX_CORPUS_AGE
  BY SeedAssumption DEF Valid, CheckAge
<1> QED BY <1>0, <1>2, <1>3, <1>4 DEF MaxAge

\* The parent of an object is read off its id.
ParentOf(key) == IF Len(key) = 5 THEN {PostKey(key[2], key[4])} ELSE {}

Has(s, S) == \A x \in S : \E n \in 1 .. Len(s) : s[n] = x

\* Items can follow a list that has what they need and what they answer.
LEMMA Follows ==
  ASSUME NEW T, NEW a \in Seq(T), Closed(a), NEW S \in SUBSET T, NEW b \in Seq(S), NEW U, Has(a, U),
         \A x \in S : \A k \in x.needs \cup x.parent : \E y \in U : y.key = k
  PROVE  /\ a \o b \in Seq(T) /\ Closed(a \o b)
         /\ \A V : (Has(a, V) \/ Has(b, V)) => Has(a \o b, V)
<1>1. b \in Seq(T)
  OBVIOUS
<1>2. ASSUME NEW n \in 1 .. Len(b), NEW k \in b[n].needs \cup b[n].parent
      PROVE  \E m \in 1 .. Len(a) : a[m].key = k
  <2>1. b[n] \in S
    OBVIOUS
  <2>2. PICK y \in U : y.key = k
    BY <1>2, <2>1
  <2> QED BY <2>2 DEF Has
<1>3. /\ a \o b \in Seq(T) /\ Closed(a \o b)
      /\ \A m \in 1 .. Len(a) : \E j \in 1 .. Len(a \o b) : (a \o b)[j] = a[m]
      /\ \A m \in 1 .. Len(b) : \E j \in 1 .. Len(a \o b) : (a \o b)[j] = b[m]
  <2> QED BY <1>1, <1>2, Joined
<1>4. ASSUME NEW V, Has(a, V) \/ Has(b, V), NEW x \in V PROVE \E n \in 1 .. Len(a \o b) : (a \o b)[n] = x
  <2>1. CASE Has(a, V)
    BY <1>3, <1>4, <2>1 DEF Has
  <2>2. CASE Has(b, V)
    <3>1. PICK m \in 1 .. Len(b) : b[m] = x
      BY <1>4, <2>2 DEF Has
    <3>2. PICK n \in 1 .. Len(a \o b) : (a \o b)[n] = b[m]
      BY <1>3
    <3> QED BY <3>1, <3>2, Zenon
  <2> QED BY <1>4, <2>1, <2>2
<1> QED BY <1>3, <1>4 DEF Has

\* What the items need and answer is among the memberships and the posts.
LEMMA ItemWants ==
  ASSUME NEW c \in Candidates, NEW clamp \in BOOLEAN, Valid(c)
  PROVE  /\ \A x \in Memberships(c) : x.needs \cup x.parent = {}
         /\ \A kind : \A x \in Attested(c, kind) : x.needs \cup x.parent = {}
         /\ \A x \in Posts(c, clamp) : \A k \in x.needs \cup x.parent : \E y \in Memberships(c) : y.key = k
         /\ \A kind : \A x \in Replies(c, kind, clamp) : \A k \in x.needs \cup x.parent :
              \E y \in Memberships(c) \cup Posts(c, clamp) : y.key = k
<1>0. ASSUME NEW from, NEW to, NEW id, NEW x, x = Attestation(from, to, id)
      PROVE  x.needs \cup x.parent = {}
  BY <1>0 DEF Attestation
<1>1. \A x \in Memberships(c) : x.needs \cup x.parent = {}
  BY <1>0 DEF Memberships
<1>2. \A kind : \A x \in Attested(c, kind) : x.needs \cup x.parent = {}
  BY <1>0 DEF Attested
<1>3. \A p \in c.posts \cup c.replies : \E y \in Memberships(c) : y.key = MemberKey(p.author, p.comm)
  <2> SUFFICES ASSUME NEW p \in c.posts \cup c.replies
               PROVE  \E y \in Memberships(c) : y.key = MemberKey(p.author, p.comm)
    OBVIOUS
  <2> DEFINE y == Attestation(p.author, p.author, "membership-" \o p.comm)
  <2>1. y \in Memberships(c)
    BY Zenon DEF Memberships
  <2>2. y.key = <<"u", p.author, p.author, "membership-" \o p.comm>>
    BY DEF Attestation
  <2>3. y.key = MemberKey(p.author, p.comm)
    BY <2>2, Zenon DEF MemberKey
  <2> HIDE DEF y
  <2> QED BY <2>1, <2>3
<1>4. ASSUME NEW x \in Posts(c, clamp), NEW k \in x.needs \cup x.parent
      PROVE  \E y \in Memberships(c) : y.key = k
  <2>1. PICK p \in c.posts : x = Content(PostKey(p.comm, p.slug), p.author, p.comm, age_of(c, p, clamp), {})
    BY DEF Posts
  <2>2. k = MemberKey(p.author, p.comm)
    BY <2>1 DEF Content
  <2> QED BY <1>3, <2>2
<1>5. ASSUME NEW kind, NEW x \in Replies(c, kind, clamp), NEW k \in x.needs \cup x.parent
      PROVE  \E y \in Memberships(c) \cup Posts(c, clamp) : y.key = k
  <2>1. PICK r \in c.replies :
          x = Content(<<"space", r.comm, kind, r.slug, r.id>>, r.author, r.comm, age_of(c, r, clamp),
                      {PostKey(r.comm, r.slug)})
    BY DEF Replies
  <2>2. k = MemberKey(r.author, r.comm) \/ k = PostKey(r.comm, r.slug)
    BY <2>1 DEF Content
  <2>3. CASE k = MemberKey(r.author, r.comm)
    BY <1>3, <2>3
  <2>4. CASE k = PostKey(r.comm, r.slug)
    <3>1. PICK p \in c.posts : p.comm = r.comm /\ p.slug = r.slug
      BY DEF Valid
    <3> DEFINE y == Content(PostKey(p.comm, p.slug), p.author, p.comm, age_of(c, p, clamp), {})
    <3>2. y \in Posts(c, clamp) /\ y.key = PostKey(r.comm, r.slug)
      BY <3>1 DEF Posts, Content
    <3> QED BY <2>4, <3>2
  <2> QED BY <2>2, <2>3, <2>4
<1> QED BY <1>1, <1>2, <1>4, <1>5

\* Items carry the age of what they are made from.
LEMMA Dated ==
  ASSUME NEW c \in Candidates, NEW clamp \in BOOLEAN, Valid(c), NEW x \in Items(c, clamp)
  PROVE  x \in Posts(c, clamp) \/ x \in Replies(c, "c", clamp) \/ x \in Replies(c, "r", clamp)
         \/ (x.dated = FALSE /\ x.parent = {} /\ x.needs = {} /\ Len(x.key) = 4 /\ x.key[1] = "u"
             /\ x.age = 0 /\ x.owner \in Personas)
<1>1. CASE x \in Memberships(c)
  <2>1. PICK p \in c.posts \cup c.replies : x = Attestation(p.author, p.author, "membership-" \o p.comm)
    BY <1>1 DEF Memberships
  <2>2. p.author \in Personas
    BY DEF Valid
  <2> QED BY <2>1, <2>2 DEF Attestation
<1>2. ASSUME NEW kind, x \in Attested(c, kind)
      PROVE  /\ x.dated = FALSE /\ x.parent = {} /\ x.needs = {} /\ Len(x.key) = 4 /\ x.key[1] = "u"
             /\ x.age = 0 /\ x.owner \in Personas
  <2>1. PICK a \in c.attests : x = Attestation(a.from, a.to, a.type)
    BY <1>2 DEF Attested
  <2>2. a.from \in Personas
    BY DEF Valid
  <2> QED BY <2>1, <2>2 DEF Attestation
<1> QED BY <1>1, <1>2 DEF Items

\* Ages of posts and replies: within the oldest post's, and a reply no older than
\* its post.
LEMMA Ages ==
  ASSUME NEW c \in Candidates, NEW clamp \in BOOLEAN, Valid(c)
  PROVE  /\ \A x \in c.posts \cup c.replies :
              /\ age_of(c, x, clamp) \in Int /\ age_of(c, x, clamp) <= MAX_CORPUS_AGE
              /\ clamp => age_of(c, x, clamp) <= CAP
         /\ \A r \in c.replies, p \in c.posts :
              (p.comm = r.comm /\ p.slug = r.slug) => age_of(c, r, clamp) <= age_of(c, p, clamp)
<1>1. /\ MaxAge(c) \in Int /\ MaxAge(c) <= MAX_CORPUS_AGE /\ MAX_CORPUS_AGE \in Nat
      /\ \A p \in c.posts : p.age \in Int /\ p.age <= MaxAge(c)
  BY WithinMaxAge, SeedAssumption
<1>2. ASSUME NEW r \in c.replies, NEW p \in c.posts, p.comm = r.comm, p.slug = r.slug
      PROVE  r.age \in Int /\ r.age <= p.age
  <2>1. PICK q \in c.posts : q.comm = r.comm /\ q.slug = r.slug /\ r.age < q.age
    BY DEF Valid
  <2>2. q = p
    BY <1>2, <2>1 DEF Valid
  <2>3. r.age \in Int /\ p.age \in Int
    BY CorporaAssumption
  <2> QED BY <2>1, <2>2, <2>3
<1>3. \A x \in c.posts \cup c.replies : x.age \in Int /\ x.age <= MaxAge(c)
  <2>1. ASSUME NEW r \in c.replies PROVE r.age \in Int /\ r.age <= MaxAge(c)
    <3>1. PICK p \in c.posts : p.comm = r.comm /\ p.slug = r.slug
      BY DEF Valid
    <3>2. r.age \in Int /\ r.age <= p.age /\ p.age \in Int /\ p.age <= MaxAge(c)
      BY <1>1, <1>2, <3>1
    <3> QED BY <1>1, <3>2
  <2> QED BY <1>1, <2>1
<1>4. ASSUME NEW x \in c.posts \cup c.replies
      PROVE  /\ age_of(c, x, clamp) \in Int /\ age_of(c, x, clamp) <= MAX_CORPUS_AGE
             /\ clamp => age_of(c, x, clamp) <= CAP
  <2> DEFINE e == effective_age(x.age, MaxAge(c), clamp)
  <2>1. e \in Int /\ e <= MaxAge(c) /\ (clamp => e <= CAP)
    BY <1>1, <1>3, ClampKeeps
  <2>2. e = age_of(c, x, clamp)
    BY DEF age_of
  <2> HIDE DEF e
  <2>3. e <= MAX_CORPUS_AGE
    BY <1>1, <2>1
  <2> QED BY <2>1, <2>2, <2>3
<1>5. ASSUME NEW r \in c.replies, NEW p \in c.posts, p.comm = r.comm, p.slug = r.slug
      PROVE  age_of(c, r, clamp) <= age_of(c, p, clamp)
  <2>1. r.age \in Int /\ p.age \in Int /\ r.age <= p.age /\ p.age <= MaxAge(c)
    BY <1>2, <1>3, <1>5
  <2>2. effective_age(r.age, MaxAge(c), clamp) <= effective_age(p.age, MaxAge(c), clamp)
    BY <1>1, <2>1, ClampKeeps
  <2> QED BY <2>2 DEF age_of
<1> QED BY <1>4, <1>5

\* What build_plan puts in an item.
GoodItem(c, clamp, x) ==
  /\ x.owner \in Personas /\ x.dated \in BOOLEAN /\ x.age \in Int
  /\ x.parent = ParentOf(x.key)
  /\ x.dated => /\ x.comm \in c.comms
                /\ x.age <= MAX_CORPUS_AGE /\ (clamp => x.age <= CAP)

LEMMA GoodItems ==
  ASSUME NEW c \in Candidates, NEW clamp \in BOOLEAN, Valid(c), NEW x \in Items(c, clamp)
  PROVE  GoodItem(c, clamp, x)
<1>1. CASE x \in Posts(c, clamp)
  <2>1. PICK p \in c.posts : x = Content(PostKey(p.comm, p.slug), p.author, p.comm, age_of(c, p, clamp), {})
    BY <1>1 DEF Posts
  <2>2. p.author \in Personas /\ p.comm \in c.comms
    BY DEF Valid
  <2>3. x.key = PostKey(p.comm, p.slug) /\ x.owner = p.author /\ x.comm = p.comm /\ x.parent = {}
        /\ x.age = age_of(c, p, clamp) /\ x.dated = TRUE
    BY <2>1 DEF Content
  <2>4. ParentOf(x.key) = {}
    BY <2>3 DEF ParentOf, PostKey
  <2> QED BY <2>2, <2>3, <2>4, Ages DEF GoodItem
<1>2. ASSUME NEW kind, x \in Replies(c, kind, clamp) PROVE GoodItem(c, clamp, x)
  <2>1. PICK r \in c.replies :
          x = Content(<<"space", r.comm, kind, r.slug, r.id>>, r.author, r.comm, age_of(c, r, clamp),
                      {PostKey(r.comm, r.slug)})
    BY <1>2 DEF Replies
  <2>2. r.comm \in c.comms /\ r.author \in Personas
    BY DEF Valid
  <2>3. x.key = <<"space", r.comm, kind, r.slug, r.id>> /\ x.owner = r.author /\ x.comm = r.comm
        /\ x.parent = {PostKey(r.comm, r.slug)} /\ x.age = age_of(c, r, clamp) /\ x.dated = TRUE
    BY <2>1 DEF Content
  <2>4. ParentOf(x.key) = {PostKey(r.comm, r.slug)}
    BY <2>3 DEF ParentOf
  <2> QED BY <2>2, <2>3, <2>4, Ages DEF GoodItem
<1>3. CASE x.dated = FALSE /\ x.parent = {} /\ x.needs = {} /\ Len(x.key) = 4 /\ x.key[1] = "u"
           /\ x.age = 0 /\ x.owner \in Personas
  <2>1. 0 \in Int
    OBVIOUS
  <2>2. x.dated \in BOOLEAN /\ x.age \in Int
    BY <1>3, <2>1, Zenon
  <2>3. ParentOf(x.key) = {}
    BY <1>3 DEF ParentOf
  <2>4. ~x.dated
    BY <1>3
  <2> QED BY <1>3, <2>2, <2>3, <2>4, Zenon DEF GoodItem
<1> QED BY <1>1, <1>2, <1>3, Dated

\* Nothing is older than what it answers.
LEMMA ParentsOlder ==
  ASSUME NEW c \in Candidates, NEW clamp \in BOOLEAN, Valid(c),
         NEW x \in Items(c, clamp), NEW y \in Items(c, clamp), y.key \in x.parent
  PROVE  x.age <= y.age
<1>1. ASSUME NEW kind, x \in Replies(c, kind, clamp) PROVE x.age <= y.age
  <2>1. PICK r \in c.replies :
          x = Content(<<"space", r.comm, kind, r.slug, r.id>>, r.author, r.comm, age_of(c, r, clamp),
                      {PostKey(r.comm, r.slug)})
    BY <1>1 DEF Replies
  <2>2. y.key = PostKey(r.comm, r.slug) /\ x.age = age_of(c, r, clamp)
    BY <2>1 DEF Content
  <2>3. Len(y.key) = 4 /\ y.key[1] = "space"
    BY <2>2 DEF PostKey
  <2>4. y \notin Replies(c, "c", clamp) /\ y \notin Replies(c, "r", clamp)
    <3>1. ASSUME NEW other, y \in Replies(c, other, clamp) PROVE FALSE
      <4>1. PICK s \in c.replies :
              y = Content(<<"space", s.comm, other, s.slug, s.id>>, s.author, s.comm, age_of(c, s, clamp),
                          {PostKey(s.comm, s.slug)})
        BY <3>1 DEF Replies
      <4>2. y.key = <<"space", s.comm, other, s.slug, s.id>>
        BY <4>1 DEF Content
      <4>3. Len(y.key) = 5
        BY <4>2
      <4> QED BY <2>3, <4>3
    <3> QED BY <3>1
  <2>5. y \in Posts(c, clamp)
    BY <2>3, <2>4, Dated
  <2>6. PICK p \in c.posts : y = Content(PostKey(p.comm, p.slug), p.author, p.comm, age_of(c, p, clamp), {})
    BY <2>5 DEF Posts
  <2>7. y.age = age_of(c, p, clamp) /\ PostKey(p.comm, p.slug) = PostKey(r.comm, r.slug)
    BY <2>2, <2>6 DEF Content
  <2>8. p.comm = r.comm /\ p.slug = r.slug
    BY <2>7 DEF PostKey
  <2> QED BY <2>2, <2>7, <2>8, Ages
<1>2. CASE x \in Posts(c, clamp)
  <2>1. x.parent = {}
    BY <1>2 DEF Posts, Content
  <2> QED BY <2>1
<1> QED BY <1>1, <1>2, Dated

\* What the execution relies on of a plan and its communities.
GoodPlan(pl, cs, k) ==
  /\ Len(pl) \in Nat /\ DOMAIN pl = 1 .. Len(pl) /\ Closed(pl) /\ cs \in Seq(Communities)
  /\ \A n \in 1 .. Len(pl) :
       /\ pl[n].owner \in Personas /\ pl[n].dated \in BOOLEAN /\ pl[n].age \in Int
       /\ pl[n].parent = ParentOf(pl[n].key)
       /\ pl[n].dated => /\ \E j \in 1 .. Len(cs) : cs[j] = pl[n].comm
                         /\ pl[n].age <= MAX_CORPUS_AGE /\ (k \/ pl[n].age <= CAP)
       /\ \A m \in 1 .. Len(pl) : pl[m].key \in pl[n].parent => pl[n].age <= pl[m].age

\* The plan is a list of its items, each after what it needs and answers.
LEMMA PlanClosed ==
  ASSUME NEW c \in Candidates, NEW clamp \in BOOLEAN, Valid(c)
  PROVE  build_plan(c, clamp) \in Seq(Items(c, clamp)) /\ Closed(build_plan(c, clamp))
<1> DEFINE T == Items(c, clamp)
           U == Memberships(c) \cup Posts(c, clamp)
           S1 == Memberships(c)
           S2 == Posts(c, clamp)
           S3 == Replies(c, "c", clamp)
           S4 == Replies(c, "r", clamp)
           S5 == Attested(c, "vouch")
           S6 == Attested(c, "badge")
           l1 == SetToSeq(S1)
           l2 == l1 \o OldestFirst(S2)
           l3 == l2 \o OldestFirst(S3)
           l4 == l3 \o OldestFirst(S4)
           l5 == l4 \o SetToSeq(S5)
           l6 == l5 \o SetToSeq(S6)
<1>1. build_plan(c, clamp) = l6
  BY DEF build_plan
<1>2. /\ S1 \in SUBSET T /\ S2 \in SUBSET T /\ S3 \in SUBSET T
      /\ S4 \in SUBSET T /\ S5 \in SUBSET T /\ S6 \in SUBSET T
  BY DEF Items
<1>3. /\ l1 \in Seq(S1) /\ Has(l1, S1)
      /\ SetToSeq(S5) \in Seq(S5) /\ SetToSeq(S6) \in Seq(S6)
  BY FinitePlan, SetToSeqList DEF Has
<1>4. \A x \in S2 \cup S3 \cup S4 : x.age \in Int
  <2>1. \A p \in c.posts \cup c.replies : age_of(c, p, clamp) \in Int
    BY Ages
  <2>2. \A x \in S2 : x.age \in Int
    BY <2>1 DEF Posts, Content
  <2>3. ASSUME NEW kind PROVE \A x \in Replies(c, kind, clamp) : x.age \in Int
    BY <2>1 DEF Replies, Content
  <2> QED BY <2>2, <2>3
<1>5. OldestFirst(S2) \in Seq(S2) /\ Has(OldestFirst(S2), S2)
  BY <1>4, FinitePlan, OldestFirstList DEF Has
<1>6. OldestFirst(S3) \in Seq(S3) /\ OldestFirst(S4) \in Seq(S4)
  BY <1>4, FinitePlan, OldestFirstList
<1>7. /\ \A x \in S1 : x.needs \cup x.parent = {}
      /\ \A x \in S5 : x.needs \cup x.parent = {}
      /\ \A x \in S6 : x.needs \cup x.parent = {}
      /\ \A x \in S2 : \A k \in x.needs \cup x.parent : \E y \in S1 : y.key = k
      /\ \A x \in S3 : \A k \in x.needs \cup x.parent : \E y \in U : y.key = k
      /\ \A x \in S4 : \A k \in x.needs \cup x.parent : \E y \in U : y.key = k
  BY ItemWants
<1> HIDE DEF T, S1, S2, S3, S4, S5, S6
<1>8. l1 \in Seq(T) /\ Closed(l1)
  <2> HIDE DEF l1
  <2>1. \A n \in 1 .. Len(l1) : l1[n] \in S1
    BY <1>3
  <2>2. l1 \in Seq(T)
    BY <1>2, <1>3
  <2>3. Closed(l1)
    BY <1>7, <2>1 DEF Closed
  <2> QED BY <2>2, <2>3
<1> HIDE DEF l1
<1>9. l2 \in Seq(T) /\ Closed(l2) /\ Has(l2, S1) /\ Has(l2, S2)
  BY <1>2, <1>3, <1>5, <1>7, <1>8, Follows
<1> HIDE DEF l2
<1>10. Has(l2, U)
  BY <1>9 DEF Has, S1, S2
<1> HIDE DEF U
<1>11. l3 \in Seq(T) /\ Closed(l3) /\ Has(l3, U)
  BY <1>2, <1>6, <1>7, <1>9, <1>10, Follows
<1> HIDE DEF l3
<1>12. l4 \in Seq(T) /\ Closed(l4) /\ Has(l4, U)
  BY <1>2, <1>6, <1>7, <1>11, Follows
<1> HIDE DEF l4
<1>13. l5 \in Seq(T) /\ Closed(l5) /\ Has(l5, U)
  BY <1>2, <1>3, <1>7, <1>12, Follows
<1> HIDE DEF l5
<1>14. l6 \in Seq(T) /\ Closed(l6)
  <2>1. \A x \in S6 : \A k \in x.needs \cup x.parent : \E y \in U : y.key = k
    BY <1>7
  <2>2. SetToSeq(S6) \in Seq(S6) /\ S6 \in SUBSET T
    BY <1>2, <1>3
  <2> QED BY <1>13, <2>1, <2>2, Follows
<1> QED BY <1>1, <1>14 DEF T

LEMMA PlanFacts ==
  ASSUME NEW c \in Candidates, NEW k \in BOOLEAN, Valid(c)
  PROVE  GoodPlan(build_plan(c, ~k), SetToSeq(c.comms), k)
<1> DEFINE C == c.comms
           T == Items(c, ~k)
<1>1. IsFiniteSet(C)
  BY CorporaAssumption
<1>2. C \subseteq Communities
  BY DEF Valid
<1>3. SetToSeq(C) \in Seq(C) /\ \A x \in C : \E j \in 1 .. Len(SetToSeq(C)) : SetToSeq(C)[j] = x
  <2> HIDE DEF C
  <2> QED BY <1>1, SetToSeqList
<1>4. PICK pl : pl = build_plan(c, ~k)
  OBVIOUS
<1>5. pl \in Seq(T) /\ Closed(pl)
  BY <1>4, PlanClosed
<1>6. \A x \in T : GoodItem(c, ~k, x)
  BY GoodItems
<1>7. \A x, y \in T : y.key \in x.parent => x.age <= y.age
  BY ParentsOlder
<1>8. PICK cs : cs = SetToSeq(C)
  OBVIOUS
<1>9. cs \in Seq(Communities) /\ \A x \in C : \E j \in 1 .. Len(cs) : cs[j] = x
  <2> HIDE DEF C
  <2> QED BY <1>2, <1>3, <1>8
<1>10. ASSUME NEW x \in T
       PROVE  /\ x.owner \in Personas /\ x.dated \in BOOLEAN /\ x.age \in Int /\ x.parent = ParentOf(x.key)
              /\ x.dated => /\ \E j \in 1 .. Len(cs) : cs[j] = x.comm
                            /\ x.age <= MAX_CORPUS_AGE /\ (k \/ x.age <= CAP)
  <2>1. GoodItem(c, ~k, x)
    BY <1>6
  <2> QED BY <1>9, <2>1, Zenon DEF GoodItem
<1> HIDE DEF T, C
<1>11. Len(pl) \in Nat /\ DOMAIN pl = 1 .. Len(pl) /\ \A n \in 1 .. Len(pl) : pl[n] \in T
  BY <1>5
<1>12. GoodPlan(pl, cs, k)
  BY <1>5, <1>7, <1>9, <1>10, <1>11 DEF GoodPlan
<1> QED BY <1>4, <1>8, <1>12 DEF C

-----------------------------------------------------------------------------
(* The execution.                                                          *)

\* Where the loops over the communities are.
Placed ==
  /\ pc \in {"widen", "restore"} => keyed /\ (comms # <<>> => i <= Len(comms))
  /\ pc = "restore" => comms # <<>>

\* The DNSSEC proofs are fresh once they have been seen to, or known not to be.
IssuersFresh ==
  /\ pc \in {"dnssec_broker", "provision", "widen", "items"} => Idp \in fresh \cup unproven
  /\ (pc \in {"provision", "widen", "items"} /\ External # {}) => Broker \in fresh \cup unproven

\* Which lags have been widened, and which restored.
LagWidened ==
  /\ pc = "widen" => \A n \in 1 .. Len(comms) : n < i => lag[comms[n]] = WIDENED_LAG
  /\ (pc = "items" /\ keyed) => \A n \in 1 .. Len(comms) : lag[comms[n]] = WIDENED_LAG
LagRestored ==
  /\ pc = "restore" => \A n \in 1 .. Len(comms) : n < i => lag[comms[n]] = GENESIS_LAG
  /\ (pc = "ok" /\ keyed) => \A n \in 1 .. Len(comms) : lag[comms[n]] = GENESIS_LAG

\* A lag that is not the genesis one is one the run will come to restore.
LagOwed ==
  ~configLost => \A c \in Communities : lag[c] # GENESIS_LAG =>
    /\ pc \in {"widen", "items", "restore"} /\ keyed
    /\ \E n \in 1 .. Len(comms) : comms[n] = c /\ (pc = "restore" => i <= n)

\* An item this run has written, or whose object is younger than it would be.
OnChain(n) ==
  /\ plan[n].key \in DOMAIN objects
  /\ objects[plan[n].key].run = runs \/ objects[plan[n].key].age < plan[n].age

\* What has been written of the plan.
PlanWritten ==
  /\ pc = "items" => \A n \in 1 .. Len(plan) : n < i => OnChain(n)
  /\ (pc = "ok" \/ (pc = "restore" /\ result = "ok")) => \A n \in 1 .. Len(plan) : OnChain(n)

\* A plan is that of a run.
Started == pc # "idle" => runs > 0

\* The objects are of this run or an earlier one; those of this run are as its
\* plan has them; and an object's parent is there, no younger if of the same run.
Stamps ==
  \A k \in DOMAIN objects :
    /\ objects[k].age \in Int /\ objects[k].run \in 1 .. runs
    /\ objects[k].run = runs => \E m \in 1 .. Len(plan) : plan[m].key = k /\ plan[m].age = objects[k].age
    /\ \A p \in ParentOf(k) :
         /\ p \in DOMAIN objects
         /\ objects[p].run = objects[k].run => objects[k].age <= objects[p].age

\* What was refused lacked nothing but its issuer's proof.
Refusals ==
  /\ refused \subseteq [owner : Personas, lacks : {{"proof"}}]
  /\ \A x \in refused : Issuer(x.owner) \in unproven
  /\ pc \in {"dnssec", "dnssec_broker"} => refused = {}

\* The type of what the tool counts and the daemon holds.
ControlOK ==
  /\ pc \in Running \cup {"idle", "ok", "failed"}
  /\ i \in 1 .. Len(plan) + Len(comms) + 1
  /\ tries \in 0 .. RETRIES /\ result \in {"ok", "err"} /\ runs \in 0 .. MaxRuns
  /\ keyed \in BOOLEAN /\ configLost \in BOOLEAN
  /\ fresh \subseteq {Idp, Broker} /\ unproven \subseteq {Idp, Broker}
  /\ lag \in [Communities -> {GENESIS_LAG, WIDENED_LAG}]

\* The inductive invariant.
IInv ==
  /\ ControlOK
  /\ GoodPlan(plan, comms, keyed)
  /\ Placed /\ IssuersFresh
  /\ LagWidened /\ LagRestored /\ LagOwed
  /\ PlanWritten /\ Started /\ Stamps
  /\ Refusals

LEMMA Numbers ==
  /\ GENESIS_LAG \in Nat /\ WIDENED_LAG \in Nat /\ MAX_CORPUS_AGE \in Nat /\ CAP \in Nat
  /\ CAP < GENESIS_LAG /\ MAX_CORPUS_AGE < WIDENED_LAG
  /\ RETRIES \in Nat /\ MaxRuns \in Nat /\ External \subseteq Personas
BY SeedAssumption

LEMMA InvInit == Init => IInv
<1> SUFFICES ASSUME Init PROVE IInv
  OBVIOUS
<1>1. ControlOK
  <2>1. Len(plan) = 0 /\ Len(comms) = 0 /\ i \in 1 .. Len(plan) + Len(comms) + 1
    BY DEF Init
  <2>2. lag \in [Communities -> {GENESIS_LAG, WIDENED_LAG}] /\ fresh \subseteq {Idp, Broker}
    BY DEF Init
  <2>3. tries \in 0 .. RETRIES /\ runs \in 0 .. MaxRuns
    BY Numbers DEF Init
  <2> QED BY <2>1, <2>2, <2>3 DEF Init, ControlOK, Running
<1>2. GoodPlan(plan, comms, keyed)
  BY DEF Init, GoodPlan, Closed
<1>3. Placed /\ IssuersFresh /\ LagWidened /\ LagRestored /\ LagOwed /\ PlanWritten /\ Started /\ Stamps /\ Refusals
  BY DEF Init, Placed, IssuersFresh, LagWidened, LagRestored, LagOwed, PlanWritten, Started, Stamps, Refusals
<1> QED BY <1>1, <1>2, <1>3 DEF IInv

\* Run: a run begins when the last one has ended, owing no lag but those it lost.
LEMMA RunStep == ASSUME IInv, Run PROVE IInv'
<1>1. PICK c \in Candidates, k \in BOOLEAN :
        Valid(c) /\ plan' = build_plan(c, ~k) /\ comms' = SetToSeq(c.comms) /\ keyed' = k
  BY DEF Run
<1>2. GoodPlan(plan, comms, keyed)'
  BY <1>1, PlanFacts
<1>3. ControlOK'
  <2>1. Len(plan') \in Nat /\ Len(comms') \in Nat
    BY <1>2 DEF GoodPlan
  <2>2. runs' \in 0 .. MaxRuns /\ keyed' \in BOOLEAN
    BY <1>1, Numbers DEF IInv, ControlOK, Run
  <2> QED BY <2>1, <2>2, Numbers DEF IInv, ControlOK, Run, Running
<1>4. Placed' /\ IssuersFresh'
  BY DEF Run, Placed, IssuersFresh
<1>5. LagWidened' /\ LagRestored'
  BY DEF Run, LagWidened, LagRestored
<1>6. LagOwed'
  BY DEF IInv, Run, LagOwed
<1>7. PlanWritten' /\ Started' /\ Refusals'
  <2>1. pc' = "dnssec" /\ refused' = {}
    BY DEF Run
  <2>2. runs' > 0
    BY Numbers DEF IInv, ControlOK, Run
  <2>3. PlanWritten'
    BY <2>1 DEF PlanWritten
  <2>4. Refusals'
    BY <2>1 DEF Refusals
  <2> QED BY <2>2, <2>3, <2>4 DEF Started
<1>8. Stamps'
  <2>1. runs \in Nat /\ runs' = runs + 1 /\ objects' = objects
    BY Numbers DEF IInv, ControlOK, Run
  <2>2. \A n \in 1 .. runs : n \in 1 .. runs' /\ n # runs'
    BY <2>1
  <2> QED BY <2>1, <2>2 DEF IInv, Stamps
<1> QED BY <1>2, <1>3, <1>4, <1>5, <1>6, <1>7, <1>8 DEF IInv

\* No step on goes without the proof, or without noting that it is missing.
LEMMA DnssecStep == ASSUME IInv, EnsureDnssec PROVE IInv'
<1>0. UNCHANGED <<setup, lag, objects, refused, configLost>> /\ pc \in {"dnssec", "dnssec_broker"}
  BY DEF EnsureDnssec
<1>1. GoodPlan(plan, comms, keyed)'
  BY <1>0 DEF IInv, setup
<1>2. pc' \in {"dnssec_broker", "provision", "failed"} \/ (pc' = pc /\ UNCHANGED <<i, proofs, result>>)
  BY DEF EnsureDnssec, Goto, Abort, Retry, AfterDnssec
<1>3. ControlOK'
  <2>1. Len(plan) \in Nat /\ Len(comms) \in Nat
    BY DEF IInv, GoodPlan
  <2>2. tries' \in 0 .. RETRIES
    BY Numbers DEF IInv, ControlOK, EnsureDnssec, Goto, Abort, Retry
  <2>3. i' = i \/ i' = 1
    BY DEF EnsureDnssec, Goto, Abort, Retry
  <2>4. i' \in 1 .. Len(plan) + Len(comms) + 1
    BY <2>1, <2>3 DEF IInv, ControlOK
  <2>5. fresh' \subseteq {Idp, Broker} /\ unproven' \subseteq {Idp, Broker} /\ result' \in {"ok", "err"}
    BY DEF IInv, ControlOK, EnsureDnssec, Goto, Abort, Retry, proofs
  <2> QED BY <1>0, <1>2, <2>2, <2>4, <2>5 DEF IInv, ControlOK, setup, proofs, Running
<1>4. Placed' /\ LagWidened' /\ LagRestored'
  BY <1>0, <1>2 DEF Placed, LagWidened, LagRestored
<1>5. IssuersFresh'
  BY DEF IInv, IssuersFresh, EnsureDnssec, Goto, Abort, Retry, AfterDnssec, proofs
<1>6. LagOwed'
  BY <1>0 DEF IInv, LagOwed, setup
<1>7. PlanWritten' /\ Started'
  <2>1. pc # "idle" /\ runs' = runs
    BY <1>0 DEF EnsureDnssec, setup
  <2>2. PlanWritten'
    BY <1>0, <1>2 DEF PlanWritten
  <2> QED BY <2>1, <2>2 DEF IInv, Started
<1>8. Stamps'
  BY <1>0 DEF IInv, Stamps, setup
<1>9. Refusals'
  BY <1>0 DEF IInv, Refusals
<1> QED BY <1>1, <1>3, <1>4, <1>5, <1>6, <1>7, <1>8, <1>9 DEF IInv

\* A proof that ends is missing from then on.
LEMMA LapseStep == ASSUME IInv, ProofLapses PROVE IInv'
<1>0. UNCHANGED <<tool, setup, lag, objects, refused, configLost>>
  BY DEF ProofLapses
<1>1. PICK d \in fresh : fresh' = fresh \ {d} /\ unproven' = unproven \cup {d}
  BY DEF ProofLapses
<1>2. GoodPlan(plan, comms, keyed)' /\ ControlOK'
  BY <1>0, <1>1 DEF IInv, ControlOK, setup, tool
<1>3. Placed' /\ LagWidened' /\ LagRestored' /\ LagOwed'
  BY <1>0 DEF IInv, Placed, LagWidened, LagRestored, LagOwed, setup, tool
<1>4. IssuersFresh'
  BY <1>0, <1>1 DEF IInv, IssuersFresh, tool
<1>5. PlanWritten' /\ Started' /\ Stamps'
  BY <1>0 DEF IInv, PlanWritten, OnChain, Started, Stamps, setup, tool
<1>6. Refusals'
  BY <1>0, <1>1 DEF IInv, Refusals, tool
<1> QED BY <1>2, <1>3, <1>4, <1>5, <1>6 DEF IInv

\* The keyed run goes on to widen the lags.
LEMMA ProvisionStep == ASSUME IInv, Provision PROVE IInv'
<1>0. UNCHANGED <<setup, daemon, refused, configLost, result>> /\ pc = "provision" /\ i' = 1 /\ tries' = 0
  BY DEF Provision, Goto, Abort
<1>1. pc' = "failed" \/ (pc' = "widen" /\ keyed) \/ (pc' = "items" /\ ~keyed)
  BY DEF Provision, Goto, Abort
<1>2. Len(plan) \in Nat /\ comms \in Seq(Communities) /\ GoodPlan(plan, comms, keyed)'
  BY <1>0 DEF IInv, GoodPlan, setup
<1>3. ControlOK'
  BY <1>0, <1>1, <1>2, Numbers DEF IInv, ControlOK, setup, daemon, proofs, Running
<1>4. Placed'
  <2>1. comms # <<>> => 1 <= Len(comms)
    BY <1>2
  <2> QED BY <1>0, <1>1, <2>1 DEF Placed, setup
<1>5. IssuersFresh'
  BY <1>0, <1>1 DEF IInv, IssuersFresh, daemon, proofs
<1>6. LagWidened' /\ LagRestored'
  BY <1>0, <1>1 DEF LagWidened, LagRestored, setup
<1>7. LagOwed'
  BY <1>0 DEF IInv, LagOwed, setup, daemon, proofs
<1>8. PlanWritten' /\ Started' /\ Stamps' /\ Refusals'
  BY <1>0, <1>1 DEF IInv, ControlOK, PlanWritten, OnChain, Started, Stamps, Refusals, setup, daemon, proofs
<1> QED BY <1>2, <1>3, <1>4, <1>5, <1>6, <1>7, <1>8 DEF IInv

\* A tool that is killed ends the run and may leave a lag behind.
LEMMA KilledStep == ASSUME IInv, Killed PROVE IInv'
<1>0. UNCHANGED <<setup, daemon, refused, result>> /\ pc' = "failed" /\ i' = 1 /\ tries' = 0 /\ configLost' = TRUE
  BY DEF Killed, Goto, Abort
<1>1. Len(plan) \in Nat /\ Len(comms) \in Nat /\ GoodPlan(plan, comms, keyed)'
  BY <1>0 DEF IInv, GoodPlan, setup
<1>2. ControlOK'
  BY <1>0, <1>1, Numbers DEF IInv, ControlOK, setup, daemon, proofs, Running
<1>3. Placed' /\ IssuersFresh' /\ LagWidened' /\ LagRestored' /\ LagOwed'
  BY <1>0 DEF Placed, IssuersFresh, LagWidened, LagRestored, LagOwed
<1>4. PlanWritten' /\ Stamps' /\ Refusals'
  BY <1>0 DEF IInv, PlanWritten, Stamps, Refusals, daemon, proofs, setup
<1>5. Started'
  <2>1. pc # "idle" /\ runs' = runs
    BY <1>0 DEF Killed, Running, setup
  <2> QED BY <2>1 DEF IInv, Started
<1> QED BY <1>1, <1>2, <1>3, <1>4, <1>5 DEF IInv

\* A _config write, taken: on to the next community or step; turned down or
\* lost: sent again, or the lag given up.
LEMMA ConfigCases ==
  ASSUME NEW value, NEW onFailure, NEW whenDone, SubmitConfig(value, onFailure, whenDone), IInv,
         pc \in {"widen", "restore"}, comms # <<>>, value \in {GENESIS_LAG, WIDENED_LAG},
         onFailure = "failed", whenDone \in {"items", "ok", "failed"}
  PROVE  /\ UNCHANGED <<setup, proofs, objects, refused>>
         /\ \/ /\ pc' = pc /\ i' = i + 1 /\ i < Len(comms) /\ tries' = 0
               /\ lag' = [lag EXCEPT ![comms[i]] = value] /\ UNCHANGED <<result, configLost>>
            \/ /\ pc' = whenDone /\ i' = 1 /\ i = Len(comms) /\ tries' = 0
               /\ lag' = [lag EXCEPT ![comms[i]] = value] /\ UNCHANGED <<result, configLost>>
            \/ pc' = pc /\ i' = i /\ tries' \in 0 .. RETRIES /\ UNCHANGED <<lag, result, configLost>>
            \/ pc' = "failed" /\ i' = 1 /\ tries' = 0 /\ configLost' = TRUE /\ UNCHANGED result
         /\ lag' \in [Communities -> {GENESIS_LAG, WIDENED_LAG}]
         /\ i \in 1 .. Len(comms) /\ comms \in Seq(Communities) /\ Len(plan) \in Nat
         /\ GoodPlan(plan, comms, keyed)'
<1>1. comms \in Seq(Communities) /\ Len(plan) \in Nat /\ Len(comms) \in Nat
  BY DEF IInv, GoodPlan
<1>2. i \in 1 .. Len(comms)
  BY <1>1 DEF IInv, ControlOK, Placed
<1>3. comms[i] \in Communities
  BY <1>1, <1>2
<1>4. UNCHANGED <<setup, proofs, objects, refused>>
  BY DEF SubmitConfig
<1>5. GoodPlan(plan, comms, keyed)'
  BY <1>4 DEF IInv, setup
<1>6. lag' \in {lag, [lag EXCEPT ![comms[i]] = value]}
  BY DEF SubmitConfig, Retry
<1>7. lag' \in [Communities -> {GENESIS_LAG, WIDENED_LAG}]
  BY <1>3, <1>6 DEF IInv, ControlOK
<1>8. CASE Retry /\ UNCHANGED <<lag, configLost>>
  <2>1. tries' \in 0 .. RETRIES
    BY <1>8, Numbers DEF IInv, ControlOK, Retry
  <2> QED BY <1>1, <1>2, <1>4, <1>5, <1>7, <1>8, <2>1 DEF Retry
<1>9. CASE Goto(onFailure) /\ UNCHANGED result /\ configLost' = TRUE
  BY <1>1, <1>2, <1>4, <1>5, <1>7, <1>9 DEF Goto
<1>10. CASE /\ lag' = [lag EXCEPT ![comms[i]] = value] /\ UNCHANGED <<result, configLost>>
            /\ i < Len(comms) /\ i' = i + 1 /\ tries' = 0 /\ UNCHANGED pc
  BY <1>1, <1>2, <1>4, <1>5, <1>7, <1>10
<1>11. CASE /\ lag' = [lag EXCEPT ![comms[i]] = value] /\ UNCHANGED <<result, configLost>>
            /\ ~(i < Len(comms)) /\ Goto(whenDone)
  <2>1. i = Len(comms)
    BY <1>1, <1>2, <1>11
  <2> QED BY <1>1, <1>2, <1>4, <1>5, <1>7, <1>11, <2>1 DEF Goto
<1>12. \/ /\ lag' = [lag EXCEPT ![comms[i]] = value] /\ UNCHANGED <<result, configLost>>
          /\ IF i < Len(comms) THEN i' = i + 1 /\ tries' = 0 /\ UNCHANGED pc ELSE Goto(whenDone)
       \/ Retry /\ UNCHANGED <<lag, configLost>>
       \/ Goto(onFailure) /\ UNCHANGED result /\ configLost' = TRUE
  BY DEF SubmitConfig
<1> QED BY <1>8, <1>9, <1>10, <1>11, <1>12, Zenon

\* The lag of a community, when that of one is set.
LEMMA LagSet ==
  ASSUME NEW value, NEW c, c \in Communities, lag \in [Communities -> {GENESIS_LAG, WIDENED_LAG}],
         lag' = [lag EXCEPT ![c] = value]
  PROVE  lag'[c] = value /\ \A d \in Communities : d # c => lag'[d] = lag[d]
OBVIOUS

\* Widening: the community at hand, and those before it, are widened.
LEMMA WidenStep == ASSUME IInv, Widen PROVE IInv'
<1>0. pc = "widen" /\ keyed
  BY DEF IInv, Widen, Placed
<1>1. CASE comms = <<>>
  <2>1. pc' = "items" /\ i' = 1 /\ tries' = 0 /\ UNCHANGED <<setup, daemon, refused, configLost, result>>
    BY <1>1 DEF Widen, Goto
  <2>2. Len(plan) \in Nat /\ Len(comms) = 0 /\ GoodPlan(plan, comms, keyed)'
    BY <1>1, <2>1 DEF IInv, GoodPlan, setup
  <2>3. ControlOK'
    BY <2>1, <2>2, Numbers DEF IInv, ControlOK, setup, daemon, proofs, Running
  <2>4. Placed' /\ IssuersFresh' /\ LagRestored'
    BY <1>0, <2>1 DEF IInv, Placed, IssuersFresh, LagRestored, setup, daemon, proofs
  <2>5. LagWidened' /\ LagOwed'
    BY <1>0, <2>1, <2>2 DEF IInv, LagWidened, LagOwed, setup, daemon, proofs
  <2>6. PlanWritten'
    BY <2>1, <2>2 DEF PlanWritten, setup
  <2>7. Started'
    BY <1>0, <2>1 DEF IInv, Started, setup
  <2>8. Stamps'
    BY <2>1 DEF IInv, Stamps, setup, daemon
  <2>9. Refusals'
    BY <2>1 DEF IInv, Refusals, setup, daemon, proofs
  <2> QED BY <2>2, <2>3, <2>4, <2>5, <2>6, <2>7, <2>8, <2>9 DEF IInv
<1>2. CASE comms # <<>>
  <2>0. SubmitConfig(WIDENED_LAG, "failed", "items")
    BY <1>2 DEF Widen
  <2>1. /\ UNCHANGED <<setup, proofs, objects, refused>>
        /\ \/ /\ pc' = pc /\ i' = i + 1 /\ i < Len(comms) /\ tries' = 0
              /\ lag' = [lag EXCEPT ![comms[i]] = WIDENED_LAG] /\ UNCHANGED <<result, configLost>>
           \/ /\ pc' = "items" /\ i' = 1 /\ i = Len(comms) /\ tries' = 0
              /\ lag' = [lag EXCEPT ![comms[i]] = WIDENED_LAG] /\ UNCHANGED <<result, configLost>>
           \/ pc' = pc /\ i' = i /\ tries' \in 0 .. RETRIES /\ UNCHANGED <<lag, result, configLost>>
           \/ pc' = "failed" /\ i' = 1 /\ tries' = 0 /\ configLost' = TRUE /\ UNCHANGED result
        /\ lag' \in [Communities -> {GENESIS_LAG, WIDENED_LAG}]
        /\ i \in 1 .. Len(comms) /\ comms \in Seq(Communities) /\ Len(plan) \in Nat
        /\ GoodPlan(plan, comms, keyed)'
    BY <1>0, <1>2, <2>0, ConfigCases
  <2>2. ControlOK'
    <3>1. Len(comms) \in Nat /\ i' \in 1 .. Len(plan) + Len(comms) + 1
      BY <2>1 DEF IInv, ControlOK
    <3>2. tries' \in 0 .. RETRIES
      BY <2>1, Numbers
    <3> QED BY <1>0, <2>1, <3>1, <3>2 DEF IInv, ControlOK, setup, proofs, Running
  <2>3. Placed'
    <3>1. i + 1 <= Len(comms) \/ ~(i < Len(comms))
      BY <2>1
    <3> QED BY <1>0, <2>1, <3>1 DEF IInv, Placed, setup
  <2>4. IssuersFresh' /\ LagRestored'
    BY <1>0, <2>1 DEF IInv, IssuersFresh, LagRestored, setup, proofs
  <2>5. \A n \in 1 .. Len(comms) : comms[n] \in Communities
    BY <2>1
  <2>6. lag \in [Communities -> {GENESIS_LAG, WIDENED_LAG}]
    BY DEF IInv, ControlOK
  <2>7. ASSUME lag' = [lag EXCEPT ![comms[i]] = WIDENED_LAG]
        PROVE  \A n \in 1 .. Len(comms) : n < i + 1 => lag'[comms[n]] = WIDENED_LAG
    <3> SUFFICES ASSUME NEW n \in 1 .. Len(comms), n < i + 1 PROVE lag'[comms[n]] = WIDENED_LAG
      OBVIOUS
    <3>1. lag'[comms[i]] = WIDENED_LAG /\ \A d \in Communities : d # comms[i] => lag'[d] = lag[d]
      BY <2>1, <2>5, <2>6, <2>7, LagSet
    <3>2. n < i \/ n = i
      BY <2>1
    <3>3. CASE n = i
      BY <3>1, <3>3
    <3>4. CASE n < i
      <4>1. lag[comms[n]] = WIDENED_LAG
        BY <1>0, <3>4 DEF IInv, LagWidened
      <4> QED BY <2>5, <3>1, <4>1
    <3> QED BY <3>2, <3>3, <3>4
  <2>8. LagWidened'
    <3>1. i = Len(comms) => \A n \in 1 .. Len(comms) : n < i + 1
      OBVIOUS
    <3> QED BY <1>0, <2>1, <2>7, <3>1 DEF IInv, LagWidened, setup
  <2>9. LagOwed'
    <3> SUFFICES ASSUME ~configLost', NEW c \in Communities, lag'[c] # GENESIS_LAG
                 PROVE  /\ pc' \in {"widen", "items", "restore"} /\ keyed'
                        /\ \E n \in 1 .. Len(comms') : comms'[n] = c /\ (pc' = "restore" => i' <= n)
      BY DEF LagOwed
    <3>1. pc' \in {"widen", "items"} /\ ~configLost /\ keyed' /\ comms' = comms
      BY <1>0, <2>1 DEF setup
    <3>2. CASE c = comms[i]
      BY <2>1, <3>1, <3>2
    <3>3. CASE c # comms[i]
      <4>1. lag'[c] = lag[c]
        BY <2>1, <2>5, <2>6, <3>3, LagSet, <3>1
      <4>2. PICK n \in 1 .. Len(comms) : comms[n] = c
        BY <3>1, <4>1 DEF IInv, LagOwed
      <4> QED BY <3>1, <4>2
    <3> QED BY <3>2, <3>3
  <2>10. PlanWritten' /\ Started' /\ Stamps' /\ Refusals'
    <3>1. \A n \in 1 .. Len(plan) : ~(n < 1)
      BY <2>1
    <3> QED BY <1>0, <2>1, <3>1 DEF IInv, ControlOK, PlanWritten, OnChain, Started, Stamps, Refusals, setup, proofs
  <2> QED BY <2>1, <2>2, <2>3, <2>4, <2>8, <2>9, <2>10 DEF IInv
<1> QED BY <1>1, <1>2

\* Restoring: the community at hand, and those before it, are as at genesis.
LEMMA RestoreStep == ASSUME IInv, Restore PROVE IInv'
<1>0. pc = "restore" /\ keyed /\ comms # <<>>
  BY DEF IInv, Restore, Placed
<1> DEFINE done == IF result = "ok" THEN "ok" ELSE "failed"
<1>1. SubmitConfig(GENESIS_LAG, "failed", done)
  BY DEF Restore
<1>2. done \in {"ok", "failed"} /\ (done = "ok" => result = "ok")
  OBVIOUS
<1> HIDE DEF done
<1>3. /\ UNCHANGED <<setup, proofs, objects, refused>>
      /\ \/ /\ pc' = pc /\ i' = i + 1 /\ i < Len(comms) /\ tries' = 0
            /\ lag' = [lag EXCEPT ![comms[i]] = GENESIS_LAG] /\ UNCHANGED <<result, configLost>>
         \/ /\ pc' = done /\ i' = 1 /\ i = Len(comms) /\ tries' = 0
            /\ lag' = [lag EXCEPT ![comms[i]] = GENESIS_LAG] /\ UNCHANGED <<result, configLost>>
         \/ pc' = pc /\ i' = i /\ tries' \in 0 .. RETRIES /\ UNCHANGED <<lag, result, configLost>>
         \/ pc' = "failed" /\ i' = 1 /\ tries' = 0 /\ configLost' = TRUE /\ UNCHANGED result
      /\ lag' \in [Communities -> {GENESIS_LAG, WIDENED_LAG}]
      /\ i \in 1 .. Len(comms) /\ comms \in Seq(Communities) /\ Len(plan) \in Nat
      /\ GoodPlan(plan, comms, keyed)'
  BY <1>0, <1>1, <1>2, ConfigCases
<1>4. ControlOK'
  <2>1. Len(comms) \in Nat /\ i' \in 1 .. Len(plan) + Len(comms) + 1
    BY <1>3 DEF IInv, ControlOK
  <2>2. tries' \in 0 .. RETRIES
    BY <1>3, Numbers
  <2> QED BY <1>0, <1>2, <1>3, <2>1, <2>2 DEF IInv, ControlOK, setup, proofs, Running
<1>5. Placed'
  <2>1. i + 1 <= Len(comms) \/ ~(i < Len(comms))
    BY <1>3
  <2> QED BY <1>0, <1>2, <1>3, <2>1 DEF IInv, Placed, setup
<1>6. IssuersFresh' /\ LagWidened'
  BY <1>0, <1>2, <1>3 DEF IInv, IssuersFresh, LagWidened, setup, proofs
<1>7. \A n \in 1 .. Len(comms) : comms[n] \in Communities
  BY <1>3
<1>8. lag \in [Communities -> {GENESIS_LAG, WIDENED_LAG}]
  BY DEF IInv, ControlOK
<1>9. ASSUME lag' = [lag EXCEPT ![comms[i]] = GENESIS_LAG]
      PROVE  \A n \in 1 .. Len(comms) : n < i + 1 => lag'[comms[n]] = GENESIS_LAG
  <2> SUFFICES ASSUME NEW n \in 1 .. Len(comms), n < i + 1 PROVE lag'[comms[n]] = GENESIS_LAG
    OBVIOUS
  <2>1. lag'[comms[i]] = GENESIS_LAG /\ \A d \in Communities : d # comms[i] => lag'[d] = lag[d]
    BY <1>3, <1>7, <1>8, <1>9, LagSet
  <2>2. n < i \/ n = i
    BY <1>3
  <2>3. CASE n = i
    BY <2>1, <2>3
  <2>4. CASE n < i
    <3>1. lag[comms[n]] = GENESIS_LAG
      BY <1>0, <2>4 DEF IInv, LagRestored
    <3> QED BY <1>7, <2>1, <3>1
  <2> QED BY <2>2, <2>3, <2>4
<1>10. LagRestored'
  <2>1. i = Len(comms) => \A n \in 1 .. Len(comms) : n < i + 1
    OBVIOUS
  <2> QED BY <1>0, <1>2, <1>3, <1>9, <2>1 DEF IInv, LagRestored, setup
<1>11. LagOwed'
  <2> SUFFICES ASSUME ~configLost', NEW c \in Communities, lag'[c] # GENESIS_LAG
               PROVE  /\ pc' \in {"widen", "items", "restore"} /\ keyed'
                      /\ \E n \in 1 .. Len(comms') : comms'[n] = c /\ (pc' = "restore" => i' <= n)
    BY DEF LagOwed
  <2>0. ~configLost /\ keyed' /\ comms' = comms
    BY <1>0, <1>3 DEF setup
  <2>1. CASE lag' = [lag EXCEPT ![comms[i]] = GENESIS_LAG]
    <3>1. c # comms[i] /\ lag'[c] = lag[c]
      BY <1>3, <1>7, <1>8, <2>1, LagSet
    <3>2. PICK n \in 1 .. Len(comms) : comms[n] = c /\ i <= n
      BY <1>0, <2>0, <3>1 DEF IInv, LagOwed
    <3>3. n # i /\ i < n
      BY <1>3, <3>1, <3>2
    <3>4. i < Len(comms) /\ i + 1 <= n
      BY <1>3, <3>3
    <3> QED BY <1>0, <1>3, <2>0, <3>2, <3>4
  <2>2. CASE pc' = pc /\ i' = i /\ UNCHANGED lag
    BY <1>0, <2>0, <2>2 DEF IInv, LagOwed
  <2> QED BY <1>3, <2>0, <2>1, <2>2
<1>12. PlanWritten' /\ Started' /\ Stamps' /\ Refusals'
  BY <1>0, <1>2, <1>3 DEF IInv, ControlOK, PlanWritten, OnChain, Started, Stamps, Refusals, setup, proofs
<1> QED BY <1>3, <1>4, <1>5, <1>6, <1>10, <1>11, <1>12 DEF IInv

\* At its turn an item lacks at most the proof of its issuer: what it needs was
\* written before it, and its age is within the lag.
LEMMA Admitted ==
  ASSUME IInv, pc = "items", i <= Len(plan)
  PROVE  /\ i \in 1 .. Len(plan)
         /\ Lacks(plan[i]) \subseteq {"proof"}
         /\ "proof" \in Lacks(plan[i]) => Issuer(plan[i].owner) \in unproven
<1> DEFINE item == plan[i]
<1>0. i \in 1 .. Len(plan) /\ comms \in Seq(Communities)
  BY DEF IInv, ControlOK, GoodPlan
<1>1. Issuer(item.owner) \in fresh \cup unproven
  <2>1. Idp \in fresh \cup unproven /\ (External # {} => Broker \in fresh \cup unproven)
    BY DEF IInv, IssuersFresh
  <2> QED BY <2>1 DEF Issuer
<1>2. item.needs \subseteq DOMAIN objects
  <2> SUFFICES ASSUME NEW k \in item.needs PROVE k \in DOMAIN objects
    OBVIOUS
  <2>1. PICK m \in 1 .. i - 1 : plan[m].key = k
    BY <1>0 DEF IInv, GoodPlan, Closed
  <2>2. m \in 1 .. Len(plan) /\ m < i
    BY <1>0
  <2> QED BY <2>1, <2>2 DEF IInv, PlanWritten, OnChain
<1>3. ASSUME item.dated PROVE item.age <= lag[item.comm]
  <2>1. /\ \E j \in 1 .. Len(comms) : comms[j] = item.comm
        /\ item.age \in Int /\ item.age <= MAX_CORPUS_AGE /\ (keyed \/ item.age <= CAP)
    BY <1>0, <1>3 DEF IInv, GoodPlan
  <2>2. PICK j \in 1 .. Len(comms) : comms[j] = item.comm
    BY <2>1
  <2>3. lag[item.comm] \in {GENESIS_LAG, WIDENED_LAG}
    BY <1>0, <2>2 DEF IInv, ControlOK
  <2>4. keyed => lag[item.comm] = WIDENED_LAG
    BY <2>2 DEF IInv, LagWidened
  <2>5. PICK age \in Int, l \in Int : age = item.age /\ l = lag[item.comm]
    BY <2>1, <2>3, Numbers
  <2>6. age <= MAX_CORPUS_AGE /\ (keyed \/ age <= CAP) /\ l \in {GENESIS_LAG, WIDENED_LAG}
        /\ (keyed => l = WIDENED_LAG)
    BY <2>1, <2>3, <2>4, <2>5
  <2>7. age <= l
    <3>1. CASE l = WIDENED_LAG
      BY <2>6, <3>1, Numbers
    <3>2. CASE l = GENESIS_LAG /\ l # WIDENED_LAG
      <4>1. age <= CAP
        BY <2>6, <3>2
      <4> QED BY <3>2, <4>1, Numbers
    <3> QED BY <2>6, <3>1, <3>2
  <2> QED BY <2>5, <2>7
<1> HIDE DEF item
<1>4. Lacks(item) \subseteq {"proof"} /\ ("proof" \in Lacks(item) => Issuer(item.owner) \in unproven)
  BY <1>1, <1>2, <1>3 DEF Lacks
<1> QED BY <1>0, <1>4 DEF item

\* Where the items leave the run.
LEMMA FinishCases ==
  ASSUME NEW r \in {"ok", "failed"}, IInv
  PROVE  \/ Finish(r) = "restore" /\ keyed /\ comms # <<>>
         \/ Finish(r) = r /\ ~(keyed /\ comms # <<>>)
BY DEF Finish

\* All items are written.
LEMMA ItemsDoneStep == ASSUME IInv, ItemsDone PROVE IInv'
<1>0. /\ pc = "items" /\ i > Len(plan) /\ pc' = Finish("ok") /\ i' = 1 /\ tries' = 0
      /\ UNCHANGED <<setup, daemon, refused, configLost, result>>
  BY DEF ItemsDone, Goto
<1>1. \/ pc' = "restore" /\ keyed /\ comms # <<>>
      \/ pc' = "ok" /\ ~(keyed /\ comms # <<>>)
  BY <1>0, FinishCases
<1>2. Len(plan) \in Nat /\ comms \in Seq(Communities) /\ Len(comms) \in Nat /\ GoodPlan(plan, comms, keyed)'
  BY <1>0 DEF IInv, GoodPlan, setup
<1>3. ControlOK'
  BY <1>0, <1>1, <1>2, Numbers DEF IInv, ControlOK, setup, daemon, proofs, Running
<1>4. Placed'
  <2>1. comms # <<>> => 1 <= Len(comms)
    BY <1>2
  <2> QED BY <1>0, <1>1, <2>1 DEF Placed, setup
<1>5. IssuersFresh' /\ LagWidened'
  BY <1>0, <1>1 DEF IssuersFresh, LagWidened
<1>6. LagRestored'
  <2>1. comms = <<>> => Len(comms) = 0
    OBVIOUS
  <2> QED BY <1>0, <1>1, <1>2, <2>1 DEF LagRestored, setup
<1>7. LagOwed'
  <2> SUFFICES ASSUME ~configLost', NEW c \in Communities, lag'[c] # GENESIS_LAG
               PROVE  /\ pc' \in {"widen", "items", "restore"} /\ keyed'
                      /\ \E n \in 1 .. Len(comms') : comms'[n] = c /\ (pc' = "restore" => i' <= n)
    BY DEF LagOwed
  <2>0. ~configLost /\ lag' = lag /\ comms' = comms /\ keyed' = keyed
    BY <1>0 DEF setup, daemon, proofs
  <2>1. keyed /\ \E n \in 1 .. Len(comms) : comms[n] = c
    BY <2>0 DEF IInv, LagOwed
  <2>2. PICK n \in 1 .. Len(comms) : comms[n] = c
    BY <2>1
  <2>3. comms # <<>> /\ 1 <= n
    BY <1>2, <2>2
  <2> QED BY <1>0, <1>1, <2>0, <2>1, <2>2, <2>3
<1>8. PlanWritten' /\ Started' /\ Stamps' /\ Refusals'
  <2>1. \A n \in 1 .. Len(plan) : n < i
    BY <1>0, <1>2 DEF IInv, ControlOK
  <2> QED BY <1>0, <1>1, <2>1 DEF IInv, ControlOK, PlanWritten, OnChain, Started, Stamps, Refusals, setup, daemon, proofs
<1> QED BY <1>2, <1>3, <1>4, <1>5, <1>6, <1>7, <1>8 DEF IInv

\* What a write leaves of the objects: all that were there, and the item's.
LEMMA WriteStep ==
  ASSUME IInv, pc = "items", i \in 1 .. Len(plan), objects' \in Written(plan[i]), UNCHANGED setup
  PROVE  /\ \A n \in 1 .. Len(plan) : n <= i => OnChain(n)'
         /\ Stamps'
<1> DEFINE key == plan[i].key
           age == plan[i].age
<1>0. /\ Len(plan) \in Nat /\ runs \in Nat /\ plan' = plan /\ runs' = runs
      /\ age \in Int /\ plan[i].parent = ParentOf(key) /\ key \in {plan[m].key : m \in 1 .. Len(plan)}
  BY DEF IInv, ControlOK, GoodPlan, setup
<1>1. \A n \in 1 .. Len(plan) : n < i => OnChain(n)
  BY DEF IInv, PlanWritten
<1>2. CASE objects' = objects /\ Younger(plan[i])
  <2>1. \A n \in 1 .. Len(plan) : n <= i => OnChain(n)
    <3>1. \A n \in 1 .. Len(plan) : n <= i => n < i \/ n = i
      BY <1>0
    <3>2. OnChain(i)
      BY <1>2 DEF Younger, OnChain
    <3> QED BY <1>1, <3>1, <3>2
  <2> QED BY <1>0, <1>2, <2>1 DEF IInv, OnChain, Stamps
<1>3. CASE objects' = Stamped(plan[i])
  <2>1. /\ DOMAIN objects' = DOMAIN objects \cup {key}
        /\ objects'[key] = [age |-> age, run |-> runs]
        /\ \A k \in DOMAIN objects : k # key => objects'[k] = objects[k]
    BY <1>3 DEF Stamped
  <2>2. objects'[key].age = age /\ objects'[key].run = runs
    BY <2>1
  <2>3. runs \in 1 .. runs
    <3>1. runs > 0
      BY DEF IInv, Started
    <3> QED BY <1>0, <3>1
  <2> HIDE DEF key, age
  <2>4. ASSUME NEW n \in 1 .. Len(plan), n <= i PROVE OnChain(n)'
    <3>1. CASE plan[n].key = key
      BY <1>0, <2>1, <2>2, <3>1 DEF OnChain
    <3>2. CASE plan[n].key # key
      <4>1. n < i
        BY <1>0, <2>4, <3>2 DEF key
      <4>2. OnChain(n)
        BY <1>1, <4>1
      <4> QED BY <1>0, <2>1, <3>2, <4>2 DEF OnChain
    <3> QED BY <3>1, <3>2
  <2>5. ASSUME NEW p \in ParentOf(key) PROVE p \in DOMAIN objects
    <3>1. PICK m \in 1 .. i - 1 : plan[m].key = p
      BY <1>0, <2>5 DEF IInv, GoodPlan, Closed
    <3>2. m \in 1 .. Len(plan) /\ m < i
      BY <1>0
    <3> QED BY <1>1, <3>1, <3>2 DEF OnChain
  <2>6. \A k \in DOMAIN objects' : objects'[k].run = runs =>
          \E m \in 1 .. Len(plan) : plan[m].key = k /\ plan[m].age = objects'[k].age
    <3>1. plan[i].key = key /\ plan[i].age = objects'[key].age
      BY <2>2 DEF key, age
    <3> QED BY <2>1, <3>1 DEF IInv, Stamps
  <2>7. ASSUME NEW k \in DOMAIN objects', NEW p \in ParentOf(k)
        PROVE  p \in DOMAIN objects' /\ (objects'[p].run = objects'[k].run => objects'[k].age <= objects'[p].age)
    <3>1. p \in DOMAIN objects
      BY <2>1, <2>5, <2>7 DEF IInv, Stamps
    <3>2. CASE k # key /\ p # key
      BY <2>1, <2>7, <3>1, <3>2 DEF IInv, Stamps
    <3>3. CASE k = key \/ p = key
      <4> SUFFICES ASSUME objects'[p].run = objects'[k].run PROVE objects'[k].age <= objects'[p].age
        BY <2>1, <3>1
      <4>1. objects'[p].run = runs /\ objects'[k].run = runs
        BY <2>2, <3>3
      <4>2. PICK m \in 1 .. Len(plan) : plan[m].key = p /\ plan[m].age = objects'[p].age
        BY <2>1, <2>6, <3>1, <4>1
      <4>3. PICK n \in 1 .. Len(plan) : plan[n].key = k /\ plan[n].age = objects'[k].age
        BY <2>6, <2>7, <4>1
      <4>4. plan[n].parent = ParentOf(k)
        BY <4>3 DEF IInv, GoodPlan
      <4>5. plan[n].age <= plan[m].age
        BY <2>7, <4>2, <4>4 DEF IInv, GoodPlan
      <4> QED BY <4>2, <4>3, <4>5
    <3> QED BY <3>2, <3>3
  <2>8. \A k \in DOMAIN objects' : objects'[k].age \in Int /\ objects'[k].run \in 1 .. runs
    BY <1>0, <2>1, <2>2, <2>3 DEF IInv, Stamps, age
  <2> QED BY <1>0, <2>4, <2>6, <2>7, <2>8 DEF Stamps
<1> QED BY <1>2, <1>3 DEF Written

\* One item: written after its parent, sent again, or the last of its run.
LEMMA SubmitItemStep == ASSUME IInv, SubmitItem PROVE IInv'
<1>0. pc = "items" /\ i <= Len(plan) /\ UNCHANGED <<setup, proofs, lag, configLost>>
  BY DEF SubmitItem
<1>1. /\ i \in 1 .. Len(plan) /\ Lacks(plan[i]) \subseteq {"proof"}
      /\ "proof" \in Lacks(plan[i]) => Issuer(plan[i].owner) \in unproven
  BY <1>0, Admitted
<1>2. \/ /\ objects' \in Written(plan[i]) /\ i' = i + 1 /\ tries' = 0
         /\ UNCHANGED <<pc, result, refused>>
      \/ tries' \in 0 .. RETRIES /\ UNCHANGED <<pc, i, result, objects, refused>>
      \/ /\ objects' \in {objects} \cup Written(plan[i]) /\ i' = 1 /\ tries' = 0
         /\ pc' = Finish("failed") /\ result' = "err"
         /\ \/ refused' = refused
            \/ /\ Lacks(plan[i]) # {}
               /\ refused' = refused \cup {[owner |-> plan[i].owner, lacks |-> Lacks(plan[i])]}
  <2>1. tries < RETRIES => tries + 1 \in 0 .. RETRIES
    BY Numbers DEF IInv, ControlOK
  <2>2. tries \in 0 .. RETRIES
    BY DEF IInv, ControlOK
  <2>3. CASE /\ objects' \in Written(plan[i]) /\ i' = i + 1 /\ tries' = 0 /\ UNCHANGED <<pc, result, refused>>
    BY <2>3
  <2>4. CASE Retry /\ UNCHANGED <<objects, refused>>
    BY <2>1, <2>4 DEF Retry
  <2>5. CASE /\ objects' \in {objects} \cup (IF Admits(plan[i]) THEN Written(plan[i]) ELSE {})
             /\ refused' = IF Admits(plan[i]) THEN refused
                           ELSE refused \cup {[owner |-> plan[i].owner, lacks |-> Lacks(plan[i])]}
             /\ Goto(Finish("failed")) /\ result' = "err"
    BY <2>5 DEF Goto, Admits
  <2> QED BY <2>3, <2>4, <2>5, Zenon DEF SubmitItem
<1>3. pc' = pc \/ /\ i' = 1 /\ result' = "err"
                  /\ \/ pc' = "restore" /\ keyed /\ comms # <<>>
                     \/ pc' = "failed" /\ ~(keyed /\ comms # <<>>)
  BY <1>2, FinishCases
<1>4. /\ Len(plan) \in Nat /\ comms \in Seq(Communities) /\ Len(comms) \in Nat
      /\ GoodPlan(plan, comms, keyed)'
  BY <1>0 DEF IInv, GoodPlan, ControlOK, setup
<1>5. ControlOK'
  <2>1. i' \in 1 .. Len(plan) + Len(comms) + 1
    BY <1>1, <1>2, <1>4
  <2>2. tries' \in 0 .. RETRIES /\ result' \in {"ok", "err"}
    BY <1>2, Numbers DEF IInv, ControlOK
  <2>3. pc' \in Running \cup {"failed"}
    BY <1>0, <1>3 DEF Running
  <2> QED BY <1>0, <2>1, <2>2, <2>3 DEF IInv, ControlOK, setup, proofs
<1>6. Placed'
  <2>1. comms # <<>> => 1 <= Len(comms)
    BY <1>4
  <2> QED BY <1>0, <1>3, <2>1 DEF Placed, setup
<1>7. IssuersFresh' /\ LagWidened'
  BY <1>0, <1>3 DEF IInv, IssuersFresh, LagWidened, setup, proofs
<1>8. LagRestored'
  BY <1>0, <1>3 DEF LagRestored, setup
<1>9. LagOwed'
  <2> SUFFICES ASSUME ~configLost', NEW c \in Communities, lag'[c] # GENESIS_LAG
               PROVE  /\ pc' \in {"widen", "items", "restore"} /\ keyed'
                      /\ \E n \in 1 .. Len(comms') : comms'[n] = c /\ (pc' = "restore" => i' <= n)
    BY DEF LagOwed
  <2>0. ~configLost /\ lag' = lag /\ comms' = comms /\ keyed' = keyed
    BY <1>0 DEF setup
  <2>1. keyed /\ \E n \in 1 .. Len(comms) : comms[n] = c
    BY <2>0 DEF IInv, LagOwed
  <2>2. PICK n \in 1 .. Len(comms) : comms[n] = c
    BY <2>1
  <2>3. comms # <<>> /\ 1 <= n
    BY <1>4, <2>2
  <2> QED BY <1>0, <1>3, <2>0, <2>1, <2>2, <2>3
<1>10. objects' \in Written(plan[i]) => Stamps' /\ \A n \in 1 .. Len(plan) : n <= i => OnChain(n)'
  BY <1>0, <1>1, WriteStep
<1>11. objects' = objects => Stamps' /\ \A n \in 1 .. Len(plan) : n < i => OnChain(n)'
  BY <1>0 DEF IInv, PlanWritten, OnChain, Stamps, setup
<1>12. Stamps'
  BY <1>2, <1>10, <1>11
<1>13. PlanWritten'
  <2>1. ASSUME pc' = "items", NEW n \in 1 .. Len(plan), n < i' PROVE OnChain(n)'
    <3>1. (objects' \in Written(plan[i]) /\ i' = i + 1) \/ (objects' = objects /\ i' = i)
      BY <1>0, <1>2, <1>3, <2>1
    <3>2. i \in Nat
      BY <1>1
    <3> QED BY <1>10, <1>11, <2>1, <3>1, <3>2
  <2>2. ~(pc' = "ok" \/ (pc' = "restore" /\ result' = "ok"))
    BY <1>0, <1>3
  <2>3. plan' = plan
    BY <1>0 DEF setup
  <2> QED BY <2>1, <2>2, <2>3 DEF PlanWritten
<1>14. Refusals'
  <2>1. unproven' = unproven /\ plan[i].owner \in Personas
    BY <1>0, <1>1 DEF IInv, GoodPlan, proofs
  <2>2. Lacks(plan[i]) # {} => Lacks(plan[i]) = {"proof"}
    BY <1>1
  <2>3. refused' \in {refused, refused \cup {[owner |-> plan[i].owner, lacks |-> {"proof"}]}}
        /\ (refused' # refused => Issuer(plan[i].owner) \in unproven)
    BY <1>1, <1>2, <2>2
  <2>4. pc' \notin {"dnssec", "dnssec_broker"}
    BY <1>0, <1>3
  <2> QED BY <2>1, <2>3, <2>4 DEF IInv, Refusals
<1>15. Started'
  BY <1>0 DEF IInv, Started, setup
<1> QED BY <1>4, <1>5, <1>6, <1>7, <1>8, <1>9, <1>12, <1>13, <1>14, <1>15 DEF IInv

LEMMA InvNext == IInv /\ [Next]_vars => IInv'
<1> SUFFICES ASSUME IInv, [Next]_vars PROVE IInv'
  OBVIOUS
<1>1. CASE Run
  BY <1>1, RunStep
<1>2. CASE EnsureDnssec
  BY <1>2, DnssecStep
<1>3. CASE Provision
  BY <1>3, ProvisionStep
<1>4. CASE Widen
  BY <1>4, WidenStep
<1>5. CASE SubmitItem
  BY <1>5, SubmitItemStep
<1>6. CASE ItemsDone
  BY <1>6, ItemsDoneStep
<1>7. CASE Restore
  BY <1>7, RestoreStep
<1>8. CASE Killed
  BY <1>8, KilledStep
<1>10. CASE ProofLapses
  BY <1>10, LapseStep
<1>9. CASE UNCHANGED vars
  <2>1. GoodPlan(plan, comms, keyed)'
    BY <1>9 DEF IInv, vars, setup
  <2> QED BY <1>9, <2>1 DEF IInv, ControlOK, Placed, IssuersFresh, LagWidened, LagRestored, LagOwed, PlanWritten,
             OnChain, Stamps, Refusals, Started, vars, tool, setup, daemon, proofs
<1> QED BY <1>1, <1>2, <1>3, <1>4, <1>5, <1>6, <1>7, <1>8, <1>9, <1>10 DEF Next, execute

-----------------------------------------------------------------------------
(* The theorems.                                                           *)

\* Every variable has its type, the items of the plan, the stamps of the objects
\* and the refusals included.
THEOREM TypeCorrect == Spec => []TypeOK
<1>1. IInv => TypeOK
  <2> SUFFICES ASSUME IInv PROVE TypeOK
    OBVIOUS
  <2>1. comms \in Seq(Communities) /\ DOMAIN plan = 1 .. Len(plan)
    BY DEF IInv, GoodPlan
  <2>2. ASSUME NEW n \in DOMAIN plan
        PROVE  /\ plan[n].owner \in Personas /\ plan[n].dated \in BOOLEAN
               /\ plan[n].age \in Int /\ plan[n].dated => plan[n].comm \in Communities
    BY <2>1, <2>2 DEF IInv, GoodPlan
  <2>3. \A k \in DOMAIN objects : objects[k].age \in Int /\ objects[k].run \in 1 .. runs
    BY DEF IInv, Stamps
  <2>4. refused \subseteq [owner : Personas, lacks : SUBSET {"proof", "membership", "lag"}]
    BY DEF IInv, Refusals
  <2> QED BY <2>1, <2>2, <2>3, <2>4 DEF IInv, ControlOK, TypeOK
<1> QED BY <1>1, InvInit, InvNext, PTL DEF Spec

\* Whatever the corpora, the runs and their failures, the daemon turns an item down
\* for nothing that the order of build_plan or its ages could have spared it: only
\* an issuer passed over without a proof, or whose proof ended meanwhile, is left.
THEOREM RefusedSafe == Spec => []RefusedOnlyUnproven
<1>1. IInv => RefusedOnlyUnproven
  BY DEF IInv, Refusals, RefusedOnlyUnproven
<1> QED BY <1>1, InvInit, InvNext, PTL DEF Spec

\* No comment or upvote is on the chain without its post, and none is dated
\* before it by the run that wrote both, clamped or not.
THEOREM FollowSafe == Spec => []RepliesFollowPosts
<1>1. IInv => RepliesFollowPosts
  <2> SUFFICES ASSUME IInv, NEW n \in DOMAIN plan, plan[n].key \in DOMAIN objects, NEW p \in plan[n].parent
               PROVE  /\ p \in DOMAIN objects
                      /\ objects[p].run = objects[plan[n].key].run => objects[plan[n].key].age <= objects[p].age
    BY DEF RepliesFollowPosts
  <2>1. plan[n].parent = ParentOf(plan[n].key)
    BY DEF IInv, GoodPlan
  <2> QED BY <2>1 DEF IInv, Stamps
<1> QED BY <1>1, InvInit, InvNext, PTL DEF Spec

\* A run that has ended has restored every lag it widened, unless a _config write
\* failed or the tool was killed.
THEOREM RestoredSafe == Spec => []RestoredUnlessConfigLost
<1>1. IInv => RestoredUnlessConfigLost
  BY DEF IInv, LagOwed, RestoredUnlessConfigLost, Running
<1> QED BY <1>1, InvInit, InvNext, PTL DEF Spec

\* A run that reports success has written its whole plan, over all that is not
\* younger, and restored the lags.
THEOREM SeededSafe == Spec => []OkMeansSeeded
<1>1. IInv => OkMeansSeeded
  <2> SUFFICES ASSUME IInv, pc = "ok" PROVE OkMeansSeeded
    BY DEF OkMeansSeeded
  <2>1. DOMAIN plan = 1 .. Len(plan) /\ DOMAIN comms = 1 .. Len(comms)
    BY DEF IInv, GoodPlan
  <2> QED BY <2>1 DEF IInv, PlanWritten, OnChain, LagRestored, OkMeansSeeded
<1> QED BY <1>1, InvInit, InvNext, PTL DEF Spec

-----------------------------------------------------------------------------
(***************************************************************************)
(* Module LiveTest.                                                        *)
(***************************************************************************)

(***************************************************************************)
(* What a script relies on: the chain before each of its lines, as long as *)
(* no write was misjudged, and whether a write was to be denied by then.   *)
(***************************************************************************)

\* The waits for what became of a write.
Awaits == {"present", "absent", "deleted", "changed", "head", "same"}
\* Those for a write that the rules permit.
Grants == {"present", "changed", "deleted"}

Situation(x) == x = [st |-> [o \in Objects |-> x.st[o]], ar |-> x.ar, barred |-> x.barred]

\* The chain after a write that is permitted, and after one that is not.
Given(x, obj, val) ==
  [st |-> [x.st EXCEPT ![obj] = val], ar |-> IF obj = "A" THEN x.ar \cup {val} ELSE x.ar, barred |-> x.barred]
Barred(x) == [st |-> x.st, ar |-> x.ar, barred |-> "yes"]
After(x, w, granted) == IF granted THEN Given(x, w.obj, w.val) ELSE Barred(x)

\* A version of the ancestor governs, except version 2 in S9.
Rules(id, v) == v.govern = "sys" <=> (id # "S9" \/ v.n # 2)

\* An install: of the ancestor; of a child, under an ancestor, with the pin on a
\* version that governs.
Sound(id, w, x) ==
  /\ w.act = "post"
  /\ w.obj = "A" => Rules(id, w.val)
  /\ w.obj # "A" =>
       /\ x.st["A"] # None
       /\ w.val.pin # 0 => (id # "S9" \/ w.val.pin # 2) /\ \E q \in x.ar : q.n = w.val.pin
       /\ (id = "S9" /\ w.obj # "D") => w.val.pin # 0

\* A write and the wait that follows it.
Awaited(id, l, m, x) ==
  LET w == l.w
      old == x.st[l.obj]
  IN /\ l.op = "submit" /\ m.op \in Awaits /\ (m.op # "head" => m.obj = l.obj)
     /\ w.obj = l.obj /\ l.obj \in Objects /\ (w.by = "sys" <=> l.obj \in Policies)
     /\ w.act \in {"post", "delete"} /\ (w.val = None <=> w.act = "delete")
     /\ Permits(x.st, x.ar, w) <=> m.op \in Grants
     /\ l.else \in {"fail", "error", "go"} /\ (l.else # "go" => m.op \in Grants)
     /\ m.op \in {"present", "absent"} => w.act = "post" /\ old = None
     /\ m.op = "present" => m.want = None \/ w.val.body = m.want
     /\ m.op = "deleted" => w.act = "delete" /\ old # None
     /\ m.op \in {"changed", "same"} => w.act = "post" /\ old # None
     /\ m.op = "changed" => w.val # old
     /\ w.obj \in Policies => Sound(id, w, x)
     /\ w.obj = "A" => l.else = "fail" /\ m.op \in {"present", "changed"} /\ m.else \in {"error", "timeout", "fail"}

\* A body that a write l must not change.
Untouched(l, b, x) ==
  /\ b.op = "present" /\ b.obj = l.obj /\ b.else = "return" /\ b.want # None
  /\ x.st[l.obj] # None /\ x.st[l.obj].body = b.want
  /\ l.w.act = "post" => l.w.val.body # b.want

\* What a wait may make of its result.
Ways(op) ==
  CASE op = "present" -> {"error", "accepted", "return"}
    [] op = "absent" -> {"return", "flag"}
    [] op = "deleted" -> {"return"}
    [] op = "changed" -> {"timeout", "fail", "accepted"}
    [] op = "head" -> {"go"}
    [] op = "same" -> {"flag"}
    [] OTHER -> {"error"}

\* Line n of s writes.
WriteRow(id, s, p, n) ==
  /\ n + 1 \in DOMAIN s /\ Awaited(id, s[n], s[n + 1], p[n])
  /\ p[n + 1] = After(p[n], s[n].w, s[n + 1].op \in Grants)
  /\ s[n + 1].op \in {"changed", "same"} => n > 1 /\ s[n - 1].op = "hash"
  /\ s[n + 1].op = "head" => n + 2 \in DOMAIN s /\ Untouched(s[n], s[n + 2], p[n])

\* Line n of s waits, or reads a hash.
WaitRow(s, p, n) ==
  /\ p[n + 1] = p[n]
  /\ s[n].op \in Awaits \cup {"hash", "provision"} /\ s[n].else \in Ways(s[n].op)
  /\ s[n].op = "hash" => /\ s[n].obj \in Policies /\ p[n].barred = "no"
                         /\ n + 1 \in DOMAIN s /\ s[n + 1].op = "submit" /\ s[n + 1].obj = s[n].obj
                         /\ n + 2 \in DOMAIN s /\ s[n + 2].op \in {"changed", "same"}
  /\ s[n].op \in Awaits =>
       n > 1 /\ (s[n - 1].op = "submit" \/ (s[n].op = "present" /\ s[n - 1].op = "head"))
  /\ s[n].else = "return" => n = Len(s)

\* p are the situations before the lines of s, and after the last.
Traces(id, s, p) ==
  /\ \A n \in 1 .. Len(s) + 1 : Situation(p[n])
  /\ \A n \in 1 .. Len(s) : IF s[n].op = "submit" THEN WriteRow(id, s, p, n) ELSE WaitRow(s, p, n)

\* A part of a script, and one that another can follow.
Leads(id, s, x, y) ==
  /\ \E T : s \in Seq(T)
  /\ Len(s) > 0 /\ s[1].op \notin Awaits
  /\ \E p : Traces(id, s, p) /\ p[1] = x /\ p[Len(s) + 1] = y
Inner(id, s, x, y) == Leads(id, s, x, y) /\ \A n \in 1 .. Len(s) : s[n].else # "return"

\* Two parts of a script, one after the other.
LEMMA Chained ==
  ASSUME NEW id, NEW s, NEW t, NEW x, NEW y, NEW z, Inner(id, s, x, y), Leads(id, t, y, z)
  PROVE  Leads(id, s \o t, x, z) /\ (Inner(id, t, y, z) => Inner(id, s \o t, x, z))
<1>0. PICK S, T : s \in Seq(S) /\ t \in Seq(T)
  BY DEF Leads, Inner
<1> DEFINE R == S \cup T
<1>00. s \in Seq(R) /\ t \in Seq(R)
  BY <1>0
<1> HIDE DEF R
<1> DEFINE u == s \o t
           K == Len(s)
<1>1. u \in Seq(R) /\ Len(u) = K + Len(t) /\ K \in Nat /\ Len(t) \in Nat
  BY <1>00
<1>2. DOMAIN s = 1 .. K /\ DOMAIN t = 1 .. Len(t) /\ DOMAIN u = 1 .. K + Len(t)
  BY <1>00
<1>3. \A n \in 1 .. K : u[n] = s[n]
  BY <1>00
<1>4. \A n \in 1 .. Len(t) : u[K + n] = t[n]
  BY <1>00
<1>5. PICK p1 : Traces(id, s, p1) /\ p1[1] = x /\ p1[K + 1] = y
  BY DEF Leads, Inner
<1>6. PICK p2 : Traces(id, t, p2) /\ p2[1] = y /\ p2[Len(t) + 1] = z
  BY DEF Leads
<1> DEFINE p == [n \in 1 .. K + Len(t) + 1 |-> IF n <= K THEN p1[n] ELSE p2[n - K]]
<1> HIDE DEF u, K
<1>7. ASSUME NEW n \in 1 .. K + 1 PROVE p[n] = p1[n]
  <2>1. n \in 1 .. K + Len(t) + 1
    BY <1>1
  <2>2. CASE n <= K
    BY <2>1, <2>2
  <2>3. CASE ~(n <= K)
    <3>1. n = K + 1 /\ n - K = 1
      BY <1>1, <2>3
    <3>2. p[n] = p2[1]
      BY <2>1, <2>3, <3>1
    <3> QED BY <1>5, <1>6, <3>1, <3>2 DEF K
  <2> QED BY <2>2, <2>3
<1>8. \A n \in 1 .. Len(t) + 1 : p[K + n] = p2[n]
  BY <1>1
<1> HIDE DEF p
<1>9. ASSUME NEW n \in 1 .. K PROVE IF u[n].op = "submit" THEN WriteRow(id, u, p, n) ELSE WaitRow(u, p, n)
  <2>1. n \in 1 .. K + 1 /\ n + 1 \in 1 .. K + 1 /\ n \in 1 .. Len(s) /\ Len(s) = K
    BY <1>1 DEF K
  <2>2. p[n] = p1[n] /\ p[n + 1] = p1[n + 1] /\ u[n] = s[n]
    BY <1>3, <1>7, <2>1
  <2>3. n > 1 => n - 1 \in 1 .. K /\ u[n - 1] = s[n - 1]
    BY <1>1, <1>3
  <2>4. \A k \in 1 .. K : k \in DOMAIN u /\ u[k] = s[k]
    BY <1>1, <1>2, <1>3
  <2>5. CASE u[n].op = "submit"
    <3>1. WriteRow(id, s, p1, n)
      BY <1>5, <2>1, <2>2, <2>5 DEF Traces
    <3>2. n + 1 \in 1 .. K /\ (s[n + 1].op = "head" => n + 2 \in 1 .. K)
      BY <1>2, <3>1 DEF WriteRow
    <3>3. u[n + 1] = s[n + 1] /\ n + 1 \in DOMAIN u
          /\ (s[n + 1].op = "head" => u[n + 2] = s[n + 2] /\ n + 2 \in DOMAIN u)
      BY <2>4, <3>2
    <3>4. WriteRow(id, u, p, n)
      BY <2>2, <2>3, <3>1, <3>3 DEF WriteRow
    <3> QED BY <2>5, <3>4
  <2>6. CASE u[n].op # "submit"
    <3>1. WaitRow(s, p1, n)
      BY <1>5, <2>1, <2>2, <2>6 DEF Traces
    <3>2. s[n].op = "hash" => n + 1 \in 1 .. K /\ n + 2 \in 1 .. K
      BY <1>2, <3>1 DEF WaitRow
    <3>3. s[n].op = "hash" => /\ u[n + 1] = s[n + 1] /\ n + 1 \in DOMAIN u
                              /\ u[n + 2] = s[n + 2] /\ n + 2 \in DOMAIN u
      BY <2>4, <3>2
    <3>4. s[n].else # "return"
      BY <2>1 DEF Inner
    <3>5. WaitRow(u, p, n)
      BY <2>2, <2>3, <3>1, <3>3, <3>4 DEF WaitRow
    <3> QED BY <2>6, <3>5
  <2> QED BY <2>5, <2>6
<1>10. ASSUME NEW n \in 1 .. Len(t), NEW j, j = K + n
       PROVE  IF u[j].op = "submit" THEN WriteRow(id, u, p, j) ELSE WaitRow(u, p, j)
  <2>1. n \in 1 .. Len(t) + 1 /\ n + 1 \in 1 .. Len(t) + 1 /\ K + (n + 1) = j + 1 /\ K + (n + 2) = j + 2
        /\ K + (n - 1) = j - 1 /\ (n > 1 => n - 1 \in 1 .. Len(t) /\ j > 1)
    BY <1>1, <1>10
  <2>2. p[j] = p2[n] /\ p[j + 1] = p2[n + 1] /\ u[j] = t[n]
    <3>1. p[K + (n + 1)] = p2[n + 1]
      BY <1>8, <2>1
    <3> QED BY <1>4, <1>8, <1>10, <2>1, <3>1
  <2>3. n > 1 => u[j - 1] = t[n - 1] /\ j > 1
    <3>1. n > 1 => u[K + (n - 1)] = t[n - 1]
      BY <1>4, <2>1
    <3> QED BY <2>1, <3>1
  <2>4. n + 1 \in 1 .. Len(t) => u[j + 1] = t[n + 1] /\ j + 1 \in DOMAIN u
    <3>1. n + 1 \in 1 .. Len(t) => u[K + (n + 1)] = t[n + 1] /\ K + (n + 1) \in DOMAIN u
      BY <1>1, <1>2, <1>4
    <3> QED BY <2>1, <3>1
  <2>5. n + 2 \in 1 .. Len(t) => u[j + 2] = t[n + 2] /\ j + 2 \in DOMAIN u
    <3>1. n + 2 \in 1 .. Len(t) => u[K + (n + 2)] = t[n + 2] /\ K + (n + 2) \in DOMAIN u
      BY <1>1, <1>2, <1>4
    <3> QED BY <2>1, <3>1
  <2>6. CASE t[n].op = "submit"
    <3>1. WriteRow(id, t, p2, n)
      BY <1>6, <2>6 DEF Traces
    <3>2. n + 1 \in 1 .. Len(t) /\ (t[n + 1].op = "head" => n + 2 \in 1 .. Len(t))
      BY <1>2, <3>1 DEF WriteRow
    <3>3. u[j + 1] = t[n + 1] /\ j + 1 \in DOMAIN u /\ (t[n + 1].op = "head" => u[j + 2] = t[n + 2] /\ j + 2 \in DOMAIN u)
      BY <2>4, <2>5, <3>2
    <3> DEFINE jn == j + 1 jnn == j + 2 jp == j - 1 nn == n + 1 nnn == n + 2 np == n - 1
    <3>4. u[jn] = t[nn] /\ jn \in DOMAIN u /\ (t[nn].op = "head" => u[jnn] = t[nnn] /\ jnn \in DOMAIN u)
          /\ (n > 1 => u[jp] = t[np] /\ j > 1) /\ p[jn] = p2[nn]
      BY <2>2, <2>3, <3>3
    <3>5. WriteRow(id, u, p, j)
      BY <2>2, <3>1, <3>4 DEF WriteRow
    <3> QED BY <2>2, <2>6, <3>5
  <2>7. CASE t[n].op # "submit"
    <3>1. WaitRow(t, p2, n)
      BY <1>6, <2>7 DEF Traces
    <3>2. t[n].op = "hash" => n + 1 \in 1 .. Len(t) /\ n + 2 \in 1 .. Len(t)
      BY <1>2, <3>1 DEF WaitRow
    <3>3. t[n].op = "hash" => u[j + 1] = t[n + 1] /\ j + 1 \in DOMAIN u /\ u[j + 2] = t[n + 2] /\ j + 2 \in DOMAIN u
      BY <2>4, <2>5, <3>2
    <3>4. n = Len(t) => j = Len(u)
      BY <1>1, <1>10
    <3>5. WaitRow(u, p, j)
      BY <2>2, <2>3, <3>1, <3>3, <3>4 DEF WaitRow
    <3> QED BY <2>2, <2>7, <3>5
  <2> QED BY <2>6, <2>7
<1>11. ASSUME NEW n \in 1 .. Len(u) PROVE IF u[n].op = "submit" THEN WriteRow(id, u, p, n) ELSE WaitRow(u, p, n)
  <2>1. CASE n \in 1 .. K
    BY <1>9, <2>1
  <2>2. CASE n \notin 1 .. K
    <3>1. n - K \in 1 .. Len(t) /\ K + (n - K) = n
      BY <1>1, <2>2
    <3> QED BY <1>10, <3>1
  <2> QED BY <2>1, <2>2
<1>12. ASSUME NEW n \in 1 .. Len(u) + 1 PROVE Situation(p[n])
  <2>1. CASE n \in 1 .. K
    <3>1. n \in 1 .. K + 1 /\ n \in 1 .. Len(s) + 1
      BY <1>1, <2>1 DEF K
    <3>2. p[n] = p1[n]
      BY <1>7, <3>1
    <3> QED BY <1>5, <3>1, <3>2 DEF Traces
  <2>2. CASE n \notin 1 .. K
    <3>1. n - K \in 1 .. Len(t) + 1 /\ K + (n - K) = n
      BY <1>1, <2>2
    <3>2. p[n] = p2[n - K]
      BY <1>8, <3>1
    <3> QED BY <1>6, <3>1, <3>2 DEF Traces
  <2> QED BY <2>1, <2>2
<1>13. Traces(id, u, p)
  BY <1>11, <1>12 DEF Traces
<1>14. p[1] = x
  <2>1. 1 \in 1 .. K + 1
    BY <1>1
  <2> QED BY <1>5, <1>7, <2>1
<1>15. p[Len(u) + 1] = z
  <2>1. Len(t) + 1 \in 1 .. Len(t) + 1 /\ K + (Len(t) + 1) = Len(u) + 1
    BY <1>1
  <2> QED BY <1>6, <1>8, <2>1
<1>16. \A n \in 1 .. Len(u) : n \in 1 .. K \/ (n - K \in 1 .. Len(t) /\ n = K + (n - K))
  BY <1>1
<1>17. (\A n \in 1 .. Len(t) : t[n].else # "return") => \A n \in 1 .. Len(u) : u[n].else # "return"
  BY <1>3, <1>4, <1>16 DEF Inner, K
<1>18. u[1] = s[1] /\ Len(u) > 0
  BY <1>1, <1>3 DEF Inner, Leads, K
<1>19. Leads(id, u, x, z)
  BY <1>1, <1>13, <1>14, <1>15, <1>18 DEF Leads, Inner
<1> QED BY <1>17, <1>19 DEF u, Inner

\* The situation after a write.
LEMMA SituationGiven ==
  ASSUME NEW x, Situation(x), NEW obj, NEW val
  PROVE  /\ Situation(Given(x, obj, val)) /\ Given(x, obj, val).barred = x.barred
         /\ obj \in Objects => Given(x, obj, val).st[obj] = val
         /\ \A o \in Objects \ {obj} : Given(x, obj, val).st[o] = x.st[o]
         /\ obj # "A" => Given(x, obj, val).ar = x.ar
         /\ obj = "A" => Given(x, obj, val).ar = x.ar \cup {val}
<1> DEFINE s == [x.st EXCEPT ![obj] = val]
<1>1. x.st = [o \in Objects |-> x.st[o]]
  BY DEF Situation
<1>2. s = [o \in Objects |-> s[o]] /\ (obj \in Objects => s[obj] = val) /\ \A o \in Objects \ {obj} : s[o] = x.st[o]
  BY <1>1
<1> HIDE DEF s
<1> QED BY <1>2 DEF Situation, Given, s

LEMMA SituationBarred ==
  ASSUME NEW x, Situation(x)
  PROVE  Situation(Barred(x)) /\ Barred(x).st = x.st /\ Barred(x).ar = x.ar
BY DEF Situation, Barred

LEMMA SituationAfter ==
  ASSUME NEW x, Situation(x), NEW w, NEW granted
  PROVE  Situation(After(x, w, granted))
BY SituationGiven, SituationBarred DEF After

\* The shortest parts: a wait for nothing that was written.
LEMMA Idle ==
  ASSUME NEW id, NEW T, NEW s \in Seq(T), Len(s) = 1, s[1].op = "provision", s[1].else = "error",
         NEW x, Situation(x)
  PROVE  Inner(id, s, x, x)
<1> DEFINE p == [n \in 1 .. 2 |-> x]
<1>1. p[1] = x /\ p[2] = x /\ \A n \in 1 .. 2 : p[n] = x
  OBVIOUS
<1> HIDE DEF p
<1>2. WaitRow(s, p, 1)
  BY <1>1 DEF WaitRow, Ways, Awaits
<1>3. Traces(id, s, p)
  BY <1>1, <1>2 DEF Traces
<1> QED BY <1>1, <1>3 DEF Inner, Leads, Awaits

\* A write and its wait.
LEMMA Couple ==
  ASSUME NEW id, NEW T, NEW s \in Seq(T), Len(s) = 2, NEW x, Situation(x), Awaited(id, s[1], s[2], x),
         s[2].op \in {"present", "absent", "deleted"}, s[2].else \in Ways(s[2].op)
  PROVE  /\ Leads(id, s, x, After(x, s[1].w, s[2].op \in Grants))
         /\ s[2].else # "return" => Inner(id, s, x, After(x, s[1].w, s[2].op \in Grants))
<1> DEFINE y == After(x, s[1].w, s[2].op \in Grants)
           p == [n \in 1 .. 3 |-> IF n = 1 THEN x ELSE y]
<1>1. p[1] = x /\ p[2] = y /\ p[3] = y /\ \A n \in 1 .. 3 : p[n] \in {x, y}
  OBVIOUS
<1>2. Situation(y)
  BY SituationAfter
<1> HIDE DEF y, p
<1>3. DOMAIN s = 1 .. 2
  OBVIOUS
<1>4. WriteRow(id, s, p, 1)
  BY <1>1, <1>3 DEF WriteRow, y
<1>5. s[1].op = "submit" /\ s[1].else # "return"
  BY DEF Awaited
<1>6. WaitRow(s, p, 2)
  BY <1>1, <1>3, <1>5 DEF WaitRow, Awaits
<1>7. Traces(id, s, p)
  <2>1. \A n \in 1 .. Len(s) + 1 : Situation(p[n])
    BY <1>1, <1>2
  <2>2. \A n \in 1 .. Len(s) : n = 1 \/ n = 2
    OBVIOUS
  <2>3. s[2].op # "submit"
    OBVIOUS
  <2> QED BY <1>4, <1>5, <1>6, <2>1, <2>2, <2>3 DEF Traces
<1>8. Leads(id, s, x, y)
  BY <1>1, <1>5, <1>7 DEF Leads, Awaits
<1>9. \A n \in 1 .. Len(s) : n = 1 \/ n = 2
  OBVIOUS
<1> QED BY <1>5, <1>8, <1>9 DEF y, Inner

\* A hash, a write of its object and its wait.
LEMMA Reread ==
  ASSUME NEW id, NEW T, NEW s \in Seq(T), Len(s) = 3, NEW x, Situation(x), x.barred = "no",
         s[1].op = "hash", s[1].else = "error", s[1].obj \in Policies, s[2].obj = s[1].obj,
         Awaited(id, s[2], s[3], x), s[3].op \in {"changed", "same"}, s[3].else \in Ways(s[3].op)
  PROVE  Inner(id, s, x, After(x, s[2].w, s[3].op \in Grants))
<1> DEFINE y == After(x, s[2].w, s[3].op \in Grants)
           p == [n \in 1 .. 4 |-> IF n <= 2 THEN x ELSE y]
<1>1. p[1] = x /\ p[2] = x /\ p[3] = y /\ p[4] = y /\ \A n \in 1 .. 4 : p[n] \in {x, y}
  OBVIOUS
<1>2. Situation(y)
  BY SituationAfter
<1> HIDE DEF y, p
<1>3. DOMAIN s = 1 .. 3 /\ \A n \in 1 .. Len(s) : n = 1 \/ n = 2 \/ n = 3
  OBVIOUS
<1>4. WriteRow(id, s, p, 2)
  BY <1>1, <1>3 DEF WriteRow, y
<1>5. s[2].op = "submit" /\ s[2].else # "return" /\ s[3].else # "return"
  BY DEF Awaited, Ways
<1>6. WaitRow(s, p, 1)
  BY <1>1, <1>3, <1>5 DEF WaitRow, Ways, Awaits
<1>7. WaitRow(s, p, 3)
  BY <1>1, <1>3, <1>5 DEF WaitRow, Awaits
<1>8. Traces(id, s, p)
  <2>1. \A n \in 1 .. Len(s) + 1 : Situation(p[n])
    BY <1>1, <1>2
  <2>2. s[3].op # "submit" /\ s[1].op # "submit"
    OBVIOUS
  <2> QED BY <1>3, <1>4, <1>5, <1>6, <1>7, <2>1, <2>2 DEF Traces
<1>9. Leads(id, s, x, y)
  BY <1>1, <1>8 DEF Leads, Awaits
<1> QED BY <1>3, <1>5, <1>9 DEF y, Inner

\* A write that is to be denied, the wait for the head, and the body after it.
LEMMA Refused ==
  ASSUME NEW id, NEW T, NEW s \in Seq(T), Len(s) = 3, NEW x, Situation(x),
         Awaited(id, s[1], s[2], x), s[2].op = "head", s[2].else = "go", Untouched(s[1], s[3], x)
  PROVE  Leads(id, s, x, After(x, s[1].w, s[2].op \in Grants))
<1> DEFINE y == After(x, s[1].w, s[2].op \in Grants)
           p == [n \in 1 .. 4 |-> IF n = 1 THEN x ELSE y]
<1>1. p[1] = x /\ p[2] = y /\ p[3] = y /\ p[4] = y /\ \A n \in 1 .. 4 : p[n] \in {x, y}
  OBVIOUS
<1>2. Situation(y)
  BY SituationAfter
<1> HIDE DEF y, p
<1>3. DOMAIN s = 1 .. 3 /\ \A n \in 1 .. Len(s) : n = 1 \/ n = 2 \/ n = 3
  OBVIOUS
<1>4. WriteRow(id, s, p, 1)
  BY <1>1, <1>3 DEF WriteRow, y
<1>5. s[1].op = "submit" /\ s[1].else # "return" /\ s[3].op = "present" /\ s[3].else = "return"
  BY DEF Awaited, Untouched
<1>6. WaitRow(s, p, 2)
  BY <1>1, <1>3, <1>5 DEF WaitRow, Ways, Awaits
<1>7. WaitRow(s, p, 3)
  BY <1>1, <1>3, <1>5 DEF WaitRow, Ways, Awaits
<1>8. Traces(id, s, p)
  <2>1. \A n \in 1 .. Len(s) + 1 : Situation(p[n])
    BY <1>1, <1>2
  <2>2. s[3].op # "submit" /\ s[2].op # "submit"
    BY <1>5
  <2> QED BY <1>3, <1>4, <1>5, <1>6, <1>7, <2>1, <2>2 DEF Traces
<1> QED BY <1>1, <1>5, <1>8 DEF y, Leads, Awaits

(***************************************************************************)
(* The parts of the scenarios.                                             *)
(***************************************************************************)
Kids == Policies \ {"A"}

\* The provisioning of a hub.
LEMMA Provisioned == ASSUME NEW id, NEW x, Situation(x) PROVE Inner(id, provision, x, x)
<1> DEFINE l == Wait("provision", None, "error")
<1>1. l.op = "provision" /\ l.else = "error"
  BY DEF Wait
<1> HIDE DEF l
<1>2. provision = <<l>>
  BY DEF provision, l
<1>3. provision \in Seq({l}) /\ Len(provision) = 1 /\ provision[1] = l
  BY <1>2
<1> QED BY <1>1, <1>3, Idle

\* A write whose denial ends the scenario, confirmed.
LEMMA Ensured ==
  ASSUME NEW id, NEW x, Situation(x), NEW w, NEW d \in {"fail", "error"},
         w.obj \in Objects, w.by = "sys" <=> w.obj \in Policies, w.act = "post", w.val # None,
         Permits(x.st, x.ar, w), x.st[w.obj] = None, w.obj \in Policies => Sound(id, w, x) /\ d = "fail"
  PROVE  Inner(id, <<Submit(w, d)>> \o require_present(w.obj), x, Given(x, w.obj, w.val))
<1> DEFINE l == Submit(w, d)
           m == Wait("present", w.obj, "error")
           s == <<l>> \o require_present(w.obj)
<1>1. l.op = "submit" /\ l.w = w /\ l.obj = w.obj /\ l.else = d
  BY DEF Submit
<1>2. m.op = "present" /\ m.obj = w.obj /\ m.want = None /\ m.else = "error"
  BY DEF Wait
<1> HIDE DEF l, m
<1>3. require_present(w.obj) = <<m>>
  BY DEF require_present, m
<1>4. s \in Seq({l, m}) /\ Len(s) = 2 /\ s[1] = l /\ s[2] = m
  BY <1>3
<1> HIDE DEF s
<1>5. Awaited(id, l, m, x)
  BY <1>1, <1>2 DEF Awaited, Awaits, Grants, Policies
<1>6. m.else \in Ways(m.op) /\ m.op \in Grants /\ m.op \in {"present", "absent", "deleted"} /\ m.else # "return"
  BY <1>2 DEF Ways, Grants
<1>7. After(x, l.w, m.op \in Grants) = Given(x, w.obj, w.val)
  BY <1>1, <1>6 DEF After
<1>8. Inner(id, s, x, After(x, s[1].w, s[2].op \in Grants))
  BY <1>4, <1>5, <1>6, Couple
<1> QED BY <1>1, <1>2, <1>4, <1>7, <1>8 DEF s, l

\* A new version of the ancestor.
LEMMA Reformed ==
  ASSUME NEW id, NEW x, Situation(x), x.barred = "no", NEW n, NEW govern, NEW t \in {"timeout", "fail"},
         x.st["A"] # None, Ancestor(n, govern, "none") \notin {None, x.st["A"]}, Rules(id, Ancestor(n, govern, "none"))
  PROVE  Inner(id, Amended(n, govern, t), x, Given(x, "A", Ancestor(n, govern, "none")))
<1> DEFINE v == Ancestor(n, govern, "none")
           w == sys_install("A", v)
           c == Wait("hash", "A", "error")
           l == Submit(w, "fail")
           m == Wait("changed", "A", t)
           s == <<c>> \o <<l, m>>
<1> HIDE DEF v
<1>1. w.by = "sys" /\ w.act = "post" /\ w.obj = "A" /\ w.val = v
  BY DEF sys_install, Write
<1> HIDE DEF w
<1>2. l.op = "submit" /\ l.w = w /\ l.obj = "A" /\ l.else = "fail"
  BY <1>1 DEF Submit
<1>3. m.op = "changed" /\ m.obj = "A" /\ m.want = None /\ m.else = t
  BY DEF Wait
<1>4. c.op = "hash" /\ c.obj = "A" /\ c.else = "error"
  BY DEF Wait
<1> HIDE DEF c, l, m
<1>5. s \in Seq({c, l, m}) /\ Len(s) = 3 /\ s[1] = c /\ s[2] = l /\ s[3] = m
  OBVIOUS
<1> HIDE DEF s
<1>6. Permits(x.st, x.ar, w)
  BY <1>1 DEF Permits, Policies
<1>7. Sound(id, w, x)
  BY <1>1 DEF Sound, v
<1>8. Awaited(id, l, m, x)
  BY <1>1, <1>2, <1>3, <1>6, <1>7 DEF Awaited, Awaits, Grants, Objects, Policies, v
<1>9. m.else \in Ways(m.op) /\ m.op \in Grants
  BY <1>3 DEF Ways, Grants
<1>10. After(x, l.w, m.op \in Grants) = Given(x, "A", v)
  BY <1>1, <1>2, <1>9 DEF After
<1>11. Inner(id, s, x, Given(x, "A", v))
  BY <1>2, <1>3, <1>4, <1>5, <1>8, <1>9, <1>10, Reread DEF Policies
<1>12. Amended(n, govern, t) = s
  BY DEF Amended, object_hash, s, c, l, m, w, v
<1> QED BY <1>11, <1>12 DEF v

\* A child that must be accepted.
LEMMA Adopted ==
  ASSUME NEW id, NEW x, Situation(x), NEW obj \in Kids, NEW v, v # None,
         Permits(x.st, x.ar, sys_install(obj, v)), x.st[obj] = None, Sound(id, sys_install(obj, v), x)
  PROVE  Inner(id, Accepted(obj, v), x, Given(x, obj, v))
<1> DEFINE w == sys_install(obj, v)
           l == Submit(w, "go")
           m == Wait("present", obj, "accepted")
           s == <<l, m>>
<1>1. w.by = "sys" /\ w.act = "post" /\ w.obj = obj /\ w.val = v
  BY DEF sys_install, Write
<1> HIDE DEF w
<1>2. l.op = "submit" /\ l.w = w /\ l.obj = obj /\ l.else = "go"
  BY <1>1 DEF Submit
<1>3. m.op = "present" /\ m.obj = obj /\ m.want = None /\ m.else = "accepted"
  BY DEF Wait
<1> HIDE DEF l, m
<1>4. s \in Seq({l, m}) /\ Len(s) = 2 /\ s[1] = l /\ s[2] = m
  OBVIOUS
<1> HIDE DEF s
<1>5. Awaited(id, l, m, x)
  BY <1>1, <1>2, <1>3 DEF Awaited, Awaits, Grants, Objects, Kids, w
<1>6. m.else \in Ways(m.op) /\ m.op \in Grants /\ m.op \in {"present", "absent", "deleted"} /\ m.else # "return"
  BY <1>3 DEF Ways, Grants
<1>7. After(x, l.w, m.op \in Grants) = Given(x, obj, v)
  BY <1>1, <1>2, <1>6 DEF After
<1>8. Inner(id, s, x, Given(x, obj, v))
  BY <1>4, <1>5, <1>6, <1>7, Couple
<1>9. Accepted(obj, v) = s
  BY DEF Accepted, s, l, m, w
<1> QED BY <1>8, <1>9

\* A child that must be rejected.
LEMMA Refuted ==
  ASSUME NEW id, NEW x, Situation(x), NEW obj \in Kids, NEW v, v # None,
         ~Permits(x.st, x.ar, sys_install(obj, v)), x.st[obj] = None, Sound(id, sys_install(obj, v), x)
  PROVE  Inner(id, Rejected(obj, v), x, Barred(x))
<1> DEFINE w == sys_install(obj, v)
           l == Submit(w, "go")
           m == Wait("absent", obj, "flag")
           s == <<l, m>>
<1>1. w.by = "sys" /\ w.act = "post" /\ w.obj = obj /\ w.val = v
  BY DEF sys_install, Write
<1> HIDE DEF w
<1>2. l.op = "submit" /\ l.w = w /\ l.obj = obj /\ l.else = "go"
  BY <1>1 DEF Submit
<1>3. m.op = "absent" /\ m.obj = obj /\ m.want = None /\ m.else = "flag"
  BY DEF Wait
<1> HIDE DEF l, m
<1>4. s \in Seq({l, m}) /\ Len(s) = 2 /\ s[1] = l /\ s[2] = m
  OBVIOUS
<1> HIDE DEF s
<1>5. Awaited(id, l, m, x)
  BY <1>1, <1>2, <1>3 DEF Awaited, Awaits, Grants, Objects, Kids, w
<1>6. m.else \in Ways(m.op) /\ m.op \notin Grants /\ m.op \in {"present", "absent", "deleted"} /\ m.else # "return"
  BY <1>3 DEF Ways, Grants
<1>7. After(x, l.w, m.op \in Grants) = Barred(x)
  BY <1>6 DEF After
<1>8. Inner(id, s, x, Barred(x))
  BY <1>4, <1>5, <1>6, <1>7, Couple
<1>9. Rejected(obj, v) = s
  BY DEF Rejected, s, l, m, w
<1> QED BY <1>8, <1>9

\* An update of a child, to be accepted and to be denied.
LEMMA Revised ==
  ASSUME NEW id, NEW x, Situation(x), x.barred = "no", NEW obj \in Kids, NEW v, v # None,
         x.st[obj] # None, Sound(id, sys_install(obj, v), x)
  PROVE  /\ Permits(x.st, x.ar, sys_install(obj, v)) /\ v # x.st[obj]
              => Inner(id, Updated(obj, v, "changed", "accepted"), x, Given(x, obj, v))
         /\ ~Permits(x.st, x.ar, sys_install(obj, v)) => Inner(id, Updated(obj, v, "same", "flag"), x, Barred(x))
<1>0. ASSUME NEW op, NEW e,
             \/ op = "changed" /\ e = "accepted" /\ Permits(x.st, x.ar, sys_install(obj, v)) /\ v # x.st[obj]
             \/ op = "same" /\ e = "flag" /\ ~Permits(x.st, x.ar, sys_install(obj, v))
      PROVE  Inner(id, Updated(obj, v, op, e), x, After(x, sys_install(obj, v), op \in Grants))
  <2> DEFINE w == sys_install(obj, v)
             c == Wait("hash", obj, "error")
             l == Submit(w, "go")
             m == Wait(op, obj, e)
             s == <<c>> \o <<l, m>>
  <2>1. w.by = "sys" /\ w.act = "post" /\ w.obj = obj /\ w.val = v
    BY DEF sys_install, Write
  <2> HIDE DEF w
  <2>2. l.op = "submit" /\ l.w = w /\ l.obj = obj /\ l.else = "go"
    BY <2>1 DEF Submit
  <2>3. m.op = op /\ m.obj = obj /\ m.want = None /\ m.else = e
    BY DEF Wait
  <2>4. c.op = "hash" /\ c.obj = obj /\ c.else = "error"
    BY DEF Wait
  <2> HIDE DEF c, l, m
  <2>5. s \in Seq({c, l, m}) /\ Len(s) = 3 /\ s[1] = c /\ s[2] = l /\ s[3] = m
    OBVIOUS
  <2> HIDE DEF s
  <2>6. Awaited(id, l, m, x)
    BY <1>0, <2>1, <2>2, <2>3 DEF Awaited, Awaits, Grants, Objects, Kids, w
  <2>7. m.else \in Ways(m.op)
    BY <1>0, <2>3 DEF Ways
  <2>8. Inner(id, s, x, After(x, s[2].w, s[3].op \in Grants))
    BY <1>0, <2>2, <2>3, <2>4, <2>5, <2>6, <2>7, Reread DEF Kids
  <2>9. Updated(obj, v, op, e) = s
    BY DEF Updated, object_hash, s, c, l, m, w
  <2> QED BY <2>2, <2>3, <2>5, <2>8, <2>9 DEF w
<1>1. sys_install(obj, v).obj = obj /\ sys_install(obj, v).val = v
  BY DEF sys_install, Write
<1>2. "changed" \in Grants /\ "same" \notin Grants
  BY DEF Grants
<1>3. After(x, sys_install(obj, v), "changed" \in Grants) = Given(x, obj, v)
  BY <1>1, <1>2 DEF After
<1>4. After(x, sys_install(obj, v), "same" \in Grants) = Barred(x)
  BY <1>2 DEF After
<1> QED BY <1>0, <1>3, <1>4

(***************************************************************************)
(* The scenarios.                                                          *)
(***************************************************************************)
Start == [st |-> [o \in Objects |-> None], ar |-> {}, barred |-> "no"]

LEMMA StartFacts ==
  Situation(Start) /\ Start.barred = "no" /\ Start.ar = {} /\ \A o \in Objects : Start.st[o] = None
BY DEF Start, Situation

\* The membership of a user.
LEMMA Enrolled ==
  ASSUME NEW id, NEW x, Situation(x), NEW u \in {"a", "b"}, x.st[Membership[u]] = None
  PROVE  Inner(id, join_and_confirm(u), x, Given(x, Membership[u], "yes"))
<1> DEFINE w == Write(u, "post", Membership[u], "yes")
<1>1. w.by = u /\ w.act = "post" /\ w.obj = Membership[u] /\ w.val = "yes"
  BY DEF Write
<1>2. Membership[u] \in {"membership-a", "membership-b"}
  BY DEF Membership
<1>3. join_and_confirm(u) = <<Submit(w, "error")>> \o require_present(w.obj)
  BY <1>1 DEF join_and_confirm
<1> HIDE DEF w
<1>4. Membership[u] \in Objects /\ Membership[u] \notin Policies
  BY <1>2 DEF Objects, Policies
<1>5. Permits(x.st, x.ar, w)
  BY <1>1, <1>2 DEF Permits, Policies
<1>6. Inner(id, <<Submit(w, "error")>> \o require_present(w.obj), x, Given(x, w.obj, w.val))
  BY <1>1, <1>4, <1>5, Ensured, NoneAssumption
<1> QED BY <1>1, <1>3, <1>6

\* A prerequisite.
LEMMA Settled ==
  ASSUME NEW id, NEW x, Situation(x), NEW w,
         w.obj \in Objects, w.by = "sys" <=> w.obj \in Policies, w.act = "post", w.val # None,
         Permits(x.st, x.ar, w), x.st[w.obj] = None, w.obj \in Policies => Sound(id, w, x)
  PROVE  Inner(id, Confirmed(w), x, Given(x, w.obj, w.val))
BY Ensured DEF Confirmed

\* The post of a member.
LEMMA Posted ==
  ASSUME NEW id, NEW x, Situation(x), x.st["post"] = None, x.st["membership-a"] # None
  PROVE  Inner(id, Confirmed(write_post("a", 1)), x, Given(x, "post", [owner |-> "a", body |-> 1]))
<1> DEFINE w == write_post("a", 1)
<1>1. w.by = "a" /\ w.act = "post" /\ w.obj = "post" /\ w.val = [owner |-> "a", body |-> 1]
  BY DEF Write, write_post
<1>2. w.val # None
  BY <1>1, NoneAssumption
<1> HIDE DEF w
<1>3. w.obj \in Objects /\ w.obj \notin Policies
  BY <1>1 DEF Objects, Policies
<1>4. Permits(x.st, x.ar, w)
  BY <1>1 DEF Permits, Policies, Membership
<1>5. Inner(id, Confirmed(w), x, Given(x, w.obj, w.val))
  BY <1>1, <1>2, <1>3, <1>4, Settled
<1> QED BY <1>1, <1>5 DEF w

\* The last steps: a write that is to be denied, and one that is not, with the wait
\* whose result is returned.
LEMMA Closing ==
  ASSUME NEW id, NEW x, Situation(x), NEW w, NEW op, NEW d,
         w.obj \in Objects \ Policies, w.by # "sys",
         \/ /\ op = "absent" /\ d = "go" /\ w.act = "post" /\ w.val # None /\ x.st[w.obj] = None
            /\ ~Permits(x.st, x.ar, w)
         \/ /\ op = "deleted" /\ d = "go" /\ w.act = "delete" /\ w.val = None /\ x.st[w.obj] # None
            /\ Permits(x.st, x.ar, w)
  PROVE  \E y : Leads(id, <<Submit(w, d), Wait(op, w.obj, "return")>>, x, y)
<1> DEFINE l == Submit(w, d)
           m == Wait(op, w.obj, "return")
           s == <<l, m>>
<1>1. l.op = "submit" /\ l.w = w /\ l.obj = w.obj /\ l.else = "go"
  BY DEF Submit
<1>2. m.op = op /\ m.obj = w.obj /\ m.want = None /\ m.else = "return"
  BY DEF Wait
<1> HIDE DEF l, m
<1>3. s \in Seq({l, m}) /\ Len(s) = 2 /\ s[1] = l /\ s[2] = m
  OBVIOUS
<1> HIDE DEF s
<1>4. Awaited(id, l, m, x)
  BY <1>1, <1>2 DEF Awaited, Awaits, Grants, Policies
<1>5. m.else \in Ways(m.op) /\ m.op \in {"present", "absent", "deleted"}
  BY <1>2 DEF Ways
<1>6. Leads(id, s, x, After(x, s[1].w, s[2].op \in Grants))
  BY <1>3, <1>4, <1>5, Couple
<1> QED BY <1>6 DEF s, l, m

\* A change of the post by someone else, which must leave it as it is.
LEMMA Intact ==
  ASSUME NEW id, NEW x, Situation(x), NEW w, w.by # "sys", w.obj = "post", ~Permits(x.st, x.ar, w),
         x.st["post"] = [owner |-> "a", body |-> 1],
         \/ w.act = "delete" /\ w.val = None
         \/ w.act = "post" /\ w.val = [owner |-> "b", body |-> 2]
  PROVE  \E y : Leads(id, <<Submit(w, "go"), Wait("head", None, "go"), Body("post", 1)>>, x, y)
<1> DEFINE l == Submit(w, "go")
           m == Wait("head", None, "go")
           b == Body("post", 1)
           s == <<l, m, b>>
<1>1. l.op = "submit" /\ l.w = w /\ l.obj = "post" /\ l.else = "go"
  BY DEF Submit
<1>2. m.op = "head" /\ m.want = None /\ m.else = "go"
  BY DEF Wait
<1>3. b.op = "present" /\ b.obj = "post" /\ b.want = 1 /\ b.else = "return"
  BY DEF Body
<1> HIDE DEF l, m, b
<1>4. s \in Seq({l, m, b}) /\ Len(s) = 3 /\ s[1] = l /\ s[2] = m /\ s[3] = b
  OBVIOUS
<1> HIDE DEF s
<1>5. x.st["post"] # None /\ x.st["post"].body = 1 /\ (w.act = "post" => w.val # None /\ w.val.body = 2)
  BY NoneAssumption
<1>6. Awaited(id, l, m, x)
  BY <1>1, <1>2, <1>5 DEF Awaited, Awaits, Grants, Policies, Objects
<1>7. Untouched(l, b, x)
  BY <1>1, <1>3, <1>5, NoneAssumption DEF Untouched
<1>8. Leads(id, s, x, After(x, s[1].w, s[2].op \in Grants))
  BY <1>2, <1>4, <1>6, <1>7, Refused
<1> QED BY <1>8 DEF s, l, m, b

\* The installs of the scenarios.
LEMMA Versions ==
  ASSUME NEW n \in 1 .. 3, NEW h \in {"sys", "nobody"}, NEW r \in {"none", "template", "nopin"}
  PROVE  LET v == Ancestor(n, h, r) IN v.n = n /\ v.govern = h /\ v.rule = r /\ v # None
<1> DEFINE v == Ancestor(n, h, r)
<1>1. v = [n |-> n, pin |-> 0, govern |-> h, rule |-> r, shape |-> "fits"]
  BY DEF Ancestor, Policy
<1> QED BY <1>1, NoneAssumption

LEMMA Children ==
  ASSUME NEW n \in 1 .. 3, NEW pin \in 0 .. 3, NEW s \in {"fits", "exceeds", "lacks"}
  PROVE  LET v == Child(n, pin, s) IN v.n = n /\ v.pin = pin /\ v.shape = s /\ v # None
<1> DEFINE v == Child(n, pin, s)
<1>1. v = [n |-> n, pin |-> pin, govern |-> "nobody", rule |-> "none", shape |-> s]
  BY DEF Child, Policy
<1> QED BY <1>1, NoneAssumption

\* What the rules make of the install of a child.
LEMMA Judgement ==
  ASSUME NEW st, NEW ar, NEW obj \in Kids, NEW v
  PROVE  Permits(st, ar, sys_install(obj, v)) <=>
           /\ SysGoverns(st, ar, obj)
           /\ st["A"] # None =>
                /\ v.pin = 0 \/ v.pin = st["A"].n \/ (st[obj] # None /\ v.pin = st[obj].pin)
                /\ st["A"].rule = "nopin" => v.pin = 0
                /\ st["A"].rule = "template" => v.shape = "fits"
<1> DEFINE w == sys_install(obj, v)
<1>1. w.act = "post" /\ w.obj = obj /\ w.val = v
  BY DEF sys_install, Write
<1> HIDE DEF w
<1>2. Permits(st, ar, w) <=> ChildAllowed(st, ar, w)
  BY <1>1 DEF Permits, Kids, Policies
<1>3. ChildAllowed(st, ar, w) <=>
           /\ SysGoverns(st, ar, obj)
           /\ st["A"] # None =>
                /\ v.pin = 0 \/ v.pin = st["A"].n \/ (st[obj] # None /\ v.pin = st[obj].pin)
                /\ st["A"].rule = "nopin" => v.pin = 0
                /\ st["A"].rule = "template" => v.shape = "fits"
  BY <1>1 DEF ChildAllowed
<1> QED BY <1>2, <1>3 DEF w

\* The first install of the ancestor.
LEMMA Founded ==
  ASSUME NEW id, NEW r \in {"none", "template", "nopin"}
  PROVE  LET v == Ancestor(1, "sys", r)
             x == Given(Start, "A", v)
         IN /\ Inner(id, Confirmed(sys_install("A", v)), Start, x)
            /\ Situation(x) /\ x.barred = "no" /\ x.ar = {v} /\ x.st["A"] = v /\ \A o \in Kids : x.st[o] = None
<1> DEFINE v == Ancestor(1, "sys", r)
           w == sys_install("A", v)
           x == Given(Start, "A", v)
<1>1. v.n = 1 /\ v.govern = "sys" /\ v # None
  BY Versions
<1> HIDE DEF v
<1>2. w.by = "sys" /\ w.act = "post" /\ w.obj = "A" /\ w.val = v
  BY DEF sys_install, Write
<1> HIDE DEF w
<1>3. "A" \in Objects /\ "A" \in Policies /\ Kids \subseteq Objects \ {"A"}
  BY DEF Objects, Policies, Kids
<1>4. Permits(Start.st, Start.ar, w)
  BY <1>2 DEF Permits, Policies
<1>5. Sound(id, w, Start)
  BY <1>1, <1>2 DEF Sound, Rules
<1>6. Inner(id, Confirmed(w), Start, Given(Start, w.obj, w.val))
  BY <1>1, <1>2, <1>3, <1>4, <1>5, StartFacts, Settled
<1>7. Situation(x) /\ x.barred = "no" /\ x.ar = {v} /\ x.st["A"] = v /\ \A o \in Kids : x.st[o] = None
  <2>1. /\ Situation(x) /\ x.barred = Start.barred
        /\ "A" \in Objects => x.st["A"] = v
        /\ \A o \in Objects \ {"A"} : x.st[o] = Start.st[o]
        /\ x.ar = Start.ar \cup {v}
    BY StartFacts, SituationGiven
  <2> HIDE DEF x
  <2> QED BY <1>3, <2>1, StartFacts
<1> QED BY <1>2, <1>6, <1>7 DEF v, w

\* A child that is confirmed.
LEMMA KidPlaced ==
  ASSUME NEW id, NEW x, Situation(x), NEW obj \in Kids, NEW v, v # None,
         Permits(x.st, x.ar, sys_install(obj, v)), x.st[obj] = None, Sound(id, sys_install(obj, v), x)
  PROVE  Inner(id, Confirmed(sys_install(obj, v)), x, Given(x, obj, v))
<1> DEFINE w == sys_install(obj, v)
<1>1. w.by = "sys" /\ w.act = "post" /\ w.obj = obj /\ w.val = v
  BY DEF sys_install, Write
<1> HIDE DEF w
<1>2. obj \in Objects /\ obj \in Policies
  BY DEF Objects, Kids
<1>3. Inner(id, Confirmed(w), x, Given(x, w.obj, w.val))
  BY <1>1, <1>2, Settled DEF w
<1> QED BY <1>1, <1>3 DEF w

\* A child that is well pinned, and what a Given of another object leaves of it.
LEMMA Pinned ==
  ASSUME NEW id, NEW x, x.st["A"] # None, NEW obj \in Kids, NEW v,
         v.pin # 0 => (id # "S9" \/ v.pin # 2) /\ \E q \in x.ar : q.n = v.pin, (id = "S9" /\ obj # "D") => v.pin # 0
  PROVE  Sound(id, sys_install(obj, v), x)
<1> DEFINE w == sys_install(obj, v)
<1>1. w.act = "post" /\ w.obj = obj /\ w.val = v
  BY DEF sys_install, Write
<1> HIDE DEF w
<1> QED BY <1>1 DEF Sound, Kids, w

LEMMA Linked ==
  ASSUME NEW id, NEW s, NEW t, NEW x, NEW y, NEW z, Inner(id, s, x, y), Inner(id, t, y, z)
  PROVE  Inner(id, s \o t, x, z)
<1>1. Leads(id, t, y, z)
  BY DEF Inner
<1> QED BY <1>1, Chained

LEMMA Ended ==
  ASSUME NEW id, NEW s, NEW t, NEW x, NEW y, Inner(id, s, x, y), \E z : Leads(id, t, y, z)
  PROVE  \E z : Leads(id, s \o t, x, z)
BY Chained

\* A hub with one member, and with two.
Hub(x, members) ==
  /\ Situation(x)
  /\ \A o \in Objects : x.st[o] = IF o \in members THEN "yes" ELSE None

LEMMA OneMember ==
  ASSUME NEW id
  PROVE  \E x : Inner(id, provision \o join_and_confirm("a"), Start, x) /\ Hub(x, {"membership-a"})
<1> DEFINE x == Given(Start, Membership["a"], "yes")
<1>1. Inner(id, provision, Start, Start)
  BY StartFacts, Provisioned
<1>2. Membership["a"] = "membership-a" /\ "membership-a" \in Objects
  BY DEF Membership, Objects
<1>3. Inner(id, join_and_confirm("a"), Start, x)
  BY <1>2, StartFacts, Enrolled
<1>4. /\ Situation(x) /\ x.barred = Start.barred
      /\ "membership-a" \in Objects => x.st["membership-a"] = "yes"
      /\ \A o \in Objects \ {"membership-a"} : x.st[o] = Start.st[o]
  BY <1>2, StartFacts, SituationGiven
<1> HIDE DEF x
<1>5. Hub(x, {"membership-a"})
  BY <1>2, <1>4, StartFacts DEF Hub
<1> QED BY <1>1, <1>3, <1>5, Linked

LEMMA TwoMembers ==
  ASSUME NEW id
  PROVE  \E x : /\ Inner(id, provision \o join_and_confirm("a") \o join_and_confirm("b"), Start, x)
                /\ Hub(x, {"membership-a", "membership-b"})
<1>1. PICK y : Inner(id, provision \o join_and_confirm("a"), Start, y) /\ Hub(y, {"membership-a"})
  BY OneMember
<1> DEFINE x == Given(y, Membership["b"], "yes")
<1>2. Membership["b"] = "membership-b" /\ "membership-b" \in Objects
  BY DEF Membership, Objects
<1>3. Situation(y) /\ y.st["membership-b"] = None
  BY <1>1, <1>2 DEF Hub
<1>4. Inner(id, join_and_confirm("b"), y, x)
  BY <1>2, <1>3, Enrolled
<1>5. /\ Situation(x) /\ x.barred = y.barred
      /\ "membership-b" \in Objects => x.st["membership-b"] = "yes"
      /\ \A o \in Objects \ {"membership-b"} : x.st[o] = y.st[o]
  BY <1>2, <1>3, SituationGiven
<1> HIDE DEF x
<1>6. Hub(x, {"membership-a", "membership-b"})
  BY <1>1, <1>2, <1>5 DEF Hub
<1> QED BY <1>1, <1>4, <1>6, Linked

Elsewhere(y, x, obj) == \A o \in Objects \ {obj} : y.st[o] = x.st[o]

\* A member's post on such a hub.
LEMMA PostOn ==
  ASSUME NEW id, NEW x, NEW M, Hub(x, M), "membership-a" \in M, "post" \notin M
  PROVE  \E y : /\ Inner(id, Confirmed(write_post("a", 1)), x, y) /\ Situation(y)
                /\ y.st["post"] = [owner |-> "a", body |-> 1]
                /\ Elsewhere(y, x, "post")
<1> DEFINE y == Given(x, "post", [owner |-> "a", body |-> 1])
<1>1. "post" \in Objects /\ "membership-a" \in Objects
  BY DEF Objects, Membership
<1>2. Situation(x) /\ x.st["post"] = None /\ x.st["membership-a"] # None
  BY <1>1, NoneAssumption DEF Hub
<1>3. Inner(id, Confirmed(write_post("a", 1)), x, y)
  BY <1>2, Posted
<1>4. /\ Situation(y) /\ y.barred = x.barred
      /\ "post" \in Objects => y.st["post"] = [owner |-> "a", body |-> 1]
      /\ \A o \in Objects \ {"post"} : y.st[o] = x.st[o]
  BY <1>2, SituationGiven
<1> HIDE DEF y
<1> QED BY <1>1, <1>3, <1>4 DEF Elsewhere

LEMMA RunsS1 == \E y : Leads("S1", s1_capture_fix, Start, y)
<1> DEFINE w == assemble_policy("a")
<1>1. PICK x : Inner("S1", provision \o join_and_confirm("a"), Start, x) /\ Hub(x, {"membership-a"})
  BY OneMember
<1>2. w.by = "a" /\ w.act = "post" /\ w.obj = "capture" /\ w.val = "yes"
  BY DEF assemble_policy, Write
<1> HIDE DEF w
<1>3. "capture" \in Objects \ Policies
  BY DEF Objects, Policies
<1>4. Situation(x) /\ x.st["capture"] = None
  BY <1>1, <1>3 DEF Hub
<1>5. ~Permits(x.st, x.ar, w)
  BY <1>2 DEF Permits, Policies
<1>6. \E z : Leads("S1", <<Submit(w, "go"), Wait("absent", w.obj, "return")>>, x, z)
  BY <1>2, <1>3, <1>4, <1>5, NoneAssumption, Closing
<1>7. \E z : Leads("S1", (provision \o join_and_confirm("a")) \o <<Submit(w, "go"), Wait("absent", w.obj, "return")>>, Start, z)
  BY <1>1, <1>6, Ended
<1> QED BY <1>2, <1>7 DEF s1_capture_fix, w

LEMMA RunsS2 == \E y : Leads("S2", s2_non_member_denied, Start, y)
<1> DEFINE w == write_post("a", 1)
<1>1. Inner("S2", provision, Start, Start)
  BY StartFacts, Provisioned
<1>2. w.by = "a" /\ w.act = "post" /\ w.obj = "post" /\ w.val = [owner |-> "a", body |-> 1]
  BY DEF write_post, Write
<1>3. w.val # None
  BY <1>2, NoneAssumption
<1> HIDE DEF w
<1>4. "post" \in Objects \ Policies /\ "membership-a" \in Objects
  BY DEF Objects, Policies, Membership
<1>5. Start.st["post"] = None /\ Start.st["membership-a"] = None
  BY <1>4, StartFacts
<1>6. ~Permits(Start.st, Start.ar, w)
  BY <1>2, <1>5 DEF Permits, Policies, Membership
<1>7. \E z : Leads("S2", <<Submit(w, "go"), Wait("absent", w.obj, "return")>>, Start, z)
  BY <1>2, <1>3, <1>4, <1>5, <1>6, StartFacts, Closing
<1>8. \E z : Leads("S2", provision \o <<Submit(w, "go"), Wait("absent", w.obj, "return")>>, Start, z)
  BY <1>1, <1>7, Ended
<1> QED BY <1>2, <1>8 DEF s2_non_member_denied, w

LEMMA RunsS3 == \E y : Leads("S3", s3_member_can_post, Start, y)
<1> DEFINE w == write_post("a", 1)
           l == Submit(w, "fail")
           m == Body("post", 1)
           s == <<l, m>>
<1>1. PICK x : Inner("S3", provision \o join_and_confirm("a"), Start, x) /\ Hub(x, {"membership-a"})
  BY OneMember
<1>2. w.by = "a" /\ w.act = "post" /\ w.obj = "post" /\ w.val = [owner |-> "a", body |-> 1]
  BY DEF write_post, Write
<1>3. w.val # None /\ w.val.body = 1
  BY <1>2, NoneAssumption
<1> HIDE DEF w
<1>4. "post" \in Objects \ Policies /\ "membership-a" \in Objects
  BY DEF Objects, Policies, Membership
<1>5. Situation(x) /\ x.st["post"] = None /\ x.st["membership-a"] # None
  BY <1>1, <1>4, NoneAssumption DEF Hub
<1>6. Permits(x.st, x.ar, w)
  BY <1>2, <1>5 DEF Permits, Policies, Membership
<1>7. l.op = "submit" /\ l.w = w /\ l.obj = "post" /\ l.else = "fail"
  BY <1>2 DEF Submit
<1>8. m.op = "present" /\ m.obj = "post" /\ m.want = 1 /\ m.else = "return"
  BY DEF Body
<1> HIDE DEF l, m
<1>9. s \in Seq({l, m}) /\ Len(s) = 2 /\ s[1] = l /\ s[2] = m
  OBVIOUS
<1> HIDE DEF s
<1>10. Awaited("S3", l, m, x)
  BY <1>2, <1>3, <1>4, <1>5, <1>6, <1>7, <1>8 DEF Awaited, Awaits, Grants, Policies
<1>11. m.else \in Ways(m.op) /\ m.op \in {"present", "absent", "deleted"}
  BY <1>8 DEF Ways
<1>12. \E z : Leads("S3", s, x, z)
  BY <1>5, <1>9, <1>10, <1>11, Couple
<1>13. \E z : Leads("S3", (provision \o join_and_confirm("a")) \o s, Start, z)
  BY <1>1, <1>12, Ended
<1> QED BY <1>13 DEF s3_member_can_post, s, l, m, w

LEMMA RunsS4 == \E y : Leads("S4", s4_owner_only_update, Start, y)
<1> DEFINE w == write_post("b", 2)
           M == {"membership-a", "membership-b"}
<1>1. PICK x : /\ Inner("S4", provision \o join_and_confirm("a") \o join_and_confirm("b"), Start, x)
               /\ Hub(x, M)
  BY TwoMembers
<1>0. "membership-a" \in M /\ "post" \notin M
  OBVIOUS
<1> HIDE DEF M
<1>2. PICK y : /\ Inner("S4", Confirmed(write_post("a", 1)), x, y) /\ Situation(y)
               /\ y.st["post"] = [owner |-> "a", body |-> 1]
  BY <1>0, <1>1, PostOn
<1>3. w.by = "b" /\ w.act = "post" /\ w.obj = "post" /\ w.val = [owner |-> "b", body |-> 2]
  BY DEF write_post, Write
<1> HIDE DEF w
<1>4. y.st["post"] # None /\ y.st["post"].owner = "a"
  BY <1>2, NoneAssumption
<1>5. ~Permits(y.st, y.ar, w)
  BY <1>3, <1>4 DEF Permits, Policies
<1>6. \E z : Leads("S4", <<Submit(w, "go"), Wait("head", None, "go"), Body("post", 1)>>, y, z)
  BY <1>2, <1>3, <1>5, Intact
<1>7. Inner("S4", provision \o join_and_confirm("a") \o join_and_confirm("b") \o Confirmed(write_post("a", 1)), Start, y)
  BY <1>1, <1>2, Linked
<1>8. \E z : Leads("S4", (provision \o join_and_confirm("a") \o join_and_confirm("b") \o Confirmed(write_post("a", 1)))
                         \o <<Submit(w, "go"), Wait("head", None, "go"), Body("post", 1)>>, Start, z)
  BY <1>6, <1>7, Ended
<1> QED BY <1>8 DEF s4_owner_only_update, w

LEMMA RunsS7 == \E y : Leads("S7", s7_non_moderator_delete, Start, y)
<1> DEFINE w == write_delete("b")
           M == {"membership-a", "membership-b"}
<1>1. PICK x : /\ Inner("S7", provision \o join_and_confirm("a") \o join_and_confirm("b"), Start, x)
               /\ Hub(x, M)
  BY TwoMembers
<1>0. "membership-a" \in M /\ "post" \notin M
  OBVIOUS
<1> HIDE DEF M
<1>2. PICK y : /\ Inner("S7", Confirmed(write_post("a", 1)), x, y) /\ Situation(y)
               /\ y.st["post"] = [owner |-> "a", body |-> 1]
               /\ Elsewhere(y, x, "post")
  BY <1>0, <1>1, PostOn
<1>3. w.by = "b" /\ w.act = "delete" /\ w.obj = "post" /\ w.val = None
  BY DEF write_delete, Write
<1> HIDE DEF w
<1>4. y.st["post"] # None /\ y.st["post"].owner = "a"
  BY <1>2, NoneAssumption
<1>5. Moderator["b"] = "moderator-b" /\ "moderator-b" \in Objects \ {"post"}
  BY DEF Objects, Moderator
<1>6. y.st["moderator-b"] = None
  BY <1>1, <1>2, <1>5 DEF Hub, M, Elsewhere
<1>7. ~Permits(y.st, y.ar, w)
  BY <1>3, <1>4, <1>5, <1>6 DEF Permits, Policies
<1>8. \E z : Leads("S7", <<Submit(w, "go"), Wait("head", None, "go"), Body("post", 1)>>, y, z)
  BY <1>2, <1>3, <1>7, Intact
<1>9. Inner("S7", provision \o join_and_confirm("a") \o join_and_confirm("b") \o Confirmed(write_post("a", 1)), Start, y)
  BY <1>1, <1>2, Linked
<1>10. \E z : Leads("S7", (provision \o join_and_confirm("a") \o join_and_confirm("b") \o Confirmed(write_post("a", 1)))
                         \o <<Submit(w, "go"), Wait("head", None, "go"), Body("post", 1)>>, Start, z)
  BY <1>8, <1>9, Ended
<1> QED BY <1>10 DEF s7_non_moderator_delete, w

LEMMA RunsS5 == \E y : Leads("S5", s5_author_delete, Start, y)
<1> DEFINE w == write_delete("a")
<1>1. PICK x : Inner("S5", provision \o join_and_confirm("a"), Start, x) /\ Hub(x, {"membership-a"})
  BY OneMember
<1>2. PICK y : /\ Inner("S5", Confirmed(write_post("a", 1)), x, y) /\ Situation(y)
               /\ y.st["post"] = [owner |-> "a", body |-> 1]
  BY <1>1, PostOn
<1>3. w.by = "a" /\ w.act = "delete" /\ w.obj = "post" /\ w.val = None
  BY DEF write_delete, Write
<1> HIDE DEF w
<1>4. y.st["post"] # None /\ y.st["post"].owner = "a"
  BY <1>2, NoneAssumption
<1>5. Permits(y.st, y.ar, w)
  BY <1>3, <1>4 DEF Permits, Policies
<1>6. w.obj \in Objects \ Policies
  BY <1>3 DEF Objects, Policies
<1>7. \E z : Leads("S5", <<Submit(w, "go"), Wait("deleted", w.obj, "return")>>, y, z)
  BY <1>2, <1>3, <1>4, <1>5, <1>6, Closing
<1>8. Inner("S5", provision \o join_and_confirm("a") \o Confirmed(write_post("a", 1)), Start, y)
  BY <1>1, <1>2, Linked
<1>9. \E z : Leads("S5", (provision \o join_and_confirm("a") \o Confirmed(write_post("a", 1)))
                         \o <<Submit(w, "go"), Wait("deleted", w.obj, "return")>>, Start, z)
  BY <1>7, <1>8, Ended
<1> QED BY <1>3, <1>9 DEF s5_author_delete, w

LEMMA RunsS6 == \E y : Leads("S6", s6_moderator_delete, Start, y)
<1> DEFINE w == write_delete("b")
           m == write_attestation("b")
           M == {"membership-a", "membership-b"}
<1>1. PICK x : Inner("S6", provision \o join_and_confirm("a") \o join_and_confirm("b"), Start, x) /\ Hub(x, M)
  BY TwoMembers
<1>2. m.by = "issuer" /\ m.act = "post" /\ m.obj = "moderator-b" /\ m.val = "yes"
  BY DEF write_attestation, Write, Moderator
<1>3. w.by = "b" /\ w.act = "delete" /\ w.obj = "post" /\ w.val = None
  BY DEF write_delete, Write
<1> HIDE DEF w, m
<1>4. "moderator-b" \in Objects \ Policies /\ "post" \in Objects \ Policies /\ "moderator-b" \notin M
  BY DEF Objects, Policies, Moderator
<1> DEFINE y == Given(x, "moderator-b", "yes")
<1>5. Situation(x) /\ x.st["moderator-b"] = None
  BY <1>1, <1>4 DEF Hub
<1>6. Inner("S6", Confirmed(m), x, Given(x, m.obj, m.val))
  <2>1. Permits(x.st, x.ar, m)
    BY <1>2 DEF Permits, Policies
  <2> QED BY <1>2, <1>4, <1>5, <2>1, NoneAssumption, Settled
<1>7. /\ Situation(y) /\ y.barred = x.barred
      /\ "moderator-b" \in Objects => y.st["moderator-b"] = "yes"
      /\ \A o \in Objects \ {"moderator-b"} : y.st[o] = x.st[o]
  BY <1>5, SituationGiven
<1>8. Inner("S6", Confirmed(m), x, y)
  BY <1>2, <1>6
<1> HIDE DEF y
<1>9. Hub(y, M \cup {"moderator-b"})
  BY <1>1, <1>4, <1>7 DEF Hub
<1> DEFINE N == M \cup {"moderator-b"}
<1>0. "membership-a" \in N /\ "post" \notin N
  OBVIOUS
<1> HIDE DEF N
<1>10. PICK z : /\ Inner("S6", Confirmed(write_post("a", 1)), y, z) /\ Situation(z)
                /\ z.st["post"] = [owner |-> "a", body |-> 1]
                /\ Elsewhere(z, y, "post")
  BY <1>0, <1>9, PostOn DEF N
<1>11. z.st["post"] # None /\ z.st["moderator-b"] # None
  BY <1>4, <1>7, <1>10, NoneAssumption DEF Elsewhere
<1>12. Permits(z.st, z.ar, w)
  BY <1>3, <1>11 DEF Permits, Policies, Moderator
<1>13. \E v : Leads("S6", <<Submit(w, "go"), Wait("deleted", w.obj, "return")>>, z, v)
  BY <1>3, <1>4, <1>10, <1>11, <1>12, Closing
<1>14. Inner("S6", provision, x, x)
  BY <1>5, Provisioned
<1>15. Inner("S6", provision \o join_and_confirm("a") \o join_and_confirm("b") \o provision, Start, x)
  BY <1>1, <1>14, Linked
<1>16. Inner("S6", provision \o join_and_confirm("a") \o join_and_confirm("b") \o provision \o Confirmed(m), Start, y)
  BY <1>8, <1>15, Linked
<1>17. Inner("S6", provision \o join_and_confirm("a") \o join_and_confirm("b") \o provision \o Confirmed(m)
                   \o Confirmed(write_post("a", 1)), Start, z)
  BY <1>10, <1>16, Linked
<1>18. \E v : Leads("S6", (provision \o join_and_confirm("a") \o join_and_confirm("b") \o provision \o Confirmed(m)
                           \o Confirmed(write_post("a", 1)))
                          \o <<Submit(w, "go"), Wait("deleted", w.obj, "return")>>, Start, v)
  BY <1>13, <1>17, Ended
<1> QED BY <1>3, <1>18 DEF s6_moderator_delete, w, m

LEMMA GivenKid ==
  ASSUME NEW x, Situation(x), NEW obj \in Kids, NEW val
  PROVE  LET y == Given(x, obj, val)
         IN /\ Situation(y) /\ y.barred = x.barred /\ y.ar = x.ar
            /\ y.st[obj] = val
            /\ \A o \in Policies \ {obj} : y.st[o] = x.st[o]
<1> DEFINE y == Given(x, obj, val)
<1>1. obj \in Objects /\ obj # "A" /\ Policies \subseteq Objects
  BY DEF Objects, Kids
<1>2. /\ Situation(y) /\ y.barred = x.barred
      /\ obj \in Objects => y.st[obj] = val
      /\ \A o \in Objects \ {obj} : y.st[o] = x.st[o]
      /\ obj # "A" => y.ar = x.ar
  BY SituationGiven
<1> HIDE DEF y
<1> QED BY <1>1, <1>2 DEF y

LEMMA GivenAncestor ==
  ASSUME NEW x, Situation(x), NEW val
  PROVE  LET y == Given(x, "A", val)
         IN /\ Situation(y) /\ y.barred = x.barred /\ y.ar = x.ar \cup {val}
            /\ y.st["A"] = val
            /\ \A o \in Kids : y.st[o] = x.st[o]
<1> DEFINE y == Given(x, "A", val)
<1>1. "A" \in Objects /\ Kids \subseteq Objects \ {"A"}
  BY DEF Objects, Kids, Policies
<1>2. /\ Situation(y) /\ y.barred = x.barred
      /\ "A" \in Objects => y.st["A"] = val
      /\ \A o \in Objects \ {"A"} : y.st[o] = x.st[o]
      /\ y.ar = x.ar \cup {val}
  BY SituationGiven
<1> HIDE DEF y
<1> QED BY <1>1, <1>2 DEF y

LEMMA KidNames == "C" \in Kids /\ "D" \in Kids /\ "E" \in Kids /\ "A" \notin Kids /\ Policies = {"A", "C", "D", "E"}
BY DEF Kids, Policies

LEMMA RunsS9 == \E y : Leads("S9", s9_pinning_immunity, Start, y)
<1> DEFINE v1 == Ancestor(1, "sys", "none")
           v2 == Ancestor(2, "nobody", "none")
           c1 == Child(1, 1, "fits")
           d1 == Child(1, 0, "fits")
           c2 == Child(2, 1, "fits")
           d2 == Child(2, 0, "fits")
           x1 == Given(Start, "A", v1)
           x2 == Given(x1, "C", c1)
           x3 == Given(x2, "D", d1)
           x4 == Given(x3, "A", v2)
           x5 == Given(x4, "C", c2)
           x6 == Barred(x5)
<1>1. v1.n = 1 /\ v1.govern = "sys" /\ v1.rule = "none" /\ v1 # None
  BY Versions
<1>2. v2.n = 2 /\ v2.govern = "nobody" /\ v2.rule = "none" /\ v2 # None
  BY Versions
<1>3. /\ c1.n = 1 /\ c1.pin = 1 /\ c1 # None /\ d1.n = 1 /\ d1.pin = 0 /\ d1 # None
      /\ c2.n = 2 /\ c2.pin = 1 /\ c2 # None /\ d2.n = 2 /\ d2.pin = 0 /\ d2 # None
  BY Children
<1>4. /\ Inner("S9", Confirmed(sys_install("A", v1)), Start, x1)
      /\ Situation(x1) /\ x1.barred = "no" /\ x1.ar = {v1} /\ x1.st["A"] = v1 /\ \A o \in Kids : x1.st[o] = None
  BY Founded
<1> HIDE DEF v1, c1, d1, c2, d2, x1
<1>5. Inner("S9", Confirmed(sys_install("C", c1)), x1, x2)
  <2>1. Permits(x1.st, x1.ar, sys_install("C", c1))
    BY <1>1, <1>3, <1>4, KidNames, Judgement DEF SysGoverns
  <2>2. Sound("S9", sys_install("C", c1), x1)
    BY <1>1, <1>3, <1>4, KidNames, Pinned
  <2> QED BY <1>3, <1>4, <2>1, <2>2, KidNames, KidPlaced
<1>6. /\ Situation(x2) /\ x2.barred = "no" /\ x2.ar = {v1} /\ x2.st["A"] = v1 /\ x2.st["C"] = c1 /\ x2.st["D"] = None
  BY <1>4, KidNames, GivenKid
<1> HIDE DEF x2
<1>7. Inner("S9", Confirmed(sys_install("D", d1)), x2, x3)
  <2>1. Permits(x2.st, x2.ar, sys_install("D", d1))
    BY <1>1, <1>3, <1>6, KidNames, Judgement DEF SysGoverns
  <2>2. Sound("S9", sys_install("D", d1), x2)
    BY <1>1, <1>3, <1>6, KidNames, Pinned
  <2> QED BY <1>3, <1>6, <2>1, <2>2, KidNames, KidPlaced
<1>8. /\ Situation(x3) /\ x3.barred = "no" /\ x3.ar = {v1} /\ x3.st["A"] = v1 /\ x3.st["C"] = c1 /\ x3.st["D"] = d1
  BY <1>6, KidNames, GivenKid
<1> HIDE DEF x3
<1>9. Inner("S9", Amended(2, "nobody", "timeout"), x3, x4)
  BY <1>1, <1>2, <1>8, Reformed DEF Rules
<1> HIDE DEF v2
<1>10. /\ Situation(x4) /\ x4.barred = "no" /\ x4.ar = {v1, v2} /\ x4.st["A"] = v2 /\ x4.st["C"] = c1 /\ x4.st["D"] = d1
  BY <1>8, KidNames, GivenAncestor
<1> HIDE DEF x4
<1>11. Inner("S9", Updated("C", c2, "changed", "accepted"), x4, x5)
  <2>1. Permits(x4.st, x4.ar, sys_install("C", c2))
    <3>1. SysGoverns(x4.st, x4.ar, "C")
      BY <1>1, <1>3, <1>10 DEF SysGoverns
    <3>2. x4.st["C"] # None /\ c2.pin = x4.st["C"].pin /\ x4.st["A"].rule = "none"
      BY <1>2, <1>3, <1>10
    <3> QED BY <3>1, <3>2, KidNames, Judgement
  <2>2. Sound("S9", sys_install("C", c2), x4)
    <3>1. v1 \in x4.ar /\ v1.n = c2.pin /\ c2.pin # 0 /\ c2.pin # 2 /\ x4.st["A"] # None
      BY <1>1, <1>2, <1>3, <1>10
    <3> QED BY <3>1, KidNames, Pinned
  <2> QED BY <1>3, <1>10, <2>1, <2>2, KidNames, Revised
<1>12. /\ Situation(x5) /\ x5.barred = "no" /\ x5.ar = {v1, v2} /\ x5.st["A"] = v2 /\ x5.st["D"] = d1
  BY <1>10, KidNames, GivenKid
<1> HIDE DEF x5
<1>13. Inner("S9", Updated("D", d2, "same", "flag"), x5, x6)
  <2>1. ~Permits(x5.st, x5.ar, sys_install("D", d2))
    BY <1>1, <1>2, <1>3, <1>12, KidNames, Judgement DEF SysGoverns
  <2>2. Sound("S9", sys_install("D", d2), x5)
    BY <1>1, <1>2, <1>3, <1>12, KidNames, Pinned
  <2> QED BY <1>3, <1>12, <2>1, <2>2, KidNames, Revised
<1> HIDE DEF x6
<1>14. Inner("S9", Confirmed(sys_install("A", v1)) \o Confirmed(sys_install("C", c1)), Start, x2)
  BY <1>4, <1>5, Linked
<1>15. Inner("S9", Confirmed(sys_install("A", v1)) \o Confirmed(sys_install("C", c1)) \o Confirmed(sys_install("D", d1)), Start, x3)
  BY <1>7, <1>14, Linked
<1>16. Inner("S9", Confirmed(sys_install("A", v1)) \o Confirmed(sys_install("C", c1)) \o Confirmed(sys_install("D", d1))
                   \o Amended(2, "nobody", "timeout"), Start, x4)
  BY <1>9, <1>15, Linked
<1>17. Inner("S9", Confirmed(sys_install("A", v1)) \o Confirmed(sys_install("C", c1)) \o Confirmed(sys_install("D", d1))
                   \o Amended(2, "nobody", "timeout") \o Updated("C", c2, "changed", "accepted"), Start, x5)
  BY <1>11, <1>16, Linked
<1>18. Inner("S9", Confirmed(sys_install("A", v1)) \o Confirmed(sys_install("C", c1)) \o Confirmed(sys_install("D", d1))
                   \o Amended(2, "nobody", "timeout") \o Updated("C", c2, "changed", "accepted")
                   \o Updated("D", d2, "same", "flag"), Start, x6)
  BY <1>13, <1>17, Linked
<1> QED BY <1>18 DEF s9_pinning_immunity, v1, c1, d1, c2, d2, Inner

LEMMA RunsS10 == \E y : Leads("S10", s10_creation_pin_latest, Start, y)
<1> DEFINE v1 == Ancestor(1, "sys", "none")
           v2 == Ancestor(2, "sys", "none")
           c1 == Child(1, 1, "fits")
           d1 == Child(1, 2, "fits")
           x1 == Given(Start, "A", v1)
           x2 == Given(x1, "A", v2)
           x3 == Barred(x2)
           x4 == Given(x3, "D", d1)
<1>1. v1.n = 1 /\ v1.govern = "sys" /\ v1.rule = "none" /\ v1 # None
  BY Versions
<1>2. v2.n = 2 /\ v2.govern = "sys" /\ v2.rule = "none" /\ v2 # None
  BY Versions
<1>3. c1.n = 1 /\ c1.pin = 1 /\ c1 # None /\ d1.n = 1 /\ d1.pin = 2 /\ d1 # None
  BY Children
<1>4. /\ Inner("S10", Confirmed(sys_install("A", v1)), Start, x1)
      /\ Situation(x1) /\ x1.barred = "no" /\ x1.ar = {v1} /\ x1.st["A"] = v1 /\ \A o \in Kids : x1.st[o] = None
  BY Founded
<1> HIDE DEF v1, c1, d1, x1
<1>5. Inner("S10", Amended(2, "sys", "fail"), x1, x2)
  BY <1>1, <1>2, <1>4, Reformed DEF Rules
<1> HIDE DEF v2
<1>6. Situation(x2) /\ x2.ar = {v1, v2} /\ x2.st["A"] = v2 /\ x2.st["C"] = None /\ x2.st["D"] = None
  BY <1>4, KidNames, GivenAncestor
<1> HIDE DEF x2
<1>7. Inner("S10", Rejected("C", c1), x2, x3)
  <2>1. ~Permits(x2.st, x2.ar, sys_install("C", c1))
    BY <1>2, <1>3, <1>6, KidNames, Judgement DEF SysGoverns
  <2>2. Sound("S10", sys_install("C", c1), x2)
    BY <1>1, <1>2, <1>3, <1>6, KidNames, Pinned
  <2> QED BY <1>3, <1>6, <2>1, <2>2, KidNames, Refuted
<1>8. Situation(x3) /\ x3.ar = {v1, v2} /\ x3.st["A"] = v2 /\ x3.st["D"] = None
  BY <1>6, SituationBarred
<1> HIDE DEF x3
<1>9. Inner("S10", Accepted("D", d1), x3, x4)
  <2>1. Permits(x3.st, x3.ar, sys_install("D", d1))
    BY <1>2, <1>3, <1>8, KidNames, Judgement DEF SysGoverns
  <2>2. Sound("S10", sys_install("D", d1), x3)
    BY <1>1, <1>2, <1>3, <1>8, KidNames, Pinned
  <2> QED BY <1>3, <1>8, <2>1, <2>2, KidNames, Adopted
<1> HIDE DEF x4
<1>10. Inner("S10", Confirmed(sys_install("A", v1)) \o Amended(2, "sys", "fail"), Start, x2)
  BY <1>4, <1>5, Linked
<1>11. Inner("S10", Confirmed(sys_install("A", v1)) \o Amended(2, "sys", "fail") \o Rejected("C", c1), Start, x3)
  BY <1>7, <1>10, Linked
<1>12. Inner("S10", Confirmed(sys_install("A", v1)) \o Amended(2, "sys", "fail") \o Rejected("C", c1)
                    \o Accepted("D", d1), Start, x4)
  BY <1>9, <1>11, Linked
<1> QED BY <1>12 DEF s10_creation_pin_latest, v1, c1, d1, Inner

LEMMA RunsS11 == \E y : Leads("S11", s11_forward_only, Start, y)
<1> DEFINE v1 == Ancestor(1, "sys", "none")
           v2 == Ancestor(2, "sys", "none")
           v3 == Ancestor(3, "sys", "none")
           c1 == Child(1, 2, "fits")
           c2 == Child(1, 3, "fits")
           x1 == Given(Start, "A", v1)
           x2 == Given(x1, "A", v2)
           x3 == Given(x2, "C", c1)
           x4 == Given(x3, "A", v3)
           x5 == Given(x4, "C", c2)
           x6 == Barred(x5)
<1>1. v1.n = 1 /\ v1.govern = "sys" /\ v1.rule = "none" /\ v1 # None
  BY Versions
<1>2. /\ v2.n = 2 /\ v2.govern = "sys" /\ v2.rule = "none" /\ v2 # None
      /\ v3.n = 3 /\ v3.govern = "sys" /\ v3.rule = "none" /\ v3 # None
  BY Versions
<1>3. c1.n = 1 /\ c1.pin = 2 /\ c1 # None /\ c2.n = 1 /\ c2.pin = 3 /\ c2 # None
  BY Children
<1>4. /\ Inner("S11", Confirmed(sys_install("A", v1)), Start, x1)
      /\ Situation(x1) /\ x1.barred = "no" /\ x1.ar = {v1} /\ x1.st["A"] = v1 /\ \A o \in Kids : x1.st[o] = None
  BY Founded
<1> HIDE DEF v1, c1, c2, x1
<1>5. Inner("S11", Amended(2, "sys", "fail"), x1, x2)
  BY <1>1, <1>2, <1>4, Reformed DEF Rules
<1>6. Situation(x2) /\ x2.barred = "no" /\ x2.ar = {v1, v2} /\ x2.st["A"] = v2 /\ x2.st["C"] = None
  BY <1>4, KidNames, GivenAncestor
<1> HIDE DEF x2
<1>7. Inner("S11", Confirmed(sys_install("C", c1)), x2, x3)
  <2> HIDE DEF v2, v3
  <2>1. Permits(x2.st, x2.ar, sys_install("C", c1))
    BY <1>2, <1>3, <1>6, KidNames, Judgement DEF SysGoverns
  <2>2. Sound("S11", sys_install("C", c1), x2)
    BY <1>1, <1>2, <1>3, <1>6, KidNames, Pinned
  <2> QED BY <1>3, <1>6, <2>1, <2>2, KidNames, KidPlaced
<1>8. Situation(x3) /\ x3.barred = "no" /\ x3.ar = {v1, v2} /\ x3.st["A"] = v2 /\ x3.st["C"] = c1
  BY <1>6, KidNames, GivenKid
<1> HIDE DEF x3
<1>9. Inner("S11", Amended(3, "sys", "fail"), x3, x4)
  BY <1>1, <1>2, <1>8, Reformed DEF Rules
<1> HIDE DEF v2, v3
<1>10. Situation(x4) /\ x4.barred = "no" /\ x4.ar = {v1, v2, v3} /\ x4.st["A"] = v3 /\ x4.st["C"] = c1
  <2>1. x4.ar = x3.ar \cup {v3} /\ Situation(x4) /\ x4.barred = x3.barred /\ x4.st["A"] = v3 /\ x4.st["C"] = x3.st["C"]
    BY <1>8, KidNames, GivenAncestor
  <2> HIDE DEF x4
  <2> QED BY <1>8, <2>1
<1> HIDE DEF x4
<1>11. Inner("S11", Updated("C", c2, "changed", "accepted"), x4, x5)
  <2>1. Permits(x4.st, x4.ar, sys_install("C", c2))
    BY <1>1, <1>2, <1>3, <1>10, KidNames, Judgement DEF SysGoverns
  <2>2. Sound("S11", sys_install("C", c2), x4)
    BY <1>1, <1>2, <1>3, <1>10, KidNames, Pinned
  <2> QED BY <1>3, <1>10, <2>1, <2>2, KidNames, Revised
<1>12. Situation(x5) /\ x5.barred = "no" /\ x5.ar = {v1, v2, v3} /\ x5.st["A"] = v3 /\ x5.st["C"] = c2
  BY <1>10, KidNames, GivenKid
<1> HIDE DEF x5
<1>13. Inner("S11", Updated("C", c1, "same", "flag"), x5, x6)
  <2>1. ~Permits(x5.st, x5.ar, sys_install("C", c1))
    BY <1>1, <1>2, <1>3, <1>12, KidNames, Judgement DEF SysGoverns
  <2>2. Sound("S11", sys_install("C", c1), x5)
    BY <1>1, <1>2, <1>3, <1>12, KidNames, Pinned
  <2> QED BY <1>3, <1>12, <2>1, <2>2, KidNames, Revised
<1> HIDE DEF x6
<1>14. Inner("S11", Confirmed(sys_install("A", v1)) \o Amended(2, "sys", "fail"), Start, x2)
  BY <1>4, <1>5, Linked
<1>15. Inner("S11", Confirmed(sys_install("A", v1)) \o Amended(2, "sys", "fail") \o Confirmed(sys_install("C", c1)), Start, x3)
  BY <1>7, <1>14, Linked
<1>16. Inner("S11", Confirmed(sys_install("A", v1)) \o Amended(2, "sys", "fail") \o Confirmed(sys_install("C", c1))
                    \o Amended(3, "sys", "fail"), Start, x4)
  BY <1>9, <1>15, Linked
<1>17. Inner("S11", Confirmed(sys_install("A", v1)) \o Amended(2, "sys", "fail") \o Confirmed(sys_install("C", c1))
                    \o Amended(3, "sys", "fail") \o Updated("C", c2, "changed", "accepted"), Start, x5)
  BY <1>11, <1>16, Linked
<1>18. Inner("S11", Confirmed(sys_install("A", v1)) \o Amended(2, "sys", "fail") \o Confirmed(sys_install("C", c1))
                    \o Amended(3, "sys", "fail") \o Updated("C", c2, "changed", "accepted")
                    \o Updated("C", c1, "same", "flag"), Start, x6)
  BY <1>13, <1>17, Linked
<1> QED BY <1>18 DEF s11_forward_only, v1, c1, c2, Inner

LEMMA RunsS12 == \E y : Leads("S12", s12_descendant_constraint, Start, y)
<1> DEFINE v1 == Ancestor(1, "sys", "template")
           c1 == Child(1, 0, "exceeds")
           d1 == Child(1, 0, "lacks")
           e1 == Child(1, 0, "fits")
           x1 == Given(Start, "A", v1)
           x2 == Barred(x1)
           x3 == Barred(x2)
           x4 == Given(x3, "E", e1)
<1>1. v1.n = 1 /\ v1.govern = "sys" /\ v1.rule = "template" /\ v1 # None
  BY Versions
<1>2. /\ c1.pin = 0 /\ c1.shape = "exceeds" /\ c1 # None /\ d1.pin = 0 /\ d1.shape = "lacks" /\ d1 # None
      /\ e1.pin = 0 /\ e1.shape = "fits" /\ e1 # None
  BY Children
<1>3. /\ Inner("S12", Confirmed(sys_install("A", v1)), Start, x1)
      /\ Situation(x1) /\ x1.st["A"] = v1 /\ \A o \in Kids : x1.st[o] = None
  BY Founded
<1> HIDE DEF v1, c1, d1, e1, x1
<1>4. Inner("S12", Rejected("C", c1), x1, x2)
  <2>1. ~Permits(x1.st, x1.ar, sys_install("C", c1))
    BY <1>1, <1>2, <1>3, KidNames, Judgement DEF SysGoverns
  <2>2. Sound("S12", sys_install("C", c1), x1)
    BY <1>1, <1>2, <1>3, KidNames, Pinned
  <2> QED BY <1>2, <1>3, <2>1, <2>2, KidNames, Refuted
<1>5. Situation(x2) /\ x2.st["A"] = v1 /\ \A o \in Kids : x2.st[o] = None
  BY <1>3, SituationBarred
<1> HIDE DEF x2
<1>6. Inner("S12", Rejected("D", d1), x2, x3)
  <2>1. ~Permits(x2.st, x2.ar, sys_install("D", d1))
    BY <1>1, <1>2, <1>5, KidNames, Judgement DEF SysGoverns
  <2>2. Sound("S12", sys_install("D", d1), x2)
    BY <1>1, <1>2, <1>5, KidNames, Pinned
  <2> QED BY <1>2, <1>5, <2>1, <2>2, KidNames, Refuted
<1>7. Situation(x3) /\ x3.st["A"] = v1 /\ \A o \in Kids : x3.st[o] = None
  BY <1>5, SituationBarred
<1> HIDE DEF x3
<1>8. Inner("S12", Accepted("E", e1), x3, x4)
  <2>1. Permits(x3.st, x3.ar, sys_install("E", e1))
    BY <1>1, <1>2, <1>7, KidNames, Judgement DEF SysGoverns
  <2>2. Sound("S12", sys_install("E", e1), x3)
    BY <1>1, <1>2, <1>7, KidNames, Pinned
  <2> QED BY <1>2, <1>7, <2>1, <2>2, KidNames, Adopted
<1> HIDE DEF x4
<1>9. Inner("S12", Confirmed(sys_install("A", v1)) \o Rejected("C", c1), Start, x2)
  BY <1>3, <1>4, Linked
<1>10. Inner("S12", Confirmed(sys_install("A", v1)) \o Rejected("C", c1) \o Rejected("D", d1), Start, x3)
  BY <1>6, <1>9, Linked
<1>11. Inner("S12", Confirmed(sys_install("A", v1)) \o Rejected("C", c1) \o Rejected("D", d1) \o Accepted("E", e1), Start, x4)
  BY <1>8, <1>10, Linked
<1> QED BY <1>11 DEF s12_descendant_constraint, v1, c1, d1, e1, Inner

LEMMA RunsS13 == \E y : Leads("S13", s13_no_pin, Start, y)
<1> DEFINE v1 == Ancestor(1, "sys", "nopin")
           c1 == Child(1, 1, "fits")
           d1 == Child(1, 0, "fits")
           x1 == Given(Start, "A", v1)
           x2 == Barred(x1)
           x3 == Given(x2, "D", d1)
<1>1. v1.n = 1 /\ v1.govern = "sys" /\ v1.rule = "nopin" /\ v1 # None
  BY Versions
<1>2. c1.pin = 1 /\ c1 # None /\ d1.pin = 0 /\ d1 # None
  BY Children
<1>3. /\ Inner("S13", Confirmed(sys_install("A", v1)), Start, x1)
      /\ Situation(x1) /\ x1.barred = "no" /\ x1.ar = {v1} /\ x1.st["A"] = v1 /\ \A o \in Kids : x1.st[o] = None
  BY Founded
<1> HIDE DEF v1, c1, d1, x1
<1>4. Inner("S13", Rejected("C", c1), x1, x2)
  <2>1. ~Permits(x1.st, x1.ar, sys_install("C", c1))
    BY <1>1, <1>2, <1>3, KidNames, Judgement DEF SysGoverns
  <2>2. Sound("S13", sys_install("C", c1), x1)
    BY <1>1, <1>2, <1>3, KidNames, Pinned
  <2> QED BY <1>2, <1>3, <2>1, <2>2, KidNames, Refuted
<1>5. Situation(x2) /\ x2.st["A"] = v1 /\ \A o \in Kids : x2.st[o] = None
  BY <1>3, SituationBarred
<1> HIDE DEF x2
<1>6. Inner("S13", Accepted("D", d1), x2, x3)
  <2>1. Permits(x2.st, x2.ar, sys_install("D", d1))
    BY <1>1, <1>2, <1>5, KidNames, Judgement DEF SysGoverns
  <2>2. Sound("S13", sys_install("D", d1), x2)
    BY <1>1, <1>2, <1>5, KidNames, Pinned
  <2> QED BY <1>2, <1>5, <2>1, <2>2, KidNames, Adopted
<1> HIDE DEF x3
<1>7. Inner("S13", Confirmed(sys_install("A", v1)) \o Rejected("C", c1), Start, x2)
  BY <1>3, <1>4, Linked
<1>8. Inner("S13", Confirmed(sys_install("A", v1)) \o Rejected("C", c1) \o Accepted("D", d1), Start, x3)
  BY <1>6, <1>7, Linked
<1> QED BY <1>8 DEF s13_no_pin, v1, c1, d1, Inner

LEMMA AllRun ==
  ASSUME NEW id \in DOMAIN scenarios, id # "S8"
  PROVE  \E y : Leads(id, scenarios[id], Start, y)
<1>1. id \in {"S1", "S2", "S3", "S4", "S5", "S6", "S7", "S9", "S10", "S11", "S12", "S13"}
  BY DEF scenarios
<1>2. CASE id = "S1" BY <1>2, RunsS1 DEF scenarios
<1>3. CASE id = "S2" BY <1>3, RunsS2 DEF scenarios
<1>4. CASE id = "S3" BY <1>4, RunsS3 DEF scenarios
<1>5. CASE id = "S4" BY <1>5, RunsS4 DEF scenarios
<1>6. CASE id = "S5" BY <1>6, RunsS5 DEF scenarios
<1>7. CASE id = "S6" BY <1>7, RunsS6 DEF scenarios
<1>8. CASE id = "S7" BY <1>8, RunsS7 DEF scenarios
<1>9. CASE id = "S9" BY <1>9, RunsS9 DEF scenarios
<1>10. CASE id = "S10" BY <1>10, RunsS10 DEF scenarios
<1>11. CASE id = "S11" BY <1>11, RunsS11 DEF scenarios
<1>12. CASE id = "S12" BY <1>12, RunsS12 DEF scenarios
<1>13. CASE id = "S13" BY <1>13, RunsS13 DEF scenarios
<1> QED BY <1>1, <1>2, <1>3, <1>4, <1>5, <1>6, <1>7, <1>8, <1>9, <1>10, <1>11, <1>12, <1>13

(***************************************************************************)
(* The situations of a scenario: those before its lines, and after the     *)
(* last.                                                                   *)
(***************************************************************************)
Held(id) == CHOOSE p : Traces(id, scenarios[id], p) /\ p[1] = Start

LEMMA HeldTraces ==
  ASSUME NEW id \in DOMAIN scenarios
  PROVE  /\ Traces(id, scenarios[id], Held(id)) /\ Held(id)[1] = Start
         /\ \E T : scenarios[id] \in Seq(T)
         /\ scenarios[id] # <<>> => scenarios[id][1].op \notin Awaits
<1> DEFINE s == scenarios[id]
<1>1. /\ \E p : Traces(id, s, p) /\ p[1] = Start
      /\ \E T : s \in Seq(T)
      /\ s # <<>> => s[1].op \notin Awaits
  <2>1. CASE id = "S8"
    <3> DEFINE p == [n \in 1 .. 1 |-> Start]
    <3>1. s = <<>> /\ s \in Seq({})
      BY <2>1 DEF scenarios
    <3>2. Traces(id, s, p)
      BY <3>1, StartFacts DEF Traces
    <3> QED BY <3>1, <3>2
  <2>2. CASE id # "S8"
    BY <2>2, AllRun DEF Leads
  <2> QED BY <2>1, <2>2
<1> QED BY <1>1 DEF Held

\* A line of a scenario.
LEMMA LineFacts ==
  ASSUME NEW id \in DOMAIN scenarios, NEW s, s = scenarios[id], NEW h, h = Held(id)
  PROVE  /\ Len(s) \in Nat /\ DOMAIN s = 1 .. Len(s)
         /\ Traces(id, s, h) /\ h[1] = Start
         /\ \A n \in DOMAIN s : /\ s[n].op = "submit" => WriteRow(id, s, h, n)
                                /\ s[n].op # "submit" => WaitRow(s, h, n)
         /\ Writes(id) = {n \in DOMAIN s : s[n].op = "submit"}
<1>1. Traces(id, s, h) /\ h[1] = Start
  BY HeldTraces
<1>2. PICK T : s \in Seq(T)
  BY HeldTraces
<1>3. Len(s) \in Nat /\ DOMAIN s = 1 .. Len(s)
  BY <1>2
<1> QED BY <1>1, <1>3 DEF Traces, Writes

-----------------------------------------------------------------------------
(* Types.                                                                  *)

Writable(id) == {scenarios[id][n].w : n \in Writes(id)} \cup {sys_delete_policy(o) : o \in Policies}
Entries(id) == [w : Writable(id), n : Nat, age : 0 .. MaxDelay - 1, overlay : {"kept", "lost"}]

LiveTyped ==
  /\ scen.id \in DOMAIN scenarios
  /\ line \in 1 .. Len(Script) + 1
  /\ sub \in [state : {"none", "read", "accepted", "denied"}, blocks : 0 .. FinalityBlocks]
  /\ outcome \in {None, "Pass", "Fail", "Timeout", "Skip", "Error"}
  /\ policies \in Seq(Policies)
  /\ pending \in Seq(Entries(scen.id))
  /\ store = [o \in Objects |-> store[o]]
  /\ faults \subseteq Writes(scen.id)

LEMMA LiveTypedInit == LiveInit => LiveTyped
<1> SUFFICES ASSUME LiveInit PROVE LiveTyped
  OBVIOUS
<1>1. scen.id \in Chosen /\ scen.id \in DOMAIN scenarios
  BY ChosenAssumption DEF LiveInit
<1>2. Len(Script) \in Nat
  BY <1>1, LineFacts DEF Script
<1>3. sub \in [state : {"none", "read", "accepted", "denied"}, blocks : 0 .. FinalityBlocks]
  BY LiveTestAssumption DEF LiveInit, NoSub
<1> QED BY <1>1, <1>2, <1>3 DEF LiveInit, LiveTyped

\* What the verdicts of the waits are.
LEMMA ResultFacts == \A r \in Results : r \in {"Pass", "Fail", "Timeout", "Error"}
BY DEF Results, settle_present, settle_absent, wait_deleted, wait_version_change, wait_for_head, still_the_same

LEMMA ReturnedFacts ==
  ASSUME NEW r \in Results
  PROVE  Returned(r) \in {None, "Pass", "Fail", "Timeout", "Error"}
BY ResultFacts DEF Returned

LEMMA EntryTyped ==
  ASSUME LiveTyped, Going, Step.op = "submit"
  PROVE  Append(pending, Entry(Step.w, line)) \in Seq(Entries(scen.id))
<1>1. line \in Writes(scen.id) /\ line \in Nat
  BY LineFacts DEF LiveTyped, Going, Step, Script, Writes
<1>2. Step.w \in Writable(scen.id)
  BY <1>1 DEF Writable, Step, Script
<1>3. Entry(Step.w, line) \in Entries(scen.id)
  BY <1>1, <1>2, LiveTestAssumption DEF Entry, Entries
<1> QED BY <1>3 DEF LiveTyped

LEMMA SweepTyped ==
  ASSUME LiveTyped, policies # <<>>
  PROVE  /\ Append(pending, Entry(sys_delete_policy(Last(policies)), 0)) \in Seq(Entries(scen.id))
         /\ Front(policies) \in Seq(Policies) /\ Last(policies) \in Policies
<1>1. policies \in Seq(Policies) /\ Len(policies) \in Nat \ {0}
  BY DEF LiveTyped
<1>2. Last(policies) \in Policies
  BY <1>1 DEF Last
<1>3. Front(policies) \in Seq(Policies)
  BY <1>1 DEF Front
<1>4. sys_delete_policy(Last(policies)) \in Writable(scen.id)
  BY <1>2 DEF Writable
<1>5. Entry(sys_delete_policy(Last(policies)), 0) \in Entries(scen.id)
  BY <1>4, LiveTestAssumption DEF Entry, Entries
<1> QED BY <1>2, <1>3, <1>5 DEF LiveTyped

\* Pending writes age, and lose their overlay.
LEMMA Aged ==
  ASSUME LiveTyped, \A n \in DOMAIN pending : pending[n].age + 1 < MaxDelay
  PROVE  [n \in DOMAIN pending |-> [pending[n] EXCEPT !.age = @ + 1]] \in Seq(Entries(scen.id))
<1>1. DOMAIN pending = 1 .. Len(pending) /\ Len(pending) \in Nat /\ \A n \in DOMAIN pending : pending[n] \in Entries(scen.id)
  BY DEF LiveTyped
<1>2. ASSUME NEW n \in DOMAIN pending PROVE [pending[n] EXCEPT !.age = @ + 1] \in Entries(scen.id)
  <2>1. PICK e \in Entries(scen.id) : e = pending[n] /\ e.age + 1 < MaxDelay
    BY <1>1
  <2>2. e.age + 1 \in 0 .. MaxDelay - 1
    BY <2>1, LiveTestAssumption DEF Entries
  <2>3. [e EXCEPT !.age = @ + 1] \in Entries(scen.id)
    BY <2>2 DEF Entries
  <2> QED BY <2>1, <2>3
<1>3. [n \in 1 .. Len(pending) |-> [pending[n] EXCEPT !.age = @ + 1]] \in [1 .. Len(pending) -> Entries(scen.id)]
  BY <1>1, <1>2
<1> QED BY <1>1, <1>3, SeqDef

LEMMA Forgotten ==
  ASSUME LiveTyped
  PROVE  [n \in DOMAIN pending |-> [pending[n] EXCEPT !.overlay = "lost"]] \in Seq(Entries(scen.id))
<1>1. DOMAIN pending = 1 .. Len(pending) /\ Len(pending) \in Nat /\ \A n \in DOMAIN pending : pending[n] \in Entries(scen.id)
  BY DEF LiveTyped
<1>2. \A n \in DOMAIN pending : [pending[n] EXCEPT !.overlay = "lost"] \in Entries(scen.id)
  BY <1>1 DEF Entries
<1>3. [n \in 1 .. Len(pending) |-> [pending[n] EXCEPT !.overlay = "lost"]] \in [1 .. Len(pending) -> Entries(scen.id)]
  BY <1>1, <1>2
<1> QED BY <1>1, <1>3, SeqDef

\* Every step keeps the types.
LEMMA LiveTypedNext == LiveTyped /\ [LiveNext]_LiveVars => LiveTyped'
<1> SUFFICES ASSUME LiveTyped, [LiveNext]_LiveVars PROVE LiveTyped'
  OBVIOUS
<1>0. scen' = scen /\ faults' = faults
  BY DEF LiveNext, LiveVars, harness, chain, Skip, ReadHead, Post, Settle, Verdict, Sweep, Replay, Block, Hide, Drop, Lapse
<1> DEFINE s == Script
<1>1. Len(Script) \in Nat /\ DOMAIN Script = 1 .. Len(Script)
  BY LineFacts DEF LiveTyped, Script
<1>2. Script' = Script
  BY <1>0 DEF Script
<1>3. 1 \in 1 .. Len(Script) + 1
  BY <1>1
<1>4. \A r \in {"Pass", "Fail", "Timeout", "Skip", "Error"} :
        End(r) => line' = 1 /\ sub' = NoSub /\ outcome' \in {None, "Pass", "Fail", "Timeout", "Skip", "Error"}
  BY DEF End
<1>5. NoSub \in [state : {"none", "read", "accepted", "denied"}, blocks : 0 .. FinalityBlocks]
  BY LiveTestAssumption DEF NoSub
<1>6. CASE Skip
  BY <1>0, <1>2, <1>3, <1>4, <1>5, <1>6 DEF Skip, LiveTyped, chain
<1>7. CASE ReadHead
  <2>1. sub' \in [state : {"none", "read", "accepted", "denied"}, blocks : 0 .. FinalityBlocks]
    BY <1>7, LiveTestAssumption DEF ReadHead, head_block
  <2> QED BY <1>0, <1>2, <1>7, <2>1 DEF ReadHead, LiveTyped, chain
<1>8. CASE Post
  <2>1. Step.op = "submit" /\ line \in DOMAIN Script /\ Going
    BY <1>8 DEF Post, Going
  <2>2. line + 1 \in 1 .. Len(Script) + 1
    BY <1>1, <2>1
  <2>3. \A t \in {"accepted", "denied"} :
          [sub EXCEPT !.state = t] \in [state : {"none", "read", "accepted", "denied"}, blocks : 0 .. FinalityBlocks]
    BY DEF LiveTyped
  <2>4. /\ line' \in 1 .. Len(Script) + 1 /\ outcome' \in {None, "Pass", "Fail", "Timeout", "Skip", "Error"}
        /\ sub' \in [state : {"none", "read", "accepted", "denied"}, blocks : 0 .. FinalityBlocks]
    <3>1. Step.else \in {"fail", "error", "go"}
      BY <2>1, LineFacts DEF LiveTyped, Script, Step, WriteRow, Awaited
    <3>2. \/ Continue /\ \E t \in {"accepted", "denied"} : sub' = [sub EXCEPT !.state = t]
          \/ \E r \in {"Fail", "Error"} : End(r)
      BY <1>8, <3>1 DEF Post
    <3>3. CASE Continue /\ \E t \in {"accepted", "denied"} : sub' = [sub EXCEPT !.state = t]
      BY <2>2, <2>3, <3>3 DEF Continue, LiveTyped
    <3>4. CASE \E r \in {"Fail", "Error"} : End(r)
      BY <1>3, <1>4, <1>5, <3>4
    <3> QED BY <3>2, <3>3, <3>4
  <2>5. pending' \in {pending, Append(pending, Entry(Step.w, line))}
    BY <1>8 DEF Post
  <2>6. pending' \in Seq(Entries(scen.id))
    BY <2>1, <2>5, EntryTyped DEF LiveTyped
  <2>7. Step.w.by = "sys" => Step.obj \in Policies
    BY <2>1, LineFacts DEF LiveTyped, Script, Step, WriteRow, Awaited
  <2>8. policies' \in {policies, Recorded}
    BY <1>8 DEF Post
  <2>9. policies' \in Seq(Policies)
    <3>1. CASE Step.w.by = "sys"
      <4>1. Append(policies, Step.obj) \in Seq(Policies)
        BY <2>7, <3>1 DEF LiveTyped
      <4> QED BY <2>8, <3>1, <4>1 DEF Recorded, LiveTyped
    <3>2. CASE Step.w.by # "sys"
      BY <2>8, <3>2 DEF Recorded, LiveTyped
    <3> QED BY <3>1, <3>2
  <2> QED BY <1>0, <1>2, <1>8, <2>4, <2>6, <2>9 DEF Post, LiveTyped
<1>9. CASE Settle
  <2>1. PICK r \in Results : (Returned(r) # None /\ End(Returned(r))) \/ (Continue /\ UNCHANGED sub)
    BY <1>9 DEF Settle
  <2>2. line \in DOMAIN Script
    BY <1>9 DEF Settle, Going
  <2>3. line + 1 \in 1 .. Len(Script) + 1
    BY <1>1, <2>2
  <2>4. /\ line' \in 1 .. Len(Script) + 1 /\ outcome' \in {None, "Pass", "Fail", "Timeout", "Skip", "Error"}
        /\ sub' \in [state : {"none", "read", "accepted", "denied"}, blocks : 0 .. FinalityBlocks]
    BY <1>3, <1>4, <1>5, <2>1, <2>3, ReturnedFacts DEF Continue, LiveTyped
  <2> QED BY <1>0, <1>2, <1>9, <2>4 DEF Settle, LiveTyped, chain
<1>10. CASE Verdict
  BY <1>0, <1>2, <1>3, <1>4, <1>5, <1>10 DEF Verdict, LiveTyped, chain
<1>11. CASE Sweep
  <2>1. pending' \in {pending, Append(pending, Entry(sys_delete_policy(Last(policies)), 0))} /\ policies' = Front(policies)
        /\ policies # <<>>
    BY <1>11 DEF Sweep
  <2>2. pending' \in Seq(Entries(scen.id)) /\ policies' \in Seq(Policies)
    BY <2>1, SweepTyped DEF LiveTyped
  <2> QED BY <1>0, <1>2, <1>11, <2>2 DEF Sweep, LiveTyped
<1>12. CASE Replay
  <2>1. pending' \in Seq(Entries(scen.id))
    BY <1>12 DEF Replay, LiveTyped
  <2>2. store' = [o \in Objects |-> store'[o]]
    BY <1>12 DEF Replay, Apply, LiveTyped
  <2> QED BY <1>0, <1>2, <1>12, <2>1, <2>2 DEF Replay, LiveTyped, harness
<1>13. CASE Block
  <2>1. pending' \in Seq(Entries(scen.id))
    BY <1>13, Aged DEF Block
  <2>2. sub' \in [state : {"none", "read", "accepted", "denied"}, blocks : 0 .. FinalityBlocks]
    <3>1. sub' = Passed(sub) /\ FinalityBlocks \in Nat
      BY <1>13, LiveTestAssumption DEF Block
    <3>2. CASE sub.blocks < FinalityBlocks
      <4>1. sub.blocks + 1 \in 0 .. FinalityBlocks
        BY <3>1, <3>2 DEF LiveTyped
      <4>2. [sub EXCEPT !.blocks = @ + 1] \in [state : {"none", "read", "accepted", "denied"}, blocks : 0 .. FinalityBlocks]
        BY <4>1 DEF LiveTyped
      <4> QED BY <3>1, <3>2, <4>2 DEF Passed
    <3>3. CASE ~(sub.blocks < FinalityBlocks)
      BY <3>1, <3>3 DEF Passed, LiveTyped
    <3> QED BY <3>2, <3>3
  <2> QED BY <1>0, <1>2, <1>13, <2>1, <2>2 DEF Block, LiveTyped
<1>14. CASE Hide
  <2>1. pending' \in Seq(Entries(scen.id))
    BY <1>14, Forgotten DEF Hide
  <2> QED BY <1>0, <1>2, <1>14, <2>1 DEF Hide, LiveTyped, harness
<1>15. CASE Drop
  <2>1. pending' \in Seq(Entries(scen.id))
    BY <1>15 DEF Drop, LiveTyped
  <2> QED BY <1>0, <1>2, <1>15, <2>1 DEF Drop, LiveTyped, harness
<1>16. CASE Lapse
  BY <1>0, <1>2, <1>16 DEF Lapse, LiveTyped, harness
<1>17. CASE UNCHANGED LiveVars
  BY <1>0, <1>2, <1>17 DEF LiveVars, harness, chain, LiveTyped
<1> QED BY <1>6, <1>7, <1>8, <1>9, <1>10, <1>11, <1>12, <1>13, <1>14, <1>15, <1>16, <1>17 DEF LiveNext

\* The types of the harness and the chain: the next step is one of the script, or
\* the one after it; what the sweep is left with are policies; and an accepted
\* write is replayed before it is MaxDelay blocks old.
THEOREM LiveTypeCorrect == LiveSpec => []LiveTypeOK
<1>1. LiveTyped => LiveTypeOK
  <2> SUFFICES ASSUME LiveTyped PROVE LiveTypeOK
    OBVIOUS
  <2>1. ASSUME NEW n \in DOMAIN pending PROVE pending[n].age < MaxDelay
    <3>1. pending[n] \in Entries(scen.id)
      BY DEF LiveTyped
    <3> QED BY <3>1, LiveTestAssumption DEF Entries
  <2> QED BY <2>1 DEF LiveTyped, LiveTypeOK
<1> QED BY <1>1, LiveTypedInit, LiveTypedNext, PTL DEF LiveSpec

-----------------------------------------------------------------------------
(***************************************************************************)
(* The lines of a scenario.                                                *)
(***************************************************************************)

\* The harness awaits what became of a write; the line of that write, or the
\* next line.
Awaiting(s, n) == n \in DOMAIN s /\ s[n].op \in Awaits
At(s, n) == IF ~Awaiting(s, n) THEN n ELSE IF s[n - 1].op = "submit" THEN n - 1 ELSE n - 2
Granted(s, m) == s[m + 1].op \in Grants

\* No flag is collected by a scenario that returns the result of a wait.
Without(s, bad) == (\E T : s \in Seq(T)) /\ \A n \in DOMAIN s : s[n].else \notin bad

LEMMA WithoutBoth ==
  ASSUME NEW bad, NEW s, NEW t, Without(s, bad), Without(t, bad)
  PROVE  Without(s \o t, bad)
<1>1. PICK S, T : s \in Seq(S) /\ t \in Seq(T)
  BY DEF Without
<1> DEFINE R == S \cup T
<1>2. s \in Seq(R) /\ t \in Seq(R)
  BY <1>1
<1> HIDE DEF R
<1>3. s \o t \in Seq(R) /\ DOMAIN (s \o t) = 1 .. Len(s) + Len(t) /\ DOMAIN s = 1 .. Len(s) /\ DOMAIN t = 1 .. Len(t)
      /\ Len(s) \in Nat /\ Len(t) \in Nat
  BY <1>2
<1>4. ASSUME NEW n \in DOMAIN (s \o t) PROVE (s \o t)[n].else \notin bad
  <2>1. CASE n <= Len(s)
    <3>1. n \in DOMAIN s /\ (s \o t)[n] = s[n]
      BY <1>2, <1>3, <2>1
    <3> QED BY <3>1 DEF Without
  <2>2. CASE ~(n <= Len(s))
    <3>1. n - Len(s) \in DOMAIN t /\ (s \o t)[n] = t[n - Len(s)]
      BY <1>2, <1>3, <2>2
    <3> QED BY <3>1 DEF Without
  <2> QED BY <2>1, <2>2
<1> QED BY <1>3, <1>4 DEF Without

LEMMA WithoutFew ==
  ASSUME NEW bad, NEW x, x.else \notin bad
  PROVE  /\ Without(<<x>>, bad)
         /\ \A y : y.else \notin bad => Without(<<x, y>>, bad)
         /\ \A y, z : (y.else \notin bad /\ z.else \notin bad) => Without(<<x, y, z>>, bad)
<1>1. ASSUME NEW s, NEW T, s \in Seq(T), \A n \in 1 .. Len(s) : s[n].else \notin bad PROVE Without(s, bad)
  BY <1>1 DEF Without
<1>2. Without(<<x>>, bad)
  <2>1. <<x>> \in Seq({x}) /\ \A n \in 1 .. Len(<<x>>) : <<x>>[n] = x
    OBVIOUS
  <2> QED BY <1>1, <2>1
<1>3. ASSUME NEW y, y.else \notin bad PROVE Without(<<x, y>>, bad)
  <2>1. <<x, y>> \in Seq({x, y}) /\ \A n \in 1 .. Len(<<x, y>>) : <<x, y>>[n] = x \/ <<x, y>>[n] = y
    OBVIOUS
  <2>2. \A n \in 1 .. Len(<<x, y>>) : <<x, y>>[n].else \notin bad
    BY <1>3, <2>1
  <2> QED BY <1>1, <2>1, <2>2
<1>4. ASSUME NEW y, NEW z, y.else \notin bad, z.else \notin bad PROVE Without(<<x, y, z>>, bad)
  <2>1. /\ <<x, y, z>> \in Seq({x, y, z})
        /\ \A n \in 1 .. Len(<<x, y, z>>) : <<x, y, z>>[n] = x \/ <<x, y, z>>[n] = y \/ <<x, y, z>>[n] = z
    OBVIOUS
  <2>2. \A n \in 1 .. Len(<<x, y, z>>) : <<x, y, z>>[n].else \notin bad
    BY <1>4, <2>1
  <2> QED BY <1>1, <2>1, <2>2
<1> QED BY <1>2, <1>3, <1>4

Flags == {"flag", "accepted"}

\* The parts of S1 to S7 collect no flags.
LEMMA PlainParts ==
  /\ Without(provision, Flags)
  /\ \A u \in {"a", "b"} : Without(join_and_confirm(u), Flags)
  /\ \A w : Without(Confirmed(w), Flags)
<1>1. \A op, obj : Without(<<Wait(op, obj, "error")>>, Flags)
  BY WithoutFew DEF Wait, Flags
<1>2. \A w : Without(<<Submit(w, "error")>>, Flags) /\ Without(<<Submit(w, "fail")>>, Flags)
  BY WithoutFew DEF Submit, Flags
<1>3. Without(provision, Flags)
  BY <1>1 DEF provision
<1>4. \A obj : Without(require_present(obj), Flags)
  BY <1>1 DEF require_present
<1>5. ASSUME NEW u \in {"a", "b"} PROVE Without(join_and_confirm(u), Flags)
  BY <1>2, <1>4, WithoutBoth DEF join_and_confirm
<1>6. ASSUME NEW w PROVE Without(Confirmed(w), Flags)
  BY <1>2, <1>4, WithoutBoth DEF Confirmed
<1> QED BY <1>3, <1>5, <1>6

LEMMA PlainEnds ==
  ASSUME NEW w, NEW obj, NEW op
  PROVE  /\ Without(<<Submit(w, "go"), Wait(op, obj, "return")>>, Flags)
         /\ \A k : Without(<<Submit(w, "fail"), Body(obj, k)>>, Flags)
         /\ \A k : Without(<<Submit(w, "go"), Wait("head", None, "go"), Body(obj, k)>>, Flags)
BY WithoutFew DEF Submit, Wait, Body, Flags

LEMMA PlainScenarios ==
  ASSUME NEW id \in {"S1", "S2", "S3", "S4", "S5", "S6", "S7"}
  PROVE  Without(scenarios[id], Flags)
<1>1. \A u \in {"a", "b"} : Without(provision \o join_and_confirm(u), Flags)
  BY PlainParts, WithoutBoth
<1>2. Without(provision \o join_and_confirm("a") \o join_and_confirm("b"), Flags)
  BY <1>1, PlainParts, WithoutBoth
<1>3. \A w : /\ Without(provision \o join_and_confirm("a") \o join_and_confirm("b") \o Confirmed(w), Flags)
             /\ Without(provision \o join_and_confirm("a") \o Confirmed(w), Flags)
  BY <1>1, <1>2, PlainParts, WithoutBoth
<1>4. CASE id = "S1"
  BY <1>1, <1>4, PlainEnds, WithoutBoth DEF scenarios, s1_capture_fix
<1>5. CASE id = "S2"
  BY PlainParts, <1>5, PlainEnds, WithoutBoth DEF scenarios, s2_non_member_denied
<1>6. CASE id = "S3"
  BY <1>1, <1>6, PlainEnds, WithoutBoth DEF scenarios, s3_member_can_post
<1>7. CASE id = "S4"
  BY <1>3, <1>7, PlainEnds, WithoutBoth DEF scenarios, s4_owner_only_update
<1>8. CASE id = "S5"
  BY <1>3, <1>8, PlainEnds, WithoutBoth DEF scenarios, s5_author_delete
<1>9. CASE id = "S6"
  <2>1. Without(provision \o join_and_confirm("a") \o join_and_confirm("b") \o provision, Flags)
    BY <1>2, PlainParts, WithoutBoth
  <2>2. Without(provision \o join_and_confirm("a") \o join_and_confirm("b") \o provision
                  \o Confirmed(write_attestation("b")), Flags)
    BY <2>1, PlainParts, WithoutBoth
  <2>3. Without(provision \o join_and_confirm("a") \o join_and_confirm("b") \o provision
                  \o Confirmed(write_attestation("b")) \o Confirmed(write_post("a", 1)), Flags)
    BY <2>2, PlainParts, WithoutBoth
  <2> QED BY <1>9, <2>3, PlainEnds, WithoutBoth DEF scenarios, s6_moderator_delete
<1>10. CASE id = "S7"
  BY <1>3, <1>10, PlainEnds, WithoutBoth DEF scenarios, s7_non_moderator_delete
<1> QED BY <1>4, <1>5, <1>6, <1>7, <1>8, <1>9, <1>10

\* S9 to S13 return no result of a wait: their verdict is that of their flags.
LEMMA FlagParts ==
  /\ \A w : Without(Confirmed(w), {"return"})
  /\ \A n, g, t : t # "return" => Without(Amended(n, g, t), {"return"})
  /\ \A obj, p : Without(Accepted(obj, p), {"return"}) /\ Without(Rejected(obj, p), {"return"})
  /\ \A obj, p, op, e : e # "return" => Without(Updated(obj, p, op, e), {"return"})
<1>1. \A op, obj : Without(<<Wait(op, obj, "error")>>, {"return"})
  BY WithoutFew DEF Wait
<1>2. \A w : Without(<<Submit(w, "fail")>>, {"return"})
  BY WithoutFew DEF Submit
<1>3. \A obj : Without(require_present(obj), {"return"}) /\ Without(object_hash(obj), {"return"})
  BY <1>1 DEF require_present, object_hash
<1>4. ASSUME NEW w PROVE Without(Confirmed(w), {"return"})
  BY <1>2, <1>3, WithoutBoth DEF Confirmed
<1>5. ASSUME NEW w, NEW op, NEW obj, NEW t, t # "return"
      PROVE  /\ Without(<<Submit(w, "go"), Wait(op, obj, t)>>, {"return"})
             /\ Without(<<Submit(w, "fail"), Wait(op, obj, t)>>, {"return"})
  <2> DEFINE x == Submit(w, "go")
             y == Submit(w, "fail")
             z == Wait(op, obj, t)
  <2>1. x.else \notin {"return"} /\ y.else \notin {"return"} /\ z.else \notin {"return"}
    BY <1>5 DEF Submit, Wait
  <2> HIDE DEF x, y, z
  <2>2. Without(<<x, z>>, {"return"}) /\ Without(<<y, z>>, {"return"})
    BY <2>1, WithoutFew
  <2> QED BY <2>2 DEF x, y, z
<1>6. ASSUME NEW n, NEW g, NEW t, t # "return" PROVE Without(Amended(n, g, t), {"return"})
  <2> DEFINE w == sys_install("A", Ancestor(n, g, "none"))
             z == <<Submit(w, "fail"), Wait("changed", "A", t)>>
  <2>1. Without(z, {"return"})
    <3> HIDE DEF w
    <3> QED BY <1>5, <1>6
  <2>2. Amended(n, g, t) = object_hash("A") \o z
    BY DEF Amended
  <2> HIDE DEF z
  <2> QED BY <1>3, <2>1, <2>2, WithoutBoth
<1>7. ASSUME NEW obj, NEW p PROVE Without(Accepted(obj, p), {"return"}) /\ Without(Rejected(obj, p), {"return"})
  <2> DEFINE w == sys_install(obj, p)
  <2>1. /\ Accepted(obj, p) = <<Submit(w, "go"), Wait("present", obj, "accepted")>>
        /\ Rejected(obj, p) = <<Submit(w, "go"), Wait("absent", obj, "flag")>>
    BY DEF Accepted, Rejected
  <2> HIDE DEF w
  <2>2. "accepted" # "return" /\ "flag" # "return"
    OBVIOUS
  <2> QED BY <1>5, <2>1, <2>2
<1>8. ASSUME NEW obj, NEW p, NEW op, NEW e, e # "return" PROVE Without(Updated(obj, p, op, e), {"return"})
  <2> DEFINE w == sys_install(obj, p)
             z == <<Submit(w, "go"), Wait(op, obj, e)>>
  <2>1. Without(z, {"return"})
    <3> HIDE DEF w
    <3> QED BY <1>5, <1>8
  <2>2. Updated(obj, p, op, e) = object_hash(obj) \o z
    BY DEF Updated
  <2> HIDE DEF z
  <2> QED BY <1>3, <2>1, <2>2, WithoutBoth
<1> QED BY <1>4, <1>6, <1>7, <1>8

LEMMA FlagScenarios ==
  ASSUME NEW id \in NeedsSys
  PROVE  Without(scenarios[id], {"return"})
<1>1. CASE id = "S9"
  BY <1>1, FlagParts, WithoutBoth DEF scenarios, s9_pinning_immunity
<1>2. CASE id = "S10"
  BY <1>2, FlagParts, WithoutBoth DEF scenarios, s10_creation_pin_latest
<1>3. CASE id = "S11"
  BY <1>3, FlagParts, WithoutBoth DEF scenarios, s11_forward_only
<1>4. CASE id = "S12"
  BY <1>4, FlagParts, WithoutBoth DEF scenarios, s12_descendant_constraint
<1>5. CASE id = "S13"
  BY <1>5, FlagParts, WithoutBoth DEF scenarios, s13_no_pin
<1> QED BY <1>1, <1>2, <1>3, <1>4, <1>5 DEF NeedsSys

\* A scenario and its situations.
Scenario(id, s, h) == id \in DOMAIN scenarios /\ s = scenarios[id] /\ h = Held(id)

LEMMA ScenarioFacts ==
  ASSUME NEW id, NEW s, NEW h, Scenario(id, s, h)
  PROVE  /\ Len(s) \in Nat /\ DOMAIN s = 1 .. Len(s) /\ h[1] = Start
         /\ ~Awaiting(s, 1)
         /\ Writes(id) = {n \in DOMAIN s : s[n].op = "submit"}
         /\ (\E n \in DOMAIN s : s[n].else \in Flags) => \A n \in DOMAIN s : s[n].else # "return"
<1>1. Len(s) \in Nat /\ DOMAIN s = 1 .. Len(s) /\ h[1] = Start /\ Writes(id) = {n \in DOMAIN s : s[n].op = "submit"}
  BY LineFacts DEF Scenario
<1>2. ~Awaiting(s, 1)
  <2>1. s # <<>> => s[1].op \notin Awaits
    BY HeldTraces DEF Scenario
  <2>2. 1 \in DOMAIN s => s # <<>>
    OBVIOUS
  <2> QED BY <2>1, <2>2 DEF Awaiting
<1>3. \/ \A n \in DOMAIN s : s[n].else \notin Flags
      \/ \A n \in DOMAIN s : s[n].else # "return"
  <2>1. id \in {"S1", "S2", "S3", "S4", "S5", "S6", "S7"} \/ id = "S8" \/ id \in NeedsSys
    BY DEF Scenario, scenarios, NeedsSys
  <2>2. CASE id = "S8"
    <3>1. s = <<>>
      BY <2>2 DEF Scenario, scenarios
    <3> QED BY <3>1
  <2>3. CASE id \in {"S1", "S2", "S3", "S4", "S5", "S6", "S7"}
    BY <2>3, PlainScenarios DEF Scenario, Without
  <2>4. CASE id \in NeedsSys
    BY <2>4, FlagScenarios DEF Scenario, Without
  <2> QED BY <2>1, <2>2, <2>3, <2>4
<1> QED BY <1>1, <1>2, <1>3

\* A write.
LEMMA WriteFacts ==
  ASSUME NEW id, NEW s, NEW h, Scenario(id, s, h), NEW n \in DOMAIN s, s[n].op = "submit"
  PROVE  /\ n \in Nat /\ n + 1 \in DOMAIN s /\ Awaited(id, s[n], s[n + 1], h[n])
         /\ h[n + 1] = After(h[n], s[n].w, Granted(s, n))
         /\ s[n + 1].op \in {"changed", "same"} => n > 1 /\ s[n - 1].op = "hash"
         /\ s[n + 1].op = "head" => n + 2 \in DOMAIN s /\ Untouched(s[n], s[n + 2], h[n])
         /\ Awaiting(s, n + 1) /\ At(s, n + 1) = n /\ ~Awaiting(s, n) /\ At(s, n) = n
         /\ s[n].obj = s[n].w.obj /\ s[n].w.obj \in Objects
<1>1. WriteRow(id, s, h, n) /\ n \in Nat
  BY LineFacts DEF Scenario
<1>2. n + 1 \in DOMAIN s /\ Awaited(id, s[n], s[n + 1], h[n])
  BY <1>1 DEF WriteRow
<1>3. s[n + 1].op \in Awaits /\ s[n].obj = s[n].w.obj /\ s[n].w.obj \in Objects
  BY <1>2 DEF Awaited
<1>4. "submit" \notin Awaits
  BY DEF Awaits
<1>5. Awaiting(s, n + 1) /\ ~Awaiting(s, n) /\ At(s, n) = n
  BY <1>2, <1>3, <1>4 DEF Awaiting, At
<1>6. (n + 1) - 1 = n
  BY <1>1
<1> QED BY <1>1, <1>2, <1>3, <1>5, <1>6 DEF WriteRow, Granted, At

\* Any other line.
LEMMA WaitFacts ==
  ASSUME NEW id, NEW s, NEW h, Scenario(id, s, h), NEW n \in DOMAIN s, s[n].op # "submit"
  PROVE  /\ n \in Nat /\ h[n + 1] = h[n] /\ s[n].else \in Ways(s[n].op)
         /\ s[n].op \in Awaits \cup {"hash", "provision"} /\ (Awaiting(s, n) <=> s[n].op \in Awaits)
         /\ s[n].op = "hash" => /\ s[n].obj \in Policies /\ h[n].barred = "no"
                                /\ n + 1 \in DOMAIN s /\ s[n + 1].op = "submit" /\ s[n + 1].obj = s[n].obj
                                /\ n + 2 \in DOMAIN s /\ s[n + 2].op \in {"changed", "same"}
         /\ s[n].else = "return" => n = Len(s)
         /\ s[n].op # "head" => ~Awaiting(s, n + 1) /\ At(s, n + 1) = n + 1
<1>1. WaitRow(s, h, n) /\ n \in Nat
  BY LineFacts DEF Scenario
<1>2. Awaiting(s, n) <=> s[n].op \in Awaits
  BY DEF Awaiting
<1>3. ASSUME s[n].op # "head" PROVE ~Awaiting(s, n + 1) /\ At(s, n + 1) = n + 1
  <2>1. SUFFICES ASSUME Awaiting(s, n + 1) PROVE FALSE
    BY DEF At
  <2>2. n + 1 \in DOMAIN s /\ s[n + 1].op \in Awaits /\ s[n + 1].op # "submit"
    BY <2>1 DEF Awaiting, Awaits
  <2>3. WaitRow(s, h, n + 1)
    BY <2>2, LineFacts DEF Scenario
  <2>4. (n + 1) - 1 = n
    BY <1>1
  <2> QED BY <1>3, <2>2, <2>3, <2>4 DEF WaitRow
<1> QED BY <1>1, <1>2, <1>3 DEF WaitRow

\* A wait for what became of the write at line m.
LEMMA AwaitFacts ==
  ASSUME NEW id, NEW s, NEW h, Scenario(id, s, h), NEW n, Awaiting(s, n), NEW m, m = At(s, n)
  PROVE  /\ n \in DOMAIN s /\ n \in Nat /\ s[n].op # "submit"
         /\ m \in DOMAIN s /\ m \in Nat /\ s[m].op = "submit"
         /\ h[n] = h[m + 1] /\ h[n + 1] = h[m + 1]
         /\ \/ n = m + 1 /\ (s[n].op = "present" => Granted(s, m))
            \/ /\ n = m + 2 /\ s[m + 1].op = "head" /\ s[n].op = "present" /\ n = Len(s)
               /\ Untouched(s[m], s[n], h[m])
         /\ s[n].op = "head" => n + 1 = m + 2 /\ Awaiting(s, n + 1) /\ At(s, n + 1) = m /\ s[n + 1].op = "present"
         /\ s[n].op # "head" => s[n].obj = s[m].w.obj
<1>1. n \in DOMAIN s /\ s[n].op \in Awaits /\ s[n].op # "submit"
  BY DEF Awaiting, Awaits
<1>2. WaitRow(s, h, n) /\ n \in Nat
  BY <1>1, LineFacts DEF Scenario
<1>3. n > 1 /\ (s[n - 1].op = "submit" \/ (s[n].op = "present" /\ s[n - 1].op = "head"))
  BY <1>1, <1>2 DEF WaitRow
<1>4. n - 1 \in DOMAIN s /\ n - 1 \in Nat /\ (n - 1) + 1 = n
  BY <1>1, <1>2, <1>3, ScenarioFacts
<1>5. CASE s[n - 1].op = "submit"
  <2>1. m = n - 1 /\ n = m + 1
    BY <1>4, <1>5 DEF At
  <2>2. Awaited(id, s[m], s[n], h[m]) /\ (s[m + 1].op = "head" => n + 1 \in DOMAIN s /\ Untouched(s[m], s[n + 1], h[m]))
    <3>1. m + 1 = n /\ m + 2 = n + 1
      BY <1>4, <2>1
    <3> QED BY <1>4, <1>5, <2>1, <3>1, WriteFacts
  <2>3. s[n].op = "head" => Awaiting(s, n + 1) /\ At(s, n + 1) = m /\ s[n + 1].op = "present"
    <3> SUFFICES ASSUME s[n].op = "head" PROVE Awaiting(s, n + 1) /\ At(s, n + 1) = m /\ s[n + 1].op = "present"
      OBVIOUS
    <3>1. n + 1 \in DOMAIN s /\ s[n + 1].op = "present"
      BY <2>1, <2>2 DEF Untouched
    <3>2. (n + 1) - 1 = n /\ (n + 1) - 2 = m
      BY <1>2, <2>1
    <3> QED BY <3>1, <3>2 DEF Awaiting, At, Awaits
  <2> QED BY <1>1, <1>2, <1>4, <1>5, <2>1, <2>2, <2>3 DEF WaitRow, Awaited, Granted, Grants
<1>6. CASE s[n - 1].op # "submit"
  <2>1. s[n].op = "present" /\ s[n - 1].op = "head"
    BY <1>3, <1>6
  <2>2. WaitRow(s, h, n - 1)
    BY <1>4, <1>6, LineFacts DEF Scenario
  <2>3. n - 1 > 1 /\ s[(n - 1) - 1].op = "submit"
    BY <2>1, <2>2 DEF WaitRow, Awaits
  <2>4. m = n - 2
    BY <1>6 DEF At
  <2>5. m \in Nat /\ m = (n - 1) - 1 /\ m + 1 = n - 1 /\ m + 2 = n
    BY <1>2, <2>3, <2>4
  <2>6. m \in DOMAIN s
    BY <1>1, <1>2, <2>3, <2>4, ScenarioFacts
  <2>7. Untouched(s[m], s[n], h[m]) /\ s[m].obj = s[m].w.obj
    BY <2>1, <2>3, <2>5, <2>6, WriteFacts
  <2>8. h[n] = h[n - 1] /\ h[n + 1] = h[n]
    BY <1>2, <1>4, <2>2 DEF WaitRow
  <2>9. n = Len(s)
    BY <1>2, <2>7 DEF WaitRow, Untouched
  <2> QED BY <1>1, <1>2, <2>1, <2>3, <2>5, <2>6, <2>7, <2>8, <2>9 DEF Untouched
<1> QED BY <1>5, <1>6

\* The write that is awaited.
LEMMA AwaitedFacts ==
  ASSUME NEW id, NEW s, NEW h, Scenario(id, s, h), NEW n, Awaiting(s, n), NEW m, m = At(s, n),
         NEW w, w = s[m].w, NEW old, old = h[m].st[w.obj]
  PROVE  /\ w.obj \in Objects /\ w.act \in {"post", "delete"} /\ (w.val = None <=> w.act = "delete")
         /\ Permits(h[m].st, h[m].ar, w) <=> Granted(s, m)
         /\ s[n].op = "present" /\ n = m + 1 =>
              w.act = "post" /\ old = None /\ (s[n].want = None \/ w.val.body = s[n].want)
         /\ s[n].op = "absent" => ~Granted(s, m) /\ w.act = "post" /\ old = None
         /\ s[n].op = "deleted" => Granted(s, m) /\ w.act = "delete" /\ old # None
         /\ s[n].op = "changed" => Granted(s, m) /\ w.act = "post" /\ old # None /\ w.val # old
         /\ s[n].op = "same" => ~Granted(s, m) /\ w.act = "post" /\ old # None
         /\ s[n].op = "head" => ~Granted(s, m)
         /\ n # m + 1 => /\ ~Granted(s, m) /\ s[n].else = "return" /\ s[n].want # None /\ old # None
                         /\ old.body = s[n].want /\ (w.act = "post" => w.val.body # s[n].want)
         /\ Situation(h[m])
<1>1. m \in DOMAIN s /\ s[m].op = "submit" /\ m \in Nat
  BY AwaitFacts
<1>2. Awaited(id, s[m], s[m + 1], h[m]) /\ s[m].obj = w.obj
  BY <1>1, WriteFacts
<1>3. Situation(h[m])
  BY <1>1, LineFacts DEF Scenario, Traces
<1>4. n = m + 1 \/ (s[m + 1].op = "head" /\ s[n].op = "present" /\ Untouched(s[m], s[n], h[m]))
  BY AwaitFacts
<1>5. CASE n = m + 1
  BY <1>2, <1>3, <1>5 DEF Awaited, Granted, Grants
<1>6. CASE n # m + 1
  <2>1. s[m + 1].op = "head" /\ s[n].op = "present" /\ Untouched(s[m], s[n], h[m])
    BY <1>4, <1>6
  <2> QED BY <1>2, <1>3, <1>6, <2>1 DEF Awaited, Granted, Grants, Untouched
<1> QED BY <1>5, <1>6

-----------------------------------------------------------------------------
(***************************************************************************)
(* What the harness reads, and what it makes of it.                        *)
(***************************************************************************)

\* Without an overlay GET /v1/object serves the store.
LEMMA ReadStore ==
  ASSUME NEW obj, Shown(obj) = {}
  PROVE  get_object(obj).value = store[obj] /\ (get_object(obj).confirmed <=> store[obj] # None)
BY DEF get_object

\* The overlay serves the only pending write, unconfirmed.
LEMMA ReadOverlay ==
  ASSUME DOMAIN pending = 1 .. 1
  PROVE  LET w == pending[1].w
         IN /\ pending[1].overlay = "kept" =>
                 /\ get_object(w.obj).value = (IF w.act = "delete" THEN store[w.obj] ELSE w.val)
                 /\ ~get_object(w.obj).confirmed
            /\ pending[1].overlay # "kept" => Shown(w.obj) = {}
<1> DEFINE w == pending[1].w
<1>1. \A n : n \in 1 .. 1 <=> n = 1
  OBVIOUS
<1>2. CASE pending[1].overlay = "kept"
  <2>1. Shown(w.obj) = {1}
    BY <1>1, <1>2 DEF Shown
  <2>2. Max({1}) = 1
    <3>1. \A x \in {1} : x = 1
      OBVIOUS
    <3>2. \E x \in {1} : \A y \in {1} : x >= y
      OBVIOUS
    <3> QED BY <3>1, <3>2 DEF Max
  <2>3. get_object(w.obj) = [value |-> IF w.act = "delete" THEN store[w.obj] ELSE w.val, confirmed |-> FALSE]
    BY <2>1, <2>2 DEF get_object
  <2> QED BY <1>2, <2>3
<1>3. CASE pending[1].overlay # "kept"
  BY <1>1, <1>3 DEF Shown
<1> QED BY <1>2, <1>3

LEMMA NothingPending == ASSUME NEW obj, pending = <<>> PROVE Shown(obj) = {}
BY DEF Shown

\* The chain is in situation x.
Like(x) == store = x.st /\ archive = x.ar

\* How the chain judges a write in situation x.
LEMMA Judging ==
  ASSUME NEW x, Like(x), attributed, NEW w, NEW n
  PROVE  Judged(w, n) <=> ((n \in faults) <=> ~Permits(x.st, x.ar, w))
BY DEF Judged, Allowed, Like

\* What a wait that passes has read.
LEMMA PassMeans ==
  ASSUME "Pass" \in Results
  PROVE  /\ Step.op = "present" => /\ Read.confirmed /\ (Step.want \in {None} \/ Read.value.body = Step.want)
         /\ Step.op = "absent" => /\ ~Read.confirmed
                                  /\ sub.state # "denied" => Read.value = None /\ sub.blocks >= FinalityBlocks
         /\ Step.op = "deleted" => sub.state # "denied" /\ Read.value = None
         /\ Step.op = "changed" => Read.confirmed /\ Read.value # mark
         /\ Step.op = "same" => sub.state = "denied" /\ Read.value = mark
         /\ (Step.op = "head" /\ sub.state # "denied") => sub.blocks >= FinalityBlocks
         /\ Step.else = "accepted" => sub.state # "denied"
<1>1. ~(Step.else = "accepted" /\ sub.state = "denied")
  BY DEF Results
<1>2. CASE Step.op = "present"
  BY <1>1, <1>2 DEF Results, settle_present
<1>3. CASE Step.op = "absent"
  BY <1>1, <1>3 DEF Results, settle_absent
<1>4. CASE Step.op = "deleted"
  BY <1>1, <1>4 DEF Results, wait_deleted
<1>5. CASE Step.op = "changed"
  BY <1>1, <1>5 DEF Results, wait_version_change
<1>6. CASE Step.op = "same"
  BY <1>1, <1>6 DEF Results, still_the_same
<1>7. CASE Step.op = "head"
  BY <1>1, <1>7 DEF Results, wait_for_head
<1> QED BY <1>1, <1>2, <1>3, <1>4, <1>5, <1>6, <1>7

\* A scenario that goes on, with its flags intact and no error swallowed, or that
\* returns Pass, has seen the wait pass.
LEMMA PassNeeded ==
  ASSUME NEW r \in Results, Step.op \in Awaits \ {"head"}, Step.else \in Ways(Step.op),
         \/ Returned(r) = "Pass"
         \/ Returned(r) = None /\ ~Flagged(r) /\ "swallowed" \notin Mishap(r)
  PROVE  r = "Pass"
<1>1. r \in {"Pass", "Fail", "Timeout", "Error"} /\ r # None
  BY ResultFacts, NoneAssumption
<1>2. None \notin {"Pass", "Fail", "Timeout", "Error"}
  BY NoneAssumption
<1>0. Step.op = "same" => Step.else = "flag"
  BY DEF Ways
<1>3. CASE Step.else \in {"timeout", "fail"}
  <2>1. Step.op = "changed"
    BY <1>3 DEF Awaits, Ways
  <2>2. r \in {"Pass", "Timeout", "Error"}
    BY <1>3, <2>1 DEF Results, wait_version_change
  <2>3. Returned(r) # "Pass"
    BY <1>2, <1>3 DEF Returned
  <2>4. r # "Error"
    BY <1>3, <2>3 DEF Mishap
  <2>5. r # "Timeout"
    BY <1>0, <1>2, <1>3, <2>3 DEF Returned
  <2> QED BY <2>2, <2>4, <2>5
<1>4. CASE Step.else = "return"
  BY <1>0, <1>1, <1>2, <1>4 DEF Returned
<1>5. CASE Step.else = "error"
  BY <1>0, <1>1, <1>2, <1>5 DEF Returned
<1>6. CASE Step.else \in {"flag", "accepted"}
  <2>1. Returned(r) # "Pass"
    BY <1>2, <1>6, <1>1 DEF Returned
  <2> QED BY <1>6, <2>1 DEF Flagged
<1>7. Step.else \in {"timeout", "fail", "return", "error", "flag", "accepted"}
  BY DEF Awaits, Ways
<1> QED BY <1>3, <1>4, <1>5, <1>6, <1>7

-----------------------------------------------------------------------------
(***************************************************************************)
(* A scenario passes only on an engine that judges every write correctly.  *)
(*                                                                         *)
(* As long as nothing went wrong that takes the verdict's worth, and no    *)
(* flag was lost, the writes before the one that is awaited were judged    *)
(* correctly and took effect, and what became of that one is known.        *)
(***************************************************************************)
Unspoiled == ~({"loose", "hidden"} \subseteq mishaps) /\ {"dropped", "lapsed", "swallowed"} \cap mishaps = {}

\* The value that a new version is compared with.
Marked(s, h, n) ==
  /\ (n \in DOMAIN s /\ s[n].op = "submit" /\ s[n + 1].op \in {"changed", "same"}) => mark = h[n].st[s[n].obj]
  /\ (Awaiting(s, n) /\ s[n].op \in {"changed", "same"}) => mark = h[n - 1].st[s[n].obj]

\* The write of line m is yet to be replayed; it was, without effect; with effect.
Queued(s, n, m) ==
  /\ Len(pending) = 1 /\ pending[1].w = s[m].w /\ pending[1].n = m
  /\ "hidden" \notin mishaps => pending[1].overlay = "kept"
  /\ "loose" \notin mishaps => sub.blocks <= pending[1].age /\ n = m + 1

Ignored(s, h, m) == Like(h[m]) /\ (m \in faults <=> Granted(s, m))

Applied(s, h, m) ==
  /\ store = [h[m].st EXCEPT ![s[m].w.obj] = s[m].w.val]
  /\ m \in faults <=> ~Granted(s, m)
  /\ Granted(s, m) => Like(h[m + 1])

Known(s, h, n, m) ==
  \/ sub.state = "denied" /\ pending = <<>> /\ Ignored(s, h, m)
  \/ sub.state = "accepted" /\ Queued(s, n, m) /\ Like(h[m])
  \/ sub.state = "accepted" /\ pending = <<>> /\ (Ignored(s, h, m) \/ Applied(s, h, m))

OnCourse(s, h, n, m) ==
  /\ attributed /\ Marked(s, h, n) /\ \A k \in faults : m <= k
  /\ ~Awaiting(s, n) => Like(h[n]) /\ pending = <<>>
  /\ Awaiting(s, n) => Known(s, h, n, m)

PassInv(s, h, n, m) ==
  /\ (outcome = None /\ Unspoiled /\ good) => OnCourse(s, h, n, m)
  /\ outcome = "Pass" /\ Unspoiled => faults = {}
  /\ outcome = None /\ ~good => \E k \in DOMAIN s : s[k].else \in Flags

\* The harness is at line n of a scenario, with a write at m.
Position(id, s, h, n, m) == Scenario(id, s, h) /\ scen.id = id /\ line = n /\ m = At(s, n)

LEMMA PositionFacts ==
  ASSUME LiveTyped, NEW id, NEW s, NEW h, NEW n, NEW m, Position(id, s, h, n, m)
  PROVE  /\ Script = s /\ (n \in DOMAIN s => Step = s[n]) /\ faults \subseteq Writes(id)
         /\ n \in 1 .. Len(s) + 1 /\ n \in Nat
         /\ pending \in Seq(Entries(id))
BY ScenarioFacts DEF Position, Scenario, Script, Step, LiveTyped

\* A wait that passes tells that the write took effect, or was to be denied and did
\* not.
LEMMA Certain ==
  ASSUME LiveTyped, NEW id, NEW s, NEW h, NEW n, NEW m, Position(id, s, h, n, m),
         Awaiting(s, n), s[n].op # "head", Unspoiled, OnCourse(s, h, n, m), "Pass" \in Results
  PROVE  m \notin faults /\ pending = <<>> /\ Like(h[m + 1])
<1> DEFINE w == s[m].w
           old == h[m].st[w.obj]
           l == s[n]
<1>1. Step = l /\ n \in DOMAIN s /\ l.obj = w.obj /\ pending \in Seq(Entries(id))
  BY PositionFacts, AwaitFacts DEF Position, Awaiting
<1>2. l.op \in Awaits /\ (n = m + 1 \/ l.op = "present") /\ m \in Nat /\ n \in Nat
  BY AwaitFacts DEF Position, Awaiting
<1>3. h[m + 1] = After(h[m], w, Granted(s, m))
  BY AwaitFacts, WriteFacts DEF Position
<1>4. /\ w.obj \in Objects /\ w.act \in {"post", "delete"} /\ (w.val = None <=> w.act = "delete")
      /\ l.op = "present" /\ n = m + 1 => w.act = "post" /\ old = None /\ (l.want = None \/ w.val.body = l.want)
      /\ l.op = "absent" => ~Granted(s, m) /\ w.act = "post" /\ old = None
      /\ l.op = "deleted" => Granted(s, m) /\ w.act = "delete" /\ old # None
      /\ l.op = "changed" => Granted(s, m) /\ w.act = "post" /\ old # None /\ w.val # old
      /\ l.op = "same" => ~Granted(s, m) /\ w.act = "post" /\ old # None
      /\ n # m + 1 => /\ ~Granted(s, m) /\ l.want # None /\ old # None
                      /\ old.body = l.want /\ (w.act = "post" => w.val.body # l.want)
      /\ Situation(h[m])
  BY AwaitedFacts DEF Position
<1>5. l.op = "present" /\ n = m + 1 => Granted(s, m)
  BY AwaitFacts DEF Position
<1>6. /\ l.op = "present" => /\ Read.confirmed /\ (l.want \in {None} \/ Read.value.body = l.want)
      /\ l.op = "absent" => /\ ~Read.confirmed
                            /\ sub.state # "denied" => Read.value = None /\ sub.blocks >= FinalityBlocks
      /\ l.op = "deleted" => sub.state # "denied" /\ Read.value = None
      /\ l.op = "changed" => Read.confirmed /\ Read.value # mark
      /\ l.op = "same" => sub.state = "denied" /\ Read.value = mark
  BY <1>1, PassMeans
<1>7. l.op \in {"changed", "same"} => mark = old
  <2>1. SUFFICES ASSUME l.op \in {"changed", "same"} PROVE mark = old
    OBVIOUS
  <2>2. n - 1 = m
    BY <1>2, <2>1
  <2> QED BY <1>1, <2>1, <2>2 DEF OnCourse, Marked
<1>8. Read = get_object(w.obj)
  BY <1>1 DEF Read
<1>9. Known(s, h, n, m)
  BY DEF OnCourse
<1>10. ~Granted(s, m) => h[m + 1].st = h[m].st /\ h[m + 1].ar = h[m].ar
  BY <1>3 DEF After, Barred
<1>11. l.op \in {"present", "absent", "deleted", "changed", "same"}
  BY <1>2 DEF Awaits
<1> HIDE DEF w, old, l
\* Nothing is pending: the store tells.
<1>12. ASSUME pending = <<>>, Ignored(s, h, m) PROVE m \notin faults /\ pending = <<>> /\ Like(h[m + 1])
  <2>1. Read.value = store[w.obj] /\ (Read.confirmed <=> store[w.obj] # None)
    BY <1>8, <1>12, NothingPending, ReadStore
  <2>2. store[w.obj] = old
    BY <1>12 DEF Ignored, Like, old
  <2>3. ~Granted(s, m)
    BY <1>4, <1>5, <1>6, <1>7, <1>11, <2>1, <2>2
  <2> QED BY <1>10, <1>12, <2>3 DEF Ignored, Like
<1>13. ASSUME pending = <<>>, Applied(s, h, m), sub.state = "accepted" PROVE m \notin faults /\ pending = <<>> /\ Like(h[m + 1])
  <2>1. Read.value = store[w.obj] /\ (Read.confirmed <=> store[w.obj] # None)
    BY <1>8, <1>13, NothingPending, ReadStore
  <2>2. h[m].st = [o \in Objects |-> h[m].st[o]]
    BY <1>4 DEF Situation
  <2>3. store[w.obj] = w.val
    BY <1>4, <1>13, <2>2 DEF Applied, w
  <2>4. Granted(s, m)
    <3>1. CASE n # m + 1
      <4>1. l.op = "present"
        BY <1>2, <3>1
      <4>2. w.act = "post"
        BY <1>4, <1>6, <2>1, <2>3, <4>1
      <4> QED BY <1>4, <1>6, <2>1, <2>3, <3>1, <4>1, <4>2
    <3>2. CASE n = m + 1
      BY <1>4, <1>5, <1>6, <1>11, <1>13, <2>1, <2>3, <3>2
    <3> QED BY <3>1, <3>2
  <2> QED BY <1>13, <2>4 DEF Applied
\* A write that is pending shows as such, or its block is not yet final.
<1>14. ASSUME Queued(s, n, m), Like(h[m]), sub.state = "accepted" PROVE FALSE
  <2>1. Len(pending) = 1 /\ pending[1].w = w /\ DOMAIN pending = 1 .. 1
    BY <1>1, <1>14 DEF Queued, w
  <2>2. pending[1] \in Entries(id)
    BY <1>1, <2>1
  <2>3. pending[1].age < FinalityBlocks /\ pending[1].age \in Nat
    BY <2>2, LiveTestAssumption DEF Entries
  <2>4. store[w.obj] = old
    BY <1>14 DEF Like, old
  <2>5. CASE pending[1].overlay = "kept"
    <3>1. ~Read.confirmed /\ Read.value = (IF w.act = "delete" THEN store[w.obj] ELSE w.val)
      BY <1>8, <2>1, <2>5, ReadOverlay
    <3> QED BY <1>4, <1>6, <1>11, <1>14, <2>4, <3>1
  <2>6. CASE pending[1].overlay # "kept"
    <3>1. Read.value = old /\ (Read.confirmed <=> old # None)
      BY <1>8, <2>1, <2>4, <2>6, ReadOverlay, ReadStore
    <3>2. "hidden" \in mishaps /\ "loose" \notin mishaps
      BY <1>14, <2>6 DEF Queued, Unspoiled
    <3>3. sub.blocks <= pending[1].age /\ n = m + 1
      BY <1>14, <3>2 DEF Queued
    <3>4. sub.blocks \in Nat /\ FinalityBlocks \in Nat
      BY LiveTestAssumption DEF LiveTyped
    <3>5. ~(sub.blocks >= FinalityBlocks)
      BY <2>3, <3>3, <3>4
    <3> QED BY <1>4, <1>6, <1>7, <1>11, <1>14, <3>1, <3>3, <3>5
  <2> QED BY <2>5, <2>6
<1> QED BY <1>9, <1>12, <1>13, <1>14 DEF Known

\* What goes wrong stays in the history, and the scenario and the faults are given.
LEMMA HistoryGrows ==
  ASSUME [LiveNext]_LiveVars
  PROVE  scen' = scen /\ faults' = faults /\ mishaps \subseteq mishaps'
<1>1. scen' = scen /\ faults' = faults
  BY DEF LiveNext, LiveVars, harness, chain, Skip, ReadHead, Post, Settle, Verdict, Sweep, Replay, Block, Hide, Drop, Lapse
<1>2. mishaps \subseteq mishaps'
  <2>1. CASE Skip \/ ReadHead \/ Verdict \/ Replay \/ Block \/ UNCHANGED LiveVars
    BY <2>1 DEF Skip, ReadHead, Verdict, Replay, Block, LiveVars
  <2>2. CASE Post
    BY <2>2 DEF Post
  <2>3. CASE Settle
    BY <2>3 DEF Settle
  <2>4. CASE Sweep
    BY <2>4 DEF Sweep
  <2>5. CASE Hide \/ Drop \/ Lapse
    BY <2>5 DEF Hide, Drop, Lapse
  <2> QED BY <2>1, <2>2, <2>3, <2>4, <2>5 DEF LiveNext
<1> QED BY <1>1, <1>2

LEMMA SpoiledStays ==
  ASSUME [LiveNext]_LiveVars, Unspoiled'
  PROVE  Unspoiled
BY HistoryGrows DEF Unspoiled

\* An end other than Pass.
LEMMA PassEnd ==
  ASSUME NEW s, NEW h, NEW n, NEW m, NEW r \in {"Fail", "Timeout", "Skip", "Error"}, outcome' = r
  PROVE  PassInv(s, h, n, m)'
BY NoneAssumption DEF PassInv

LEMMA PassSettle ==
  ASSUME LiveTyped, NEW id, NEW s, NEW h, NEW n, NEW m, Position(id, s, h, n, m), PassInv(s, h, n, m),
         Settle, NEW k, NEW j, line' = k, j = At(s, k)
  PROVE  PassInv(s, h, k, j)'
<1>1. /\ Script = s /\ Step = s[n] /\ n \in DOMAIN s /\ n \in Nat /\ outcome = None
      /\ s[n].op # "submit" /\ faults \subseteq Writes(id) /\ DOMAIN s = 1 .. Len(s) /\ Len(s) \in Nat
  BY PositionFacts, ScenarioFacts DEF Settle, Going, Position
<1>2. PICK r \in Results :
        /\ mishaps' = mishaps \cup Mishap(r)
        /\ \/ Returned(r) # None /\ End(Returned(r))
           \/ /\ Returned(r) = None /\ Continue
              /\ good' = (good /\ ~Flagged(r))
              /\ mark' = IF Step.op = "hash" THEN Read.value ELSE mark
              /\ UNCHANGED sub
  BY DEF Settle
<1>3. UNCHANGED <<store, archive, pending, attributed, faults>>
  BY DEF Settle, chain
<1>4. mishaps \subseteq mishaps'
  BY <1>2
<1>5. /\ h[n + 1] = h[n] /\ s[n].else \in Ways(s[n].op) /\ s[n].op \in Awaits \cup {"hash", "provision"}
      /\ Awaiting(s, n) <=> s[n].op \in Awaits
      /\ s[n].else = "return" => n = Len(s)
      /\ s[n].op # "head" => ~Awaiting(s, n + 1) /\ At(s, n + 1) = n + 1
      /\ s[n].op = "hash" => s[n + 1].op = "submit" /\ s[n + 1].obj = s[n].obj
  BY <1>1, WaitFacts DEF Position
<1>6. Unspoiled' => Unspoiled /\ "swallowed" \notin Mishap(r)
  BY <1>2 DEF Unspoiled
<1>7. \A p \in faults : p \in DOMAIN s /\ s[p].op = "submit"
  BY <1>1, ScenarioFacts DEF Position
\* The scenario returns the result.
<1>8. ASSUME Returned(r) # None, End(Returned(r)) PROVE PassInv(s, h, k, j)'
  <2>1. outcome' = Returned(r) /\ outcome' # None
    BY <1>8 DEF End
  <2>2. SUFFICES ASSUME Returned(r) = "Pass", Unspoiled' PROVE faults = {}
    BY <1>3, <2>1 DEF PassInv
  <2>3. s[n].else = "return"
    <3>1. r = "Pass" \/ r # "Pass"
      OBVIOUS
    <3>2. s[n].else \in {"error", "accepted", "return", "flag", "timeout", "fail", "go"}
      BY <1>5 DEF Ways
    <3>3. s[n].op = "same" => s[n].else = "flag"
      BY <1>5 DEF Ways
    <3> QED BY <1>1, <2>2, <3>2, <3>3, NoneAssumption DEF Returned
  <2>4. s[n].op \in Awaits \ {"head"}
    BY <1>5, <2>3 DEF Ways, Awaits
  <2>5. r = "Pass"
    BY <1>1, <1>5, <2>2, <2>4, PassNeeded
  <2>6. good
    <3>1. \A p \in DOMAIN s : s[p].else \notin Flags
      BY <1>1, <2>3, ScenarioFacts DEF Position
    <3> QED BY <1>1, <3>1 DEF PassInv
  <2>7. OnCourse(s, h, n, m) /\ Unspoiled
    BY <1>1, <1>6, <2>2, <2>6 DEF PassInv
  <2>8. m \notin faults
    BY <1>5, <2>4, <2>5, <2>7, Certain
  <2>9. \A p \in faults : m <= p /\ p <= n
    BY <1>1, <1>5, <1>7, <2>3, <2>7 DEF OnCourse
  <2>10. m \in Nat /\ (n = m + 1 \/ (n = m + 2 /\ s[m + 1].op = "head"))
    BY <1>5, <2>4, AwaitFacts DEF Position
  <2>11. \A p \in faults : p = m \/ p = m + 1 \/ p = n
    BY <1>7, <1>1, <2>9, <2>10
  <2>12. \A p \in faults : p = m
    BY <1>1, <1>7, <2>10, <2>11
  <2> QED BY <2>8, <2>12
\* The scenario goes on.
<1>9. ASSUME Returned(r) = None, Continue, good' = (good /\ ~Flagged(r)), UNCHANGED sub,
             mark' = IF Step.op = "hash" THEN Read.value ELSE mark
      PROVE  PassInv(s, h, k, j)'
  <2>1. k = n + 1 /\ outcome' = None /\ outcome' # "Pass"
    BY <1>1, <1>9, NoneAssumption DEF Continue, Position
  <2>2. ~good' => \E p \in DOMAIN s : s[p].else \in Flags
    <3>1. Flagged(r) => s[n].else \in Flags
      BY <1>1 DEF Flagged, Flags
    <3> QED BY <1>1, <1>9, <3>1 DEF PassInv
  <2>3. SUFFICES ASSUME Unspoiled', good' PROVE OnCourse(s, h, k, j)'
    BY <2>1, <2>2 DEF PassInv
  <2>4. good /\ ~Flagged(r) /\ Unspoiled /\ "swallowed" \notin Mishap(r)
    BY <1>6, <1>9, <2>3
  <2>5. OnCourse(s, h, n, m)
    BY <1>1, <2>4 DEF PassInv
  \* It was not a wait for a write.
  <2>6. CASE ~Awaiting(s, n)
    <3>1. s[n].op \in {"hash", "provision"} /\ m = n /\ ~Awaiting(s, k) /\ j = k
      BY <1>5, <2>1, <2>6 DEF Awaits, At, Position
    <3>2. Like(h[n]) /\ pending = <<>>
      BY <2>5, <2>6 DEF OnCourse
    <3>3. \A p \in faults : j <= p
      BY <1>1, <1>7, <2>1, <2>5, <3>1 DEF OnCourse
    <3>4. (k \in DOMAIN s /\ s[k].op = "submit" /\ s[k + 1].op \in {"changed", "same"}) => mark' = h[k].st[s[k].obj]
      <4> SUFFICES ASSUME k \in DOMAIN s, s[k].op = "submit", s[k + 1].op \in {"changed", "same"}
                   PROVE  mark' = h[k].st[s[k].obj]
        OBVIOUS
      <4>1. s[k - 1].op = "hash" /\ k - 1 = n
        BY <1>1, <2>1, WriteFacts DEF Position
      <4>2. mark' = Read.value /\ s[k].obj = s[n].obj
        BY <1>1, <1>5, <1>9, <2>1, <4>1
      <4>3. Read.value = store[s[n].obj]
        BY <1>1, <3>2, NothingPending, ReadStore DEF Read
      <4> QED BY <1>5, <2>1, <3>2, <4>2, <4>3 DEF Like
    <3>5. Like(h[k])'
      BY <1>3, <1>5, <2>1, <3>2 DEF Like
    <3> QED BY <1>3, <2>5, <3>1, <3>2, <3>3, <3>4, <3>5 DEF OnCourse, Marked
  \* It was a wait for the head: the write is still to be looked for.
  <2>7. CASE Awaiting(s, n) /\ s[n].op = "head"
    <3>1. Awaiting(s, k) /\ j = m /\ s[k].op = "present" /\ k = m + 2 /\ m \in Nat /\ n = m + 1
      <4>1. /\ n + 1 = m + 2 /\ Awaiting(s, n + 1) /\ At(s, n + 1) = m /\ s[n + 1].op = "present"
            /\ m \in Nat /\ n \in Nat
        BY <2>7, AwaitFacts DEF Position
      <4>2. n = m + 1
        BY <4>1
      <4> QED BY <2>1, <4>1, <4>2
    <3>2. Marked(s, h, k)'
      BY <3>1 DEF Marked, Awaiting, Awaits
    <3>3. Known(s, h, n, m)
      BY <2>5, <2>7 DEF OnCourse
    <3>4. sub.state = "accepted" /\ Queued(s, n, m) => Queued(s, k, m)'
      <4> SUFFICES ASSUME sub.state = "accepted", Queued(s, n, m) PROVE Queued(s, k, m)'
        OBVIOUS
      <4>1. "hidden" \notin mishaps' => pending'[1].overlay = "kept"
        BY <1>3, <1>4 DEF Queued
      <4>2. "loose" \in mishaps'
        <5>1. SUFFICES ASSUME "loose" \notin mishaps' PROVE FALSE
          OBVIOUS
        <5>2. r = "Pass" \/ r = "Timeout"
          <6>1. Step.else = "go"
            BY <1>1, <1>5, <2>7 DEF Ways
          <6> QED BY <1>1, <2>7, <6>1 DEF Results, wait_for_head
        <5>3. r = "Pass"
          BY <1>1, <1>2, <2>7, <5>1, <5>2 DEF Mishap
        <5>4. sub.blocks >= FinalityBlocks
          BY <1>1, <2>7, <5>3, PassMeans
        <5>5. sub.blocks <= pending[1].age /\ Len(pending) = 1
          BY <1>4, <5>1 DEF Queued
        <5>6. pending[1] \in Entries(id)
          <6>1. pending \in Seq(Entries(id))
            BY PositionFacts
          <6> QED BY <5>5, <6>1
        <5> QED BY <5>4, <5>5, <5>6, LiveTestAssumption DEF Entries, LiveTyped
      <4> QED BY <1>3, <4>1, <4>2 DEF Queued
    <3>5. Known(s, h, k, m)'
      BY <1>3, <1>9, <3>3, <3>4 DEF Known, Ignored, Applied, Like
    <3> QED BY <1>3, <2>5, <3>1, <3>2, <3>5 DEF OnCourse
  \* It was the wait for the write.
  <2>8. CASE Awaiting(s, n) /\ s[n].op # "head"
    <3>1. r = "Pass"
      BY <1>1, <1>5, <1>9, <2>4, <2>8, PassNeeded
    <3>2. m \notin faults /\ pending = <<>> /\ Like(h[m + 1])
      BY <2>4, <2>5, <2>8, <3>1, Certain
    <3>3. ~Awaiting(s, k) /\ j = k /\ h[k] = h[m + 1]
      BY <1>5, <2>1, <2>8, AwaitFacts DEF Position
    <3>4. m \in Nat /\ (n = m + 1 \/ (n = m + 2 /\ s[m + 1].op = "head"))
      BY <2>8, AwaitFacts DEF Position
    <3>5. \A p \in faults : k <= p
      <4> SUFFICES ASSUME NEW p \in faults PROVE k <= p
        OBVIOUS
      <4>1. m <= p /\ p # m /\ p # n /\ p \in Nat /\ s[p].op = "submit"
        BY <1>1, <1>7, <2>5, <3>2 DEF OnCourse
      <4>2. p # m + 1 \/ n = m + 1
        BY <3>4, <4>1
      <4> QED BY <1>1, <2>1, <3>4, <4>1, <4>2
    <3>6. ~(k \in DOMAIN s /\ s[k].op = "submit" /\ s[k + 1].op \in {"changed", "same"})
      <4> SUFFICES ASSUME k \in DOMAIN s, s[k].op = "submit", s[k + 1].op \in {"changed", "same"} PROVE FALSE
        OBVIOUS
      <4>1. s[k - 1].op = "hash" /\ k - 1 = n
        BY <1>1, <2>1, WriteFacts DEF Position
      <4> QED BY <1>5, <2>8, <4>1 DEF Awaits
    <3>7. Like(h[k])'
      BY <1>3, <3>2, <3>3 DEF Like
    <3> QED BY <1>3, <2>5, <3>2, <3>3, <3>5, <3>6, <3>7 DEF OnCourse, Marked
  <2> QED BY <2>6, <2>7, <2>8
<1> QED BY <1>2, <1>8, <1>9

LEMMA PassPost ==
  ASSUME LiveTyped, NEW id, NEW s, NEW h, NEW n, NEW m, Position(id, s, h, n, m), PassInv(s, h, n, m),
         Post, NEW k, NEW j, line' = k, j = At(s, k)
  PROVE  PassInv(s, h, k, j)'
<1>1. /\ Script = s /\ Step = s[n] /\ n \in DOMAIN s /\ n \in Nat /\ outcome = None /\ s[n].op = "submit"
  BY PositionFacts, ScenarioFacts DEF Post, Going, Position
<1>2. /\ n + 1 \in DOMAIN s /\ Awaited(id, s[n], s[n + 1], h[n])
      /\ Awaiting(s, n + 1) /\ At(s, n + 1) = n /\ ~Awaiting(s, n) /\ m = n
  BY <1>1, WriteFacts DEF Position
<1>3. UNCHANGED <<store, archive, attributed, faults>> /\ mishaps \subseteq mishaps'
  BY DEF Post
<1>4. s[n].else \in {"go", "fail", "error"}
  BY <1>2 DEF Awaited
\* The scenario stops.
<1>5. ASSUME NEW r \in {"Fail", "Error"}, End(r) PROVE PassInv(s, h, k, j)'
  BY <1>5, PassEnd DEF End
\* It goes on to the wait.
<1>6. ASSUME Continue, UNCHANGED <<mark, good>>,
             \/ /\ pending' = Append(pending, Entry(Step.w, line))
                /\ mishaps' = IF sub.blocks = 0 THEN mishaps ELSE mishaps \cup {"loose"}
                /\ sub' = [sub EXCEPT !.state = "accepted"]
             \/ /\ ~Judged(Step.w, line) /\ UNCHANGED pending
                /\ sub' = [sub EXCEPT !.state = "denied"]
      PROVE  PassInv(s, h, k, j)'
  <2>1. k = n + 1 /\ j = n /\ outcome' = None /\ outcome' # "Pass" /\ Awaiting(s, k)
    BY <1>1, <1>2, <1>6, NoneAssumption DEF Continue, Position
  <2>2. SUFFICES ASSUME Unspoiled', good' PROVE OnCourse(s, h, k, j)'
    BY <1>1, <1>6, <2>1 DEF PassInv
  <2>3. Unspoiled
    BY <1>3, <2>2 DEF Unspoiled
  <2>4. OnCourse(s, h, n, m)
    BY <1>1, <1>6, <2>2, <2>3 DEF PassInv
  <2>5. Like(h[n]) /\ pending = <<>> /\ attributed /\ \A p \in faults : n <= p
    BY <1>2, <2>4 DEF OnCourse
  <2>6. Marked(s, h, k)'
    <3>1. s[k].op # "submit"
      BY <2>1 DEF Awaiting, Awaits
    <3>2. s[k].op \in {"changed", "same"} => s[k].obj = s[n].obj /\ k - 1 = n
      BY <1>1, <1>2, <2>1 DEF Awaited
    <3>3. s[k].op \in {"changed", "same"} => mark = h[n].st[s[n].obj]
      BY <1>1, <1>2, <2>1, <2>4 DEF OnCourse, Marked
    <3> QED BY <1>6, <3>1, <3>2, <3>3 DEF Marked
  <2>7. Like(h[n])'
    BY <1>3, <2>5 DEF Like
  <2>8. Known(s, h, k, j)'
    <3>1. CASE /\ pending' = Append(pending, Entry(Step.w, line))
               /\ mishaps' = IF sub.blocks = 0 THEN mishaps ELSE mishaps \cup {"loose"}
               /\ sub' = [sub EXCEPT !.state = "accepted"]
      <4>1. pending' = <<Entry(s[n].w, n)>>
        BY <1>1, <2>5, <3>1 DEF Position
      <4>2. sub'.state = "accepted" /\ sub'.blocks = sub.blocks
        BY <3>1 DEF LiveTyped
      <4>3. "loose" \notin mishaps' => sub.blocks = 0
        BY <3>1
      <4>4. Entry(s[n].w, n).w = s[n].w /\ Entry(s[n].w, n).n = n /\ Entry(s[n].w, n).age = 0 /\ Entry(s[n].w, n).overlay = "kept"
        BY DEF Entry
      <4>5. Len(pending') = 1 /\ pending'[1] = Entry(s[n].w, n)
        BY <4>1
      <4>6. Queued(s, k, j)'
        BY <2>1, <4>2, <4>3, <4>4, <4>5 DEF Queued
      <4> QED BY <2>1, <2>7, <4>2, <4>6 DEF Known
    <3>2. CASE /\ ~Judged(Step.w, line) /\ UNCHANGED pending
               /\ sub' = [sub EXCEPT !.state = "denied"]
      <4>1. Permits(h[n].st, h[n].ar, s[n].w) <=> Granted(s, n)
        BY <1>2 DEF Awaited, Granted
      <4>2. n \in faults <=> Granted(s, n)
        BY <1>1, <2>5, <3>2, <4>1, Judging DEF Position
      <4>3. sub'.state = "denied"
        BY <3>2 DEF LiveTyped
      <4>4. Ignored(s, h, j)'
        BY <1>3, <2>1, <2>7, <4>2 DEF Ignored
      <4> QED BY <2>5, <3>2, <4>3, <4>4 DEF Known
    <3> QED BY <1>6, <3>1, <3>2
  <2> QED BY <1>3, <2>1, <2>5, <2>6, <2>8 DEF OnCourse
<1>7. CASE /\ pending' = Append(pending, Entry(Step.w, line))
           /\ mishaps' = IF sub.blocks = 0 THEN mishaps ELSE mishaps \cup {"loose"}
           /\ policies' = Recorded
           /\ sub' = [sub EXCEPT !.state = "accepted"] /\ Continue /\ UNCHANGED <<mark, good>>
  BY <1>6, <1>7
<1>8. CASE /\ ~Judged(Step.w, line)
           /\ policies' = Recorded
           /\ CASE Step.else = "go" -> sub' = [sub EXCEPT !.state = "denied"] /\ Continue /\ UNCHANGED <<mark, good>>
                [] Step.else = "fail" -> End("Fail")
                [] Step.else = "error" -> End("Error")
           /\ UNCHANGED <<pending, mishaps>>
  <2>1. CASE s[n].else = "go"
    BY <1>1, <1>6, <1>8, <2>1
  <2>2. CASE s[n].else = "fail"
    <3>1. End("Fail")
      BY <1>1, <1>8, <2>2
    <3> QED BY <1>5, <3>1
  <2>3. CASE s[n].else = "error"
    <3>1. End("Error")
      BY <1>1, <1>8, <2>3
    <3> QED BY <1>5, <3>1
  <2> QED BY <1>4, <2>1, <2>2, <2>3
<1>9. CASE End("Error")
  BY <1>5, <1>9
<1> QED BY <1>7, <1>8, <1>9 DEF Post

\* The replay of the awaited write.
LEMMA PassReplay ==
  ASSUME LiveTyped, NEW id, NEW s, NEW h, NEW n, NEW m, Position(id, s, h, n, m), PassInv(s, h, n, m), Replay
  PROVE  PassInv(s, h, n, m)'
<1>1. UNCHANGED <<scen, line, sub, mark, good, outcome, attributed, faults, mishaps>> /\ pending # <<>>
      /\ Apply(Head(pending)) /\ pending' = Tail(pending)
  BY DEF Replay, harness
<1>2. SUFFICES ASSUME outcome = None, Unspoiled, good, OnCourse(s, h, n, m) PROVE OnCourse(s, h, n, m)'
  BY <1>1 DEF PassInv, Unspoiled
<1>3. Awaiting(s, n) /\ Queued(s, n, m) /\ Like(h[m]) /\ sub.state = "accepted" /\ attributed
  BY <1>1, <1>2 DEF OnCourse, Known
<1>4. pending \in Seq(Entries(id)) /\ Len(pending) = 1
  BY <1>3, PositionFacts DEF Queued
<1>5. pending' = <<>> /\ Head(pending).w = s[m].w /\ Head(pending).n = m
  BY <1>1, <1>3, <1>4 DEF Queued
<1> DEFINE w == s[m].w
<1>6. /\ m \in DOMAIN s /\ h[m + 1] = After(h[m], w, Granted(s, m)) /\ Awaited(id, s[m], s[m + 1], h[m])
      /\ s[m].obj = w.obj
  BY <1>3, AwaitFacts, WriteFacts DEF Position
<1>7. Permits(h[m].st, h[m].ar, w) <=> Granted(s, m)
  BY <1>6 DEF Awaited, Granted
<1>8. Judged(w, m) <=> ((m \in faults) <=> ~Granted(s, m))
  BY <1>3, <1>7, Judging
<1>9. CASE ~Judged(w, m)
  <2>1. UNCHANGED <<store, archive>>
    BY <1>1, <1>5, <1>9 DEF Apply
  <2>2. Ignored(s, h, m)'
    BY <1>1, <1>3, <1>8, <1>9, <2>1 DEF Ignored, Like
  <2> QED BY <1>1, <1>2, <1>3, <1>5, <2>2 DEF OnCourse, Known, Marked
<1>10. CASE Judged(w, m)
  <2>1. /\ store' = [h[m].st EXCEPT ![w.obj] = w.val]
        /\ archive' = IF w.obj = "A" /\ w.act = "post" THEN h[m].ar \cup {w.val} ELSE h[m].ar
    BY <1>1, <1>3, <1>5, <1>10 DEF Apply, Like
  <2>2. w.obj = "A" => w.act = "post"
    BY <1>6 DEF Awaited, Sound, Policies
  <2>3. Granted(s, m) => Like(h[m + 1])'
    <3>1. SUFFICES ASSUME Granted(s, m) PROVE Like(h[m + 1])'
      OBVIOUS
    <3>2. h[m + 1] = Given(h[m], w.obj, w.val)
      BY <1>6, <3>1 DEF After
    <3>3. h[m + 1].st = [h[m].st EXCEPT ![w.obj] = w.val]
          /\ h[m + 1].ar = IF w.obj = "A" THEN h[m].ar \cup {w.val} ELSE h[m].ar
      BY <3>2 DEF Given
    <3> QED BY <2>1, <2>2, <3>3 DEF Like
  <2>4. Applied(s, h, m)'
    BY <1>1, <1>8, <1>10, <2>1, <2>3 DEF Applied
  <2> QED BY <1>1, <1>2, <1>3, <1>5, <2>4 DEF OnCourse, Known, Marked
<1> QED BY <1>9, <1>10

\* Blocks pass.
LEMMA PassBlock ==
  ASSUME LiveTyped, NEW id, NEW s, NEW h, NEW n, NEW m, Position(id, s, h, n, m), PassInv(s, h, n, m), Block
  PROVE  PassInv(s, h, n, m)'
<1>1. /\ UNCHANGED <<line, mark, good, outcome, store, archive, attributed, faults, mishaps>>
      /\ pending' = [p \in DOMAIN pending |-> [pending[p] EXCEPT !.age = @ + 1]] /\ sub' = Passed(sub)
  BY DEF Block
<1>2. SUFFICES ASSUME outcome = None, Unspoiled, good, OnCourse(s, h, n, m) PROVE OnCourse(s, h, n, m)'
  BY <1>1 DEF PassInv, Unspoiled
<1>3. pending \in Seq(Entries(id)) /\ DOMAIN pending = 1 .. Len(pending) /\ Len(pending) \in Nat
  <2>1. pending \in Seq(Entries(id))
    BY PositionFacts
  <2> QED BY <2>1
<1>4. pending = <<>> => pending' = <<>>
  BY <1>1
<1>5. sub'.state = sub.state /\ sub'.blocks <= sub.blocks + 1
  BY <1>1, LiveTestAssumption DEF Passed, LiveTyped
<1>6. Queued(s, n, m) => Queued(s, n, m)'
  <2>1. SUFFICES ASSUME Queued(s, n, m) PROVE Queued(s, n, m)'
    OBVIOUS
  <2>2. Len(pending) = 1 /\ DOMAIN pending = 1 .. 1 /\ pending[1] \in Entries(id)
    <3>1. Len(pending) = 1
      BY <2>1 DEF Queued
    <3>2. DOMAIN pending = 1 .. 1
      BY <1>3, <3>1
    <3> QED BY <1>3, <3>1, <3>2
  <2>3. pending' = [p \in 1 .. 1 |-> [pending[p] EXCEPT !.age = @ + 1]]
    BY <1>1, <2>2
  <2>4. pending'[1] = [pending[1] EXCEPT !.age = @ + 1] /\ Len(pending') = 1
    <3>1. pending'[1] = [pending[1] EXCEPT !.age = @ + 1]
      BY <2>3
    <3>5. Len(pending') = 1
      BY <2>3
    <3> QED BY <3>1, <3>5
  <2>5. /\ pending'[1].w = pending[1].w /\ pending'[1].n = pending[1].n /\ pending'[1].overlay = pending[1].overlay
        /\ pending'[1].age = pending[1].age + 1 /\ pending[1].age \in Nat
    BY <2>2, <2>4, LiveTestAssumption DEF Entries
  <2>6. sub.blocks <= pending[1].age => sub'.blocks <= pending'[1].age
    <3>1. sub.blocks \in Nat /\ sub'.blocks \in Nat
      BY <1>1, LiveTestAssumption DEF Passed, LiveTyped
    <3> QED BY <1>5, <2>5, <3>1
  <2> QED BY <1>1, <2>1, <2>4, <2>5, <2>6 DEF Queued
<1>7. Known(s, h, n, m) => Known(s, h, n, m)'
  BY <1>1, <1>4, <1>5, <1>6 DEF Known, Ignored, Applied, Like
<1> QED BY <1>1, <1>2, <1>4, <1>7 DEF OnCourse, Marked, Like

\* The overlay is lost.
LEMMA PassHide ==
  ASSUME LiveTyped, NEW id, NEW s, NEW h, NEW n, NEW m, Position(id, s, h, n, m), PassInv(s, h, n, m), Hide
  PROVE  PassInv(s, h, n, m)'
<1>1. /\ UNCHANGED <<line, sub, mark, good, outcome, store, archive, attributed, faults>>
      /\ pending' = [p \in DOMAIN pending |-> [pending[p] EXCEPT !.overlay = "lost"]]
      /\ mishaps' = mishaps \cup {"hidden"}
  BY DEF Hide, harness
<1>2. SUFFICES ASSUME outcome = None, Unspoiled', good, OnCourse(s, h, n, m) PROVE OnCourse(s, h, n, m)'
  BY <1>1 DEF PassInv, Unspoiled
<1>3. pending \in Seq(Entries(id)) /\ DOMAIN pending = 1 .. Len(pending) /\ Len(pending) \in Nat
  <2>1. pending \in Seq(Entries(id))
    BY PositionFacts
  <2> QED BY <2>1
<1>4. pending = <<>> => pending' = <<>>
  BY <1>1
<1>5. Queued(s, n, m) => Queued(s, n, m)'
  <2>1. SUFFICES ASSUME Queued(s, n, m) PROVE Queued(s, n, m)'
    OBVIOUS
  <2>2. Len(pending) = 1 /\ DOMAIN pending = 1 .. 1 /\ pending[1] \in Entries(id)
    <3>1. Len(pending) = 1
      BY <2>1 DEF Queued
    <3>2. DOMAIN pending = 1 .. 1
      BY <1>3, <3>1
    <3> QED BY <1>3, <3>1, <3>2
  <2>3. pending' = [p \in 1 .. 1 |-> [pending[p] EXCEPT !.overlay = "lost"]]
    BY <1>1, <2>2
  <2>4. pending'[1] = [pending[1] EXCEPT !.overlay = "lost"]
    BY <2>3
  <2>5. pending'[1].w = pending[1].w /\ pending'[1].n = pending[1].n /\ pending'[1].age = pending[1].age
    BY <2>2, <2>4 DEF Entries
  <2>6. Len(pending') = 1
    BY <2>2, <2>3
  <2> QED BY <1>1, <2>1, <2>5, <2>6 DEF Queued
<1>6. Known(s, h, n, m) => Known(s, h, n, m)'
  BY <1>1, <1>4, <1>5 DEF Known, Ignored, Applied, Like
<1> QED BY <1>1, <1>2, <1>4, <1>6 DEF OnCourse, Marked, Like

PassHolds == \A id, s, h, n, m : Position(id, s, h, n, m) => PassInv(s, h, n, m)

LEMMA PassInit == LiveInit /\ LiveTyped => PassHolds
<1> SUFFICES ASSUME LiveInit, LiveTyped, NEW id, NEW s, NEW h, NEW n, NEW m, Position(id, s, h, n, m)
             PROVE  PassInv(s, h, n, m)
  BY DEF PassHolds
<1>1. n = 1 /\ outcome # "Pass" /\ outcome = None /\ good /\ attributed /\ pending = <<>>
      /\ store = [o \in Objects |-> None] /\ archive = {} /\ faults \subseteq Writes(id)
  BY NoneAssumption DEF LiveInit, Position
<1>2. ~Awaiting(s, 1) /\ h[1] = Start /\ DOMAIN s = 1 .. Len(s) /\ Len(s) \in Nat
      /\ Writes(id) = {p \in DOMAIN s : s[p].op = "submit"}
  BY ScenarioFacts DEF Position
<1>3. m = 1
  BY <1>1, <1>2 DEF Position, At
<1>4. Like(h[n])
  BY <1>1, <1>2 DEF Like, Start
<1>5. ~(1 \in DOMAIN s /\ s[1].op = "submit" /\ s[2].op \in {"changed", "same"})
  <2>1. SUFFICES ASSUME 1 \in DOMAIN s, s[1].op = "submit", s[1 + 1].op \in {"changed", "same"} PROVE FALSE
    OBVIOUS
  <2>2. 1 > 1
    BY <2>1, WriteFacts DEF Position
  <2> QED BY <2>2
<1>6. Marked(s, h, n)
  BY <1>1, <1>2, <1>5 DEF Marked
<1>7. \A p \in faults : m <= p
  BY <1>1, <1>2, <1>3
<1> QED BY <1>1, <1>2, <1>4, <1>6, <1>7 DEF PassInv, OnCourse

LEMMA PassNext == LiveTyped /\ LiveTyped' /\ PassHolds /\ [LiveNext]_LiveVars => PassHolds'
<1> SUFFICES ASSUME LiveTyped, LiveTyped', PassHolds, [LiveNext]_LiveVars,
                    NEW id, NEW s, NEW h, NEW k, NEW j, Position(id, s, h, k, j)'
             PROVE  PassInv(s, h, k, j)'
  BY DEF PassHolds
<1>1. scen' = scen /\ faults' = faults /\ mishaps \subseteq mishaps' /\ (Unspoiled' => Unspoiled)
  BY HistoryGrows, SpoiledStays
<1>2. line' = k /\ j = At(s, k) /\ Scenario(id, s, h) /\ scen.id = id
  BY <1>1 DEF Position
<1>3. PICK n, m : n = line /\ m = At(s, n)
  OBVIOUS
<1>4. Position(id, s, h, n, m)
  BY <1>2, <1>3 DEF Position
<1>5. PassInv(s, h, n, m)
  BY <1>4 DEF PassHolds
<1>6. CASE Skip
  BY <1>6, PassEnd DEF Skip, End
<1>7. CASE ReadHead
  <2>1. UNCHANGED <<line, mark, good, outcome, policies, chain, mishaps>> /\ k = n /\ j = m
    BY <1>2, <1>3, <1>7 DEF ReadHead
  <2>2. ~Awaiting(s, n)
    <3>1. n \in DOMAIN s
      BY <1>3, <1>4, <1>7, PositionFacts DEF ReadHead, Going
    <3>2. s[n].op = "submit"
      BY <1>4, <1>7, <3>1, PositionFacts DEF ReadHead
    <3> QED BY <3>1, <3>2, <1>4, WriteFacts DEF Position
  <2> QED BY <1>5, <2>1, <2>2 DEF PassInv, Unspoiled, OnCourse, Marked, Like, chain
<1>8. CASE Post
  BY <1>2, <1>4, <1>5, <1>8, PassPost
<1>9. CASE Settle
  BY <1>2, <1>4, <1>5, <1>9, PassSettle
<1>10. CASE Verdict
  <2>1. outcome = None /\ n = Len(s) + 1 /\ UNCHANGED <<chain, mishaps>>
        /\ End(IF good THEN "Pass" ELSE "Fail")
    BY <1>3, <1>4, <1>10, PositionFacts DEF Verdict
  <2>2. CASE ~good
    BY <2>1, <2>2, PassEnd DEF End
  <2>3. CASE good
    <3>1. outcome' = "Pass" /\ good'
      BY <2>1, <2>3 DEF End
    <3>2. SUFFICES ASSUME Unspoiled' PROVE faults = {}
      BY <1>1, <3>1, NoneAssumption DEF PassInv
    <3>3. OnCourse(s, h, n, m)
      BY <1>1, <1>5, <2>1, <2>3, <3>2 DEF PassInv
    <3>4. Len(s) \in Nat /\ DOMAIN s = 1 .. Len(s) /\ Writes(id) \subseteq DOMAIN s /\ faults \subseteq Writes(id)
      <4>1. Len(s) \in Nat /\ DOMAIN s = 1 .. Len(s) /\ Writes(id) \subseteq DOMAIN s
        BY <1>2, ScenarioFacts
      <4>2. faults \subseteq Writes(id)
        BY <1>4, PositionFacts
      <4> QED BY <4>1, <4>2
    <3>5. m = n
      <4>1. n \notin DOMAIN s
        BY <2>1, <3>4
      <4> QED BY <1>3, <4>1 DEF At, Awaiting
    <3>6. \A p \in faults : m <= p /\ p \in 1 .. Len(s)
      BY <3>3, <3>4 DEF OnCourse
    <3> QED BY <2>1, <3>4, <3>5, <3>6
  <2> QED BY <2>2, <2>3
<1>11. CASE Sweep
  BY <1>1, <1>5, <1>11 DEF Sweep, PassInv
<1>12. CASE Replay
  <2>1. k = n /\ j = m
    BY <1>2, <1>3, <1>12 DEF Replay, harness
  <2> QED BY <1>4, <1>5, <1>12, <2>1, PassReplay
<1>13. CASE Block
  <2>1. k = n /\ j = m
    BY <1>2, <1>3, <1>13 DEF Block
  <2> QED BY <1>4, <1>5, <1>13, <2>1, PassBlock
<1>14. CASE Hide
  <2>1. k = n /\ j = m
    BY <1>2, <1>3, <1>14 DEF Hide, harness
  <2> QED BY <1>4, <1>5, <1>14, <2>1, PassHide
<1>15. CASE Drop
  BY <1>5, <1>15 DEF Drop, PassInv, Unspoiled, harness
<1>16. CASE Lapse
  BY <1>5, <1>16 DEF Lapse, PassInv, Unspoiled, harness
<1>17. CASE UNCHANGED LiveVars
  <2>1. k = n /\ j = m
    BY <1>2, <1>3, <1>17 DEF LiveVars, harness
  <2> QED BY <1>5, <1>17, <2>1
         DEF LiveVars, harness, chain, PassInv, Unspoiled, OnCourse, Marked, Known, Queued, Ignored, Applied, Like
<1> QED BY <1>6, <1>7, <1>8, <1>9, <1>10, <1>11, <1>12, <1>13, <1>14, <1>15, <1>16, <1>17 DEF LiveNext

\* The harness is somewhere.
LEMMA Somewhere ==
  ASSUME LiveTyped
  PROVE  \E id, s, h, n, m : Position(id, s, h, n, m)
<1>1. PICK id, s, h, n, m : id = scen.id /\ s = scenarios[scen.id] /\ h = Held(scen.id) /\ n = line /\ m = At(s, n)
  OBVIOUS
<1> QED BY <1>1 DEF Position, Scenario, LiveTyped

\* A scenario passes only on an engine that judges every write of it correctly,
\* however many it misjudges - unless the overlay forgot a write and a head was
\* read too early for its POST or not waited for to the end, a write or the attribution of the actors
\* was lost, or the error of a wait was passed over (run_scenario of livetest.rs).
\* It holds for any finality depth and any delay up to it, and rests on that:
\* LiveTestAssumption takes an accepted write to be replayed within FINALITY_BLOCKS,
\* which the code waits for and does not check.
THEOREM NoFalsePassHolds == LiveSpec => []NoFalsePass
<1>1. LiveInit => LiveTyped /\ PassHolds
  BY LiveTypedInit, PassInit
<1>2. LiveTyped /\ PassHolds /\ [LiveNext]_LiveVars => LiveTyped' /\ PassHolds'
  BY LiveTypedNext, PassNext
<1>3. LiveTyped /\ PassHolds => NoFalsePass
  <2> SUFFICES ASSUME LiveTyped, PassHolds PROVE NoFalsePass
    OBVIOUS
  <2>1. PICK id, s, h, n, m : Position(id, s, h, n, m)
    BY Somewhere
  <2>2. PassInv(s, h, n, m)
    BY <2>1 DEF PassHolds
  <2> QED BY <2>2 DEF PassInv, NoFalsePass, Unspoiled
<1> QED BY <1>1, <1>2, <1>3, PTL DEF LiveSpec

-----------------------------------------------------------------------------
(***************************************************************************)
(* A scenario fails only on an engine that misjudged a write.              *)
(*                                                                         *)
(* On an engine that judges correctly the chain is in the situation of the *)
(* script: that before the line of a write that is permitted and still     *)
(* pending, which is the one awaited, or that before the next line, with   *)
(* only writes pending that will be disregarded.                           *)
(***************************************************************************)
Upright == faults = {} /\ {"dropped", "lapsed", "folded", "lenient"} \cap mishaps = {}

\* Entry p is a write of the script, and the chain is where the script was then.
Scripted(s, h, n, p) ==
  /\ pending[p].n \in 1 .. n - 1 /\ s[pending[p].n].op = "submit" /\ pending[p].w = s[pending[p].n].w
  /\ Like(h[pending[p].n])
  /\ Granted(s, pending[p].n) => p = Len(pending) /\ n = pending[p].n + 1
  /\ ~Granted(s, pending[p].n) => \A k \in pending[p].n + 1 .. n : h[k].barred = "yes"

Steady(s, h, n, m) ==
  /\ attributed /\ good /\ Marked(s, h, n)
  /\ \A p \in 1 .. Len(pending) : Scripted(s, h, n, p)
  /\ (\A p \in 1 .. Len(pending) : ~Granted(s, pending[p].n)) => Like(h[n])
  /\ Awaiting(s, n) => sub.state \in {"accepted", "denied"} /\ (Granted(s, m) => sub.state = "accepted")
  /\ (Awaiting(s, n) /\ sub.state = "denied") => \A p \in 1 .. Len(pending) : pending[p].n # m

FailInv(s, h, n, m) ==
  /\ (outcome = None /\ Upright) => Steady(s, h, n, m)
  /\ outcome = "Fail" => ~Upright

\* Without a permitted write that is pending, the chain is where the script is.
LEMMA Caught ==
  ASSUME LiveTyped, NEW id, NEW s, NEW h, NEW n, NEW m, Position(id, s, h, n, m), Steady(s, h, n, m),
         \A p \in 1 .. Len(pending) : pending[p].n # m
  PROVE  Like(h[n]) /\ \A p \in 1 .. Len(pending) : ~Granted(s, pending[p].n)
<1>1. n \in Nat /\ DOMAIN s = 1 .. Len(s) /\ Len(s) \in Nat /\ n \in 1 .. Len(s) + 1
  <2>1. n \in Nat /\ n \in 1 .. Len(s) + 1
    BY PositionFacts
  <2> QED BY <2>1, ScenarioFacts DEF Position
<1>2. ASSUME NEW p \in 1 .. Len(pending), Granted(s, pending[p].n) PROVE FALSE
  <2>1. Scripted(s, h, n, p)
    BY DEF Steady
  <2> DEFINE k == pending[p].n
  <2>2. k \in 1 .. n - 1 /\ s[k].op = "submit" /\ n = k + 1
    BY <1>2, <2>1 DEF Scripted
  <2>3. k \in DOMAIN s
    BY <1>1, <2>2
  <2> HIDE DEF k
  <2>4. Awaiting(s, n) /\ At(s, n) = k
    BY <2>2, <2>3, WriteFacts DEF Position
  <2> QED BY <2>4 DEF Position, k
<1> QED BY <1>2 DEF Steady

\* The write of line m, while it is pending, and its result.
LEMMA Uncaught ==
  ASSUME LiveTyped, NEW id, NEW s, NEW h, NEW n, NEW m, Position(id, s, h, n, m), Steady(s, h, n, m),
         NEW p \in 1 .. Len(pending), pending[p].n = m
  PROVE  Like(h[m]) /\ (Granted(s, m) => n = m + 1)
BY DEF Steady, Scripted

\* What a wait that fails has read.
LEMMA FailMeans ==
  ASSUME "Fail" \in Results
  PROVE  \/ Step.else = "accepted" /\ sub.state = "denied"
         \/ Step.op = "present" /\ Read.confirmed /\ Step.want # None /\ Read.value.body # Step.want
         \/ Step.op = "absent" /\ Read.confirmed
         \/ Step.op = "deleted" /\ sub.state = "denied"
         \/ Step.op = "same" /\ ~(sub.state = "denied" /\ Read.value = mark)
<1> SUFFICES ASSUME ~(Step.else = "accepted" /\ sub.state = "denied")
             PROVE  \/ Step.op = "present" /\ Read.confirmed /\ Step.want # None /\ Read.value.body # Step.want
                    \/ Step.op = "absent" /\ Read.confirmed
                    \/ Step.op = "deleted" /\ sub.state = "denied"
                    \/ Step.op = "same" /\ ~(sub.state = "denied" /\ Read.value = mark)
  OBVIOUS
<1>1. CASE Step.op = "present"
  BY <1>1 DEF Results, settle_present
<1>2. CASE Step.op = "absent"
  BY <1>2 DEF Results, settle_absent
<1>3. CASE Step.op = "deleted"
  BY <1>3 DEF Results, wait_deleted
<1>4. CASE Step.op = "changed"
  BY <1>4 DEF Results, wait_version_change
<1>5. CASE Step.op = "head"
  BY <1>5 DEF Results, wait_for_head
<1>6. CASE Step.op = "same"
  BY <1>6 DEF Results, still_the_same
<1>7. CASE Step.op \notin {"present", "absent", "deleted", "changed", "head", "same"}
  BY <1>7 DEF Results
<1> QED BY <1>1, <1>2, <1>3, <1>4, <1>5, <1>6, <1>7

\* What is read of an object with an overlay is unconfirmed.
LEMMA ReadPending ==
  ASSUME NEW obj, Shown(obj) # {}
  PROVE  ~get_object(obj).confirmed
BY DEF get_object

\* No wait fails, none passes before its write is replayed, and one that must not
\* change anything does not.
LEMMA Fair ==
  ASSUME LiveTyped, NEW id, NEW s, NEW h, NEW n, NEW m, Position(id, s, h, n, m),
         Awaiting(s, n), Steady(s, h, n, m), s[n].op = "same" => sub.state = "denied"
  PROVE  /\ "Fail" \notin Results
         /\ ("Pass" \in Results /\ Granted(s, m) /\ s[n].op # "deleted") => \A p \in 1 .. Len(pending) : pending[p].n # m
<1> DEFINE w == s[m].w
           old == h[m].st[w.obj]
           l == s[n]
<1>1. Step = l /\ n \in DOMAIN s
  BY PositionFacts DEF Position, Awaiting
<1>1a. l.op # "head" => l.obj = w.obj
  BY AwaitFacts DEF Position
<1>2. l.op \in Awaits /\ (n = m + 1 \/ l.op = "present") /\ m \in Nat /\ n \in Nat /\ h[n] = h[m + 1]
  BY AwaitFacts DEF Position, Awaiting
<1>3. h[m + 1] = After(h[m], w, Granted(s, m))
  BY AwaitFacts, WriteFacts DEF Position
<1>4. /\ w.obj \in Objects /\ w.act \in {"post", "delete"} /\ (w.val = None <=> w.act = "delete")
      /\ l.op = "present" /\ n = m + 1 => w.act = "post" /\ old = None /\ (l.want = None \/ w.val.body = l.want)
      /\ l.op = "absent" => ~Granted(s, m) /\ w.act = "post" /\ old = None
      /\ l.op = "deleted" => Granted(s, m) /\ w.act = "delete" /\ old # None
      /\ l.op = "changed" => Granted(s, m) /\ w.act = "post" /\ old # None /\ w.val # old
      /\ l.op = "same" => ~Granted(s, m) /\ w.act = "post" /\ old # None
      /\ n # m + 1 => /\ ~Granted(s, m) /\ l.want # None /\ old # None
                      /\ old.body = l.want /\ (w.act = "post" => w.val.body # l.want)
      /\ Situation(h[m])
  BY AwaitedFacts DEF Position
<1>5. l.op = "present" /\ n = m + 1 => Granted(s, m)
  BY AwaitFacts DEF Position
<1>5a. l.else = "accepted" => Granted(s, m)
  <2>1. l.else \in Ways(l.op)
    BY <1>1, AwaitFacts, WaitFacts DEF Position
  <2>2. n # m + 1 => l.else = "return"
    BY AwaitedFacts DEF Position
  <2> QED BY <1>2, <1>4, <1>5, <2>1, <2>2 DEF Ways
<1>7. l.op \in {"changed", "same"} => mark = old
  <2>1. SUFFICES ASSUME l.op \in {"changed", "same"} PROVE mark = old
    OBVIOUS
  <2>2. n - 1 = m
    BY <1>2, <2>1
  <2> QED BY <1>1, <1>1a, <2>1, <2>2 DEF Steady, Marked
<1>8. l.op # "head" => Read = get_object(w.obj)
  BY <1>1, <1>1a DEF Read
<1>9. ~Granted(s, m) => h[m + 1].st = h[m].st
  BY <1>3 DEF After, Barred
<1>10. Granted(s, m) => h[m + 1].st[w.obj] = w.val
  BY <1>3, <1>4, SituationGiven DEF After
<1>11. l.op \in {"present", "absent", "deleted", "changed", "same", "head"}
  BY <1>2 DEF Awaits
<1>12. Granted(s, m) => sub.state = "accepted"
  BY DEF Steady
<1>13. l.op # "head" => (Read.confirmed => Shown(w.obj) = {} /\ Read.value = store[w.obj] /\ store[w.obj] # None)
  BY <1>8, ReadPending, ReadStore
\* A permitted write that is pending, or a write that is not permitted.
<1>14. ~Granted(s, m) => store[w.obj] = old
  <2>1. SUFFICES ASSUME ~Granted(s, m) PROVE store[w.obj] = old
    OBVIOUS
  <2>2. CASE \A p \in 1 .. Len(pending) : pending[p].n # m
    <3>1. Like(h[n])
      BY <2>2, Caught
    <3> QED BY <1>2, <1>9, <2>1, <3>1 DEF Like
  <2>3. CASE \E p \in 1 .. Len(pending) : pending[p].n = m
    <3>1. Like(h[m])
      BY <2>3, Uncaught
    <3> QED BY <3>1 DEF Like
  <2> QED BY <2>2, <2>3
<1>15. Granted(s, m) =>
         \/ (\E p \in 1 .. Len(pending) : pending[p].n = m) /\ store[w.obj] = old
         \/ (\A p \in 1 .. Len(pending) : pending[p].n # m) /\ store[w.obj] = w.val
  <2>1. SUFFICES ASSUME Granted(s, m)
                 PROVE  \/ (\E p \in 1 .. Len(pending) : pending[p].n = m) /\ store[w.obj] = old
                        \/ (\A p \in 1 .. Len(pending) : pending[p].n # m) /\ store[w.obj] = w.val
    OBVIOUS
  <2>2. CASE \A p \in 1 .. Len(pending) : pending[p].n # m
    <3>1. Like(h[n])
      BY <2>2, Caught
    <3> QED BY <1>2, <1>10, <2>1, <2>2, <3>1 DEF Like
  <2>3. CASE \E p \in 1 .. Len(pending) : pending[p].n = m
    <3>1. Like(h[m])
      BY <2>3, Uncaught
    <3> QED BY <2>3, <3>1 DEF Like
  <2> QED BY <2>2, <2>3
\* After a denial that was to be, nothing else can have changed the object.
<1>16. l.op = "same" => Read.value = mark
  <2>1. SUFFICES ASSUME l.op = "same" PROVE Read.value = mark
    OBVIOUS
  <2>2. sub.state = "denied" /\ \A p \in 1 .. Len(pending) : pending[p].n # m
    BY <2>1 DEF Steady
  <2>3. n = m + 1
    BY <1>2, <2>1
  <2>4. h[m].barred = "no" /\ m - 1 \in Nat
    <3>1. m \in DOMAIN s /\ s[m].op = "submit"
      BY AwaitFacts DEF Position
    <3>2. s[m - 1].op = "hash" /\ m > 1
      BY <2>1, <2>3, <3>1, WriteFacts DEF Position
    <3>3. m - 1 \in DOMAIN s /\ (m - 1) + 1 = m
      <4>1. DOMAIN s = 1 .. Len(s) /\ Len(s) \in Nat
        BY ScenarioFacts DEF Position
      <4> QED BY <1>2, <3>1, <3>2, <4>1
    <3>4. h[m] = h[m - 1] /\ h[m - 1].barred = "no"
      BY <3>2, <3>3, WaitFacts DEF Position
    <3> QED BY <1>2, <3>2, <3>4
  <2>5. Len(pending) = 0
    <3>1. pending \in Seq(Entries(id))
      BY PositionFacts
    <3>2. Len(pending) \in Nat
      BY <3>1
    <3>3. SUFFICES ASSUME Len(pending) # 0 PROVE FALSE
      OBVIOUS
    <3>4. 1 \in 1 .. Len(pending)
      BY <3>2, <3>3
    <3>5. ~Granted(s, pending[1].n) /\ Scripted(s, h, n, 1)
      BY <2>2, <3>4, Caught DEF Steady
    <3>6. pending[1].n \in 1 .. n - 1 /\ pending[1].n # m
      BY <2>2, <3>4, <3>5 DEF Scripted
    <3>7. m \in pending[1].n + 1 .. n
      BY <1>2, <2>3, <3>6
    <3> QED BY <2>4, <3>5, <3>7 DEF Scripted
  <2>6. Shown(w.obj) = {}
    <3>1. pending \in Seq(Entries(id))
      BY PositionFacts
    <3>2. pending = <<>>
      BY <2>5, <3>1
    <3> QED BY <3>2, NothingPending
  <2>7. Read.value = store[w.obj]
    BY <1>8, <2>1, <2>6, ReadStore
  <2> QED BY <1>4, <1>7, <1>14, <2>1, <2>7
<1> HIDE DEF w, old, l
<1>17. "Fail" \notin Results
  <2> SUFFICES ASSUME "Fail" \in Results PROVE FALSE
    OBVIOUS
  <2>1. \/ l.else = "accepted" /\ sub.state = "denied"
        \/ l.op = "present" /\ Read.confirmed /\ l.want # None /\ Read.value.body # l.want
        \/ l.op = "absent" /\ Read.confirmed
        \/ l.op = "deleted" /\ sub.state = "denied"
        \/ l.op = "same" /\ ~(sub.state = "denied" /\ Read.value = mark)
    BY <1>1, FailMeans
  <2>2. CASE l.else = "accepted" /\ sub.state = "denied"
    BY <1>5a, <1>12, <2>2
  <2>3. CASE l.op = "present" /\ Read.confirmed /\ l.want # None /\ Read.value.body # l.want
    <3>1. CASE n = m + 1
      BY <1>4, <1>5, <1>13, <1>15, <2>3, <3>1
    <3>2. CASE n # m + 1
      BY <1>4, <1>13, <1>14, <2>3, <3>2
    <3> QED BY <3>1, <3>2
  <2>4. CASE l.op = "absent" /\ Read.confirmed
    BY <1>4, <1>13, <1>14, <2>4
  <2>5. CASE l.op = "deleted" /\ sub.state = "denied"
    BY <1>4, <1>12, <2>5
  <2>6. CASE l.op = "same" /\ ~(sub.state = "denied" /\ Read.value = mark)
    BY <1>16, <2>6 DEF l
  <2> QED BY <2>1, <2>2, <2>3, <2>4, <2>5, <2>6
<1>18. ASSUME "Pass" \in Results, Granted(s, m), l.op # "deleted"
       PROVE  \A p \in 1 .. Len(pending) : pending[p].n # m
  <2>1. l.op \in {"present", "changed"}
    <3>1. l.op # "head"
      BY <1>18, AwaitedFacts DEF Position, l
    <3> QED BY <1>4, <1>11, <1>18, <3>1
  <2>2. Read.confirmed /\ (l.op = "changed" => Read.value # mark)
    BY <1>1, <1>18, <2>1, PassMeans
  <2>3. store[w.obj] # None /\ (l.op = "changed" => store[w.obj] # old)
    BY <1>7, <1>13, <2>1, <2>2
  <2>4. l.op = "present" => old = None
    BY <1>4, <1>18
  <2> QED BY <1>15, <1>18, <2>1, <2>3, <2>4
<1> QED BY <1>17, <1>18 DEF l

\* An end other than Fail, or one that does not count.
LEMMA FailEnd ==
  ASSUME NEW s, NEW h, NEW n, NEW m, outcome' # None, outcome' # "Fail" \/ ~Upright'
  PROVE  FailInv(s, h, n, m)'
BY DEF FailInv

LEMMA FailSettle ==
  ASSUME LiveTyped, NEW id, NEW s, NEW h, NEW n, NEW m, Position(id, s, h, n, m), FailInv(s, h, n, m),
         Settle, NEW k, NEW j, line' = k, j = At(s, k)
  PROVE  FailInv(s, h, k, j)'
<1>1. /\ Script = s /\ Step = s[n] /\ n \in DOMAIN s /\ n \in Nat /\ outcome = None /\ s[n].op # "submit"
  BY PositionFacts, ScenarioFacts DEF Settle, Going, Position
<1>2. PICK r \in Results :
        /\ mishaps' = mishaps \cup Mishap(r)
        /\ \/ Returned(r) # None /\ End(Returned(r))
           \/ /\ Returned(r) = None /\ Continue
              /\ good' = (good /\ ~Flagged(r))
              /\ mark' = IF Step.op = "hash" THEN Read.value ELSE mark
              /\ UNCHANGED sub
  BY DEF Settle
<1>3. UNCHANGED <<store, archive, pending, attributed, faults>>
  BY DEF Settle, chain
<1>5. /\ h[n + 1] = h[n] /\ s[n].else \in Ways(s[n].op) /\ s[n].op \in Awaits \cup {"hash", "provision"}
      /\ Awaiting(s, n) <=> s[n].op \in Awaits
      /\ s[n].op # "head" => ~Awaiting(s, n + 1) /\ At(s, n + 1) = n + 1
      /\ s[n].op = "hash" => s[n + 1].op = "submit" /\ s[n + 1].obj = s[n].obj /\ h[n].barred = "no"
  BY <1>1, WaitFacts DEF Position
<1>6. SUFFICES ASSUME Upright' PROVE FailInv(s, h, k, j)'
  <2>1. CASE ~Upright'
    <3>1. outcome' = None \/ outcome' # None
      OBVIOUS
    <3> QED BY <2>1 DEF FailInv
  <2> QED BY <2>1
<1>7. Upright /\ "folded" \notin Mishap(r) /\ "lenient" \notin Mishap(r)
  BY <1>2, <1>3, <1>6 DEF Upright
<1>8. Steady(s, h, n, m)
  BY <1>1, <1>7 DEF FailInv
<1>9. Step.op = "same" => sub.state = "denied"
  <2>1. SUFFICES ASSUME Step.op = "same" PROVE sub.state = "denied"
    OBVIOUS
  <2>2. sub.state \in {"accepted", "denied"}
    BY <1>1, <1>5, <1>8, <2>1 DEF Steady, Awaits
  <2> QED BY <1>7, <2>1, <2>2 DEF Mishap
<1>10. r # "Fail"
  <2>1. CASE Awaiting(s, n)
    BY <1>1, <1>8, <1>9, <2>1, Fair
  <2>2. CASE ~Awaiting(s, n)
    <3>1. s[n].op \in {"hash", "provision"} /\ s[n].else = "error"
      BY <1>5, <2>2 DEF Ways
    <3> QED BY <1>1, <3>1 DEF Results
  <2> QED BY <2>1, <2>2
<1>11. r \in {"Pass", "Timeout", "Error"} /\ r # None
  BY <1>10, ResultFacts, NoneAssumption
<1>12. Step.else \in {"error", "accepted", "return", "flag", "timeout", "fail", "go"}
       /\ (Step.op = "same" => Step.else = "flag") /\ (Step.else = "go" <=> Step.op = "head")
       /\ (Step.op \in {"hash", "provision"} => Step.else = "error")
  BY <1>1, <1>5 DEF Ways, Awaits
\* The scenario returns.
<1>13. ASSUME Returned(r) # None, End(Returned(r)) PROVE FailInv(s, h, k, j)'
  <2>1. Returned(r) # "Fail"
    <3>1. CASE Step.else = "fail"
      BY <1>7, <1>11, <1>12, <3>1, NoneAssumption DEF Returned, Mishap
    <3>2. CASE Step.else # "fail"
      BY <1>11, <1>12, <3>2, NoneAssumption DEF Returned
    <3> QED BY <3>1, <3>2
  <2> QED BY <1>13, <2>1, FailEnd DEF End
\* It goes on.
<1>14. ASSUME Returned(r) = None, Continue, good' = (good /\ ~Flagged(r)), UNCHANGED sub,
              mark' = IF Step.op = "hash" THEN Read.value ELSE mark
       PROVE  FailInv(s, h, k, j)'
  <2>1. k = n + 1 /\ outcome' = None /\ outcome' # "Fail"
    BY <1>1, <1>14, NoneAssumption DEF Continue, Position
  <2>2. r = "Pass" \/ Step.op = "head"
    <3>1. CASE Step.else \in {"flag", "accepted", "timeout", "fail"}
      BY <1>7, <1>11, <3>1 DEF Mishap
    <3>2. CASE Step.else = "error"
      BY <1>11, <1>12, <1>14, <3>2, NoneAssumption DEF Returned
    <3>3. CASE Step.else = "return"
      BY <1>11, <1>12, <1>14, <3>3, NoneAssumption DEF Returned
    <3> QED BY <1>12, <3>1, <3>2, <3>3
  <2>3. ~Flagged(r)
    BY <1>12, <2>2 DEF Flagged
  <2>4. good'
    BY <1>8, <1>14, <2>3 DEF Steady
  <2>5. \A p \in 1 .. Len(pending) : ~Granted(s, pending[p].n)
    <3>1. CASE ~Awaiting(s, n)
      <4>1. \A p \in 1 .. Len(pending) : pending[p].n # m
        <5>1. m = n
          BY <3>1 DEF Position, At
        <5>2. \A p \in 1 .. Len(pending) : pending[p].n \in 1 .. n - 1
          BY <1>8 DEF Steady, Scripted
        <5>3. \A p \in 1 .. Len(pending) : pending[p].n # n
          BY <1>1, <5>2
        <5> QED BY <5>1, <5>3
      <4> QED BY <1>8, <4>1, Caught
    <3>2. CASE Awaiting(s, n)
      <4>1. CASE ~Granted(s, m)
        <5>1. SUFFICES ASSUME NEW p \in 1 .. Len(pending), Granted(s, pending[p].n) PROVE FALSE
          OBVIOUS
        <5>2. CASE pending[p].n = m
          BY <4>1, <5>1, <5>2
        <5>3. CASE pending[p].n # m
          <6> DEFINE e == pending[p].n
          <6>1. e \in 1 .. n - 1 /\ s[e].op = "submit" /\ n = e + 1
            BY <1>8, <5>1 DEF Steady, Scripted
          <6>2. e \in DOMAIN s
            <7>1. DOMAIN s = 1 .. Len(s) /\ Len(s) \in Nat
              BY ScenarioFacts DEF Position
            <7> QED BY <1>1, <6>1, <7>1
          <6> HIDE DEF e
          <6>3. At(s, n) = e
            BY <6>1, <6>2, WriteFacts DEF Position
          <6> QED BY <5>3, <6>3 DEF Position, e
        <5> QED BY <5>2, <5>3
      <4>2. CASE Granted(s, m)
        <5>1. s[n].op # "head"
          BY <3>2, <4>2, AwaitedFacts DEF Position
        <5>2. r = "Pass"
          BY <1>1, <2>2, <5>1
        <5>3. s[n].op # "deleted"
          BY <1>1, <1>5, <1>12, <1>14, <5>2, NoneAssumption DEF Returned, Ways
        <5>4. \A p \in 1 .. Len(pending) : pending[p].n # m
          BY <1>1, <1>8, <1>9, <3>2, <4>2, <5>2, <5>3, Fair
        <5> QED BY <1>8, <5>4, Caught
      <4> QED BY <4>1, <4>2
    <3> QED BY <3>1, <3>2
  <2>6. Like(h[n]) /\ Like(h[k]) /\ Like(h[k])'
    BY <1>3, <1>5, <1>8, <2>1, <2>5 DEF Steady, Like
  <2>7. \A p \in 1 .. Len(pending) : Scripted(s, h, k, p)'
    <3> SUFFICES ASSUME NEW p \in 1 .. Len(pending) PROVE Scripted(s, h, k, p)'
      OBVIOUS
    <3>1. Scripted(s, h, n, p) /\ ~Granted(s, pending[p].n)
      BY <1>8, <2>5 DEF Steady
    <3>2. pending[p].n \in 1 .. n - 1 /\ pending[p].n \in 1 .. k - 1
      BY <1>1, <2>1, <3>1 DEF Scripted
    <3>3. \A q \in pending[p].n + 1 .. k : h[q].barred = "yes"
      <4>1. n \in pending[p].n + 1 .. n
        BY <1>1, <3>2
      <4>2. h[k].barred = "yes"
        BY <1>5, <2>1, <3>1, <4>1 DEF Scripted
      <4>3. \A q \in pending[p].n + 1 .. k : q = k \/ q \in pending[p].n + 1 .. n
        BY <1>1, <2>1, <3>2
      <4> QED BY <3>1, <4>2, <4>3 DEF Scripted
    <3> QED BY <1>3, <3>1, <3>2, <3>3 DEF Scripted, Like
  <2>8. Marked(s, h, k)'
    <3>1. (k \in DOMAIN s /\ s[k].op = "submit" /\ s[k + 1].op \in {"changed", "same"}) => mark' = h[k].st[s[k].obj]
      <4> SUFFICES ASSUME k \in DOMAIN s, s[k].op = "submit", s[k + 1].op \in {"changed", "same"}
                   PROVE  mark' = h[k].st[s[k].obj]
        OBVIOUS
      <4>1. s[k - 1].op = "hash" /\ k - 1 = n
        BY <1>1, <2>1, WriteFacts DEF Position
      <4>2. mark' = Read.value /\ s[k].obj = s[n].obj
        BY <1>1, <1>5, <1>14, <2>1, <4>1
      <4>3. pending = <<>>
        <5>1. pending \in Seq(Entries(id))
          BY PositionFacts
        <5>2. SUFFICES ASSUME pending # <<>> PROVE FALSE
          OBVIOUS
        <5>3. 1 \in 1 .. Len(pending)
          BY <5>1, <5>2
        <5>4. Scripted(s, h, n, 1) /\ ~Granted(s, pending[1].n)
          BY <1>8, <2>5, <5>3 DEF Steady
        <5>5. n \in pending[1].n + 1 .. n
          BY <1>1, <5>4 DEF Scripted
        <5> QED BY <1>5, <4>1, <5>4, <5>5 DEF Scripted
      <4>4. Read.value = store[s[n].obj]
        BY <1>1, <4>3, NothingPending, ReadStore DEF Read
      <4> QED BY <2>6, <4>2, <4>4 DEF Like
    <3>2. (Awaiting(s, k) /\ s[k].op \in {"changed", "same"}) => mark' = h[k - 1].st[s[k].obj]
      <4>1. Awaiting(s, k) => s[n].op = "head"
        BY <1>5, <2>1
      <4>2. s[n].op = "head" => s[k].op = "present"
        BY <1>5, <2>1, AwaitFacts DEF Position, Awaits
      <4> QED BY <4>1, <4>2
    <3> QED BY <3>1, <3>2 DEF Marked
  <2>9. Awaiting(s, k) => /\ sub'.state \in {"accepted", "denied"} /\ (Granted(s, j) => sub'.state = "accepted")
                          /\ sub'.state = "denied" => \A p \in 1 .. Len(pending) : pending[p].n # j
    <3> SUFFICES ASSUME Awaiting(s, k)
                 PROVE  /\ sub'.state \in {"accepted", "denied"} /\ (Granted(s, j) => sub'.state = "accepted")
                        /\ sub'.state = "denied" => \A p \in 1 .. Len(pending) : pending[p].n # j
      OBVIOUS
    <3>1. s[n].op = "head" /\ Awaiting(s, n)
      BY <1>5, <2>1 DEF Awaits
    <3>2. j = m
      BY <2>1, <3>1, AwaitFacts DEF Position
    <3> QED BY <1>8, <1>14, <3>1, <3>2 DEF Steady
  <2>10. Steady(s, h, k, j)'
    BY <1>3, <1>8, <2>4, <2>6, <2>7, <2>8, <2>9 DEF Steady
  <2> QED BY <2>1, <2>10 DEF FailInv
<1> QED BY <1>2, <1>13, <1>14

\* Once a write was to be denied, the script knows of no more hashes.
LEMMA StaysBarred ==
  ASSUME NEW x, NEW w, NEW granted
  PROVE  /\ x.barred = "yes" => After(x, w, granted).barred = "yes"
         /\ ~granted => After(x, w, granted).barred = "yes" /\ After(x, w, granted).st = x.st /\ After(x, w, granted).ar = x.ar
BY DEF After, Given, Barred

LEMMA FailPost ==
  ASSUME LiveTyped, NEW id, NEW s, NEW h, NEW n, NEW m, Position(id, s, h, n, m), FailInv(s, h, n, m),
         Post, NEW k, NEW j, line' = k, j = At(s, k)
  PROVE  FailInv(s, h, k, j)'
<1>1. /\ Script = s /\ Step = s[n] /\ n \in DOMAIN s /\ n \in Nat /\ outcome = None /\ s[n].op = "submit"
  BY PositionFacts, ScenarioFacts DEF Post, Going, Position
<1>2. /\ n + 1 \in DOMAIN s /\ Awaited(id, s[n], s[n + 1], h[n]) /\ h[n + 1] = After(h[n], s[n].w, Granted(s, n))
      /\ Awaiting(s, n + 1) /\ At(s, n + 1) = n /\ ~Awaiting(s, n) /\ m = n
  BY <1>1, WriteFacts DEF Position
<1>3. UNCHANGED <<store, archive, attributed, faults>> /\ mishaps \subseteq mishaps'
  BY DEF Post
<1>4. s[n].else \in {"go", "fail", "error"} /\ (s[n].else # "go" => Granted(s, n))
      /\ (Permits(h[n].st, h[n].ar, s[n].w) <=> Granted(s, n))
  BY <1>2 DEF Awaited, Granted
<1>5. SUFFICES ASSUME Upright' PROVE FailInv(s, h, k, j)'
  <2>1. CASE ~Upright'
    BY <2>1 DEF FailInv
  <2> QED BY <2>1
<1>6. Upright /\ Steady(s, h, n, m)
  BY <1>1, <1>3, <1>5 DEF FailInv, Upright
<1>7. \A p \in 1 .. Len(pending) : pending[p].n # n /\ Scripted(s, h, n, p)
  <2>1. ASSUME NEW p \in 1 .. Len(pending) PROVE pending[p].n # n
    BY <1>1, <1>6 DEF Steady, Scripted
  <2> QED BY <1>6, <2>1 DEF Steady
<1>8. Like(h[n]) /\ \A p \in 1 .. Len(pending) : ~Granted(s, pending[p].n)
  BY <1>2, <1>6, <1>7, Caught
<1>9. ~Judged(Step.w, line) => ~Granted(s, n)
  <2>1. n \notin faults /\ attributed
    BY <1>6 DEF Upright, Steady
  <2> QED BY <1>1, <1>4, <1>8, <2>1, Judging DEF Position
<1>10. pending \in Seq(Entries(id)) /\ Len(pending) \in Nat
  <2>1. pending \in Seq(Entries(id))
    BY PositionFacts
  <2> QED BY <2>1
\* The scenario goes on to the wait.
<1>11. ASSUME Continue, UNCHANGED <<mark, good>>,
              \/ pending' = Append(pending, Entry(Step.w, line)) /\ sub' = [sub EXCEPT !.state = "accepted"]
              \/ UNCHANGED pending /\ sub' = [sub EXCEPT !.state = "denied"] /\ ~Granted(s, n)
       PROVE  FailInv(s, h, k, j)'
  <2>1. k = n + 1 /\ j = n /\ outcome' = None /\ outcome' # "Fail" /\ Awaiting(s, k)
    BY <1>1, <1>2, <1>11, NoneAssumption DEF Continue, Position
  <2>2. Marked(s, h, k)'
    <3>1. s[k].op # "submit"
      BY <2>1 DEF Awaiting, Awaits
    <3>2. s[k].op \in {"changed", "same"} => s[k].obj = s[n].obj /\ k - 1 = n
      BY <1>1, <1>2, <2>1 DEF Awaited
    <3>3. s[k].op \in {"changed", "same"} => mark = h[n].st[s[n].obj]
      BY <1>1, <1>2, <1>6, <2>1 DEF Steady, Marked
    <3> QED BY <1>11, <3>1, <3>2, <3>3 DEF Marked
  <2>3. ASSUME NEW p \in 1 .. Len(pending), pending'[p] = pending[p] PROVE Scripted(s, h, k, p)'
    <3>1. Scripted(s, h, n, p) /\ ~Granted(s, pending[p].n)
      BY <1>7, <1>8
    <3>2. pending[p].n \in 1 .. n - 1 /\ pending[p].n \in 1 .. k - 1
      BY <1>1, <2>1, <3>1 DEF Scripted
    <3>3. \A q \in pending[p].n + 1 .. k : h[q].barred = "yes"
      <4>1. n \in pending[p].n + 1 .. n
        BY <1>1, <3>2
      <4>2. h[n].barred = "yes"
        BY <3>1, <4>1 DEF Scripted
      <4>3. h[k].barred = "yes"
        BY <1>2, <2>1, <4>2, StaysBarred
      <4>4. \A q \in pending[p].n + 1 .. k : q = k \/ q \in pending[p].n + 1 .. n
        BY <1>1, <2>1, <3>2
      <4> QED BY <3>1, <4>3, <4>4 DEF Scripted
    <3> QED BY <1>3, <2>3, <3>1, <3>2, <3>3 DEF Scripted, Like
  <2>4. ~Granted(s, n) => Like(h[k])' /\ h[k].barred = "yes"
    BY <1>2, <1>3, <1>8, <2>1, StaysBarred DEF Like
  <2>5. Steady(s, h, k, j)'
    <3>1. CASE pending' = Append(pending, Entry(Step.w, line)) /\ sub' = [sub EXCEPT !.state = "accepted"]
      <4> DEFINE e == Entry(s[n].w, n)
      <4>0. PICK K : K = Len(pending) + 1
        OBVIOUS
      <4>1. pending' = Append(pending, e)
        BY <1>1, <3>1 DEF Position
      <4>2. e.w = s[n].w /\ e.n = n
        BY DEF Entry
      <4> HIDE DEF e
      <4>3. Len(pending') = K /\ pending'[K] = e /\ (\A p \in 1 .. Len(pending) : pending'[p] = pending[p])
            /\ K \in 1 .. K /\ \A p \in 1 .. K : p = K \/ p \in 1 .. Len(pending)
        BY <1>10, <4>0, <4>1
      <4>4. Scripted(s, h, k, K)'
        <5>1. pending'[K].n = n /\ pending'[K].w = s[n].w
          BY <4>2, <4>3
        <5>2. n \in 1 .. k - 1 /\ k = n + 1 /\ \A q \in n + 1 .. k : q = k
          <6>1. n \in 1 .. Len(s) + 1
            BY PositionFacts
          <6>2. n >= 1 /\ k - 1 = n
            BY <1>1, <2>1, <6>1
          <6>3. \A q \in n + 1 .. n + 1 : q = n + 1
            BY <1>1
          <6> QED BY <1>1, <2>1, <6>2, <6>3
        <5>3. Like(h[n])'
          BY <1>3, <1>8 DEF Like
        <5> QED BY <1>1, <2>4, <4>3, <5>1, <5>2, <5>3 DEF Scripted
      <4>5. \A p \in 1 .. Len(pending') : Scripted(s, h, k, p)'
        BY <2>3, <4>3, <4>4
      <4>6. sub'.state = "accepted"
        BY <3>1 DEF LiveTyped
      <4>7. (\A p \in 1 .. Len(pending') : ~Granted(s, pending'[p].n)) => Like(h[k])'
        BY <2>4, <4>2, <4>3
      <4> QED BY <1>3, <1>6, <1>11, <2>1, <2>2, <4>5, <4>6, <4>7 DEF Steady
    <3>2. CASE UNCHANGED pending /\ sub' = [sub EXCEPT !.state = "denied"] /\ ~Granted(s, n)
      <4>1. sub'.state = "denied"
        BY <3>2 DEF LiveTyped
      <4>2. \A p \in 1 .. Len(pending) : Scripted(s, h, k, p)'
        BY <2>3, <3>2
      <4> QED BY <1>3, <1>6, <1>7, <1>11, <2>1, <2>2, <2>4, <3>2, <4>1, <4>2 DEF Steady
    <3> QED BY <1>11, <3>1, <3>2
  <2> QED BY <2>1, <2>5 DEF FailInv
<1>12. ASSUME End("Error") PROVE FailInv(s, h, k, j)'
  BY <1>12, FailEnd, NoneAssumption DEF End
<1>13. CASE /\ pending' = Append(pending, Entry(Step.w, line))
            /\ mishaps' = IF sub.blocks = 0 THEN mishaps ELSE mishaps \cup {"loose"}
            /\ policies' = Recorded
            /\ sub' = [sub EXCEPT !.state = "accepted"] /\ Continue /\ UNCHANGED <<mark, good>>
  BY <1>11, <1>13
<1>14. CASE /\ ~Judged(Step.w, line)
            /\ policies' = Recorded
            /\ CASE Step.else = "go" -> sub' = [sub EXCEPT !.state = "denied"] /\ Continue /\ UNCHANGED <<mark, good>>
                 [] Step.else = "fail" -> End("Fail")
                 [] Step.else = "error" -> End("Error")
            /\ UNCHANGED <<pending, mishaps>>
  <2>1. ~Granted(s, n) /\ s[n].else = "go"
    BY <1>4, <1>9, <1>14
  <2> QED BY <1>1, <1>11, <1>14, <2>1
<1> QED BY <1>12, <1>13, <1>14 DEF Post

\* The oldest write is replayed.
LEMMA FailReplay ==
  ASSUME LiveTyped, NEW id, NEW s, NEW h, NEW n, NEW m, Position(id, s, h, n, m), FailInv(s, h, n, m), Replay
  PROVE  FailInv(s, h, n, m)'
<1>1. UNCHANGED <<scen, line, sub, mark, good, outcome, attributed, faults, mishaps>> /\ pending # <<>>
      /\ Apply(Head(pending)) /\ pending' = Tail(pending)
  BY DEF Replay, harness
<1>2. SUFFICES ASSUME outcome = None, Upright, Steady(s, h, n, m) PROVE Steady(s, h, n, m)'
  BY <1>1 DEF FailInv, Upright
<1> DEFINE K == Len(pending)
           e == pending[1]
           q == e.n
           w == s[q].w
<1>3. pending \in Seq(Entries(id))
  BY PositionFacts
<1>4. K \in Nat /\ 1 \in 1 .. K /\ Head(pending) = e /\ Len(pending') = K - 1
      /\ \A p \in 1 .. Len(pending') : p + 1 \in 1 .. K /\ pending'[p] = pending[p + 1]
  BY <1>1, <1>3
<1>5. Scripted(s, h, n, 1)
  BY <1>2, <1>4 DEF Steady
<1>6. q \in 1 .. n - 1 /\ s[q].op = "submit" /\ e.w = w /\ Like(h[q])
      /\ (Granted(s, q) => 1 = K /\ n = q + 1)
  BY <1>5 DEF Scripted
<1>7. q \in DOMAIN s
  <2>1. n \in 1 .. Len(s) + 1
    BY PositionFacts
  <2>2. DOMAIN s = 1 .. Len(s) /\ Len(s) \in Nat
    BY ScenarioFacts DEF Position
  <2> QED BY <1>6, <2>1, <2>2
<1>8. Awaited(id, s[q], s[q + 1], h[q]) /\ h[q + 1] = After(h[q], w, Granted(s, q)) /\ s[q].obj = w.obj
  BY <1>6, <1>7, WriteFacts DEF Position
<1>9. Permits(h[q].st, h[q].ar, w) <=> Granted(s, q)
  BY <1>8 DEF Awaited, Granted
<1>10. Judged(w, q) <=> Granted(s, q)
  <2>1. attributed /\ q \notin faults
    BY <1>2 DEF Steady, Upright
  <2> QED BY <1>6, <1>9, <2>1, Judging
<1> HIDE DEF K
<1>11. \A p \in 1 .. Len(pending') : p + 1 \in 1 .. K /\ pending'[p] = pending[p + 1] /\ Scripted(s, h, n, p + 1)
  BY <1>2, <1>4 DEF Steady, K
<1>12. CASE ~Granted(s, q)
  <2>1. UNCHANGED <<store, archive>>
    BY <1>1, <1>4, <1>6, <1>10, <1>12 DEF Apply
  <2>2. ASSUME NEW p \in 1 .. Len(pending') PROVE Scripted(s, h, n, p)'
    <3>1. pending'[p] = pending[p + 1] /\ Scripted(s, h, n, p + 1)
      BY <1>11
    <3>2. p + 1 = K => p = Len(pending')
      BY <1>4
    <3> QED BY <2>1, <3>1, <3>2 DEF Scripted, Like, K
  <2>3. (\A p \in 1 .. Len(pending') : ~Granted(s, pending'[p].n)) => Like(h[n])'
    <3> SUFFICES ASSUME \A p \in 1 .. Len(pending') : ~Granted(s, pending'[p].n) PROVE Like(h[n])'
      OBVIOUS
    <3>1. ASSUME NEW p \in 1 .. K PROVE ~Granted(s, pending[p].n)
      <4>1. CASE p = 1
        BY <1>12, <4>1
      <4>2. CASE p # 1
        <5>1. p - 1 \in 1 .. Len(pending') /\ (p - 1) + 1 = p
          BY <1>4, <4>2
        <5>2. pending'[p - 1] = pending[p]
          BY <1>11, <5>1
        <5> QED BY <5>1, <5>2
      <4> QED BY <4>1, <4>2
    <3> QED BY <1>2, <2>1, <3>1 DEF Steady, Like, K
  <2>4. (Awaiting(s, n) /\ sub.state = "denied") => \A p \in 1 .. Len(pending') : pending'[p].n # m
    BY <1>2, <1>11 DEF Steady, K
  <2> QED BY <1>1, <1>2, <2>2, <2>3, <2>4 DEF Steady, Marked
<1>13. CASE Granted(s, q)
  <2>1. K = 1 /\ n = q + 1
    BY <1>6, <1>13 DEF K
  <2>2. Len(pending') = 0 /\ \A p \in 1 .. Len(pending') : FALSE
    BY <1>4, <2>1
  <2>3. /\ store' = [h[q].st EXCEPT ![w.obj] = w.val]
        /\ archive' = IF w.obj = "A" /\ w.act = "post" THEN h[q].ar \cup {w.val} ELSE h[q].ar
    BY <1>1, <1>4, <1>6, <1>10, <1>13 DEF Apply, Like
  <2>4. w.obj = "A" => w.act = "post"
    BY <1>8 DEF Awaited, Sound, Policies
  <2>5. h[n] = Given(h[q], w.obj, w.val)
    BY <1>8, <1>13, <2>1 DEF After
  <2>6. h[n].st = [h[q].st EXCEPT ![w.obj] = w.val]
        /\ h[n].ar = IF w.obj = "A" THEN h[q].ar \cup {w.val} ELSE h[q].ar
    BY <2>5 DEF Given
  <2>7. Like(h[n])'
    BY <2>3, <2>4, <2>6 DEF Like
  <2> QED BY <1>1, <1>2, <2>2, <2>7 DEF Steady, Marked
<1> QED BY <1>12, <1>13

\* Blocks pass, or the overlay is lost.
LEMMA FailChain ==
  ASSUME LiveTyped, NEW id, NEW s, NEW h, NEW n, NEW m, Position(id, s, h, n, m), FailInv(s, h, n, m), Block \/ Hide
  PROVE  FailInv(s, h, n, m)'
<1>1. UNCHANGED <<line, mark, good, outcome, store, archive, attributed, faults>> /\ mishaps \subseteq mishaps'
  BY DEF Block, Hide, harness
<1>2. sub'.state = sub.state
  BY LiveTestAssumption DEF Block, Hide, Passed, harness, LiveTyped
<1>3. pending \in Seq(Entries(id)) /\ pending' \in Seq(Entries(id))
  <2>1. scen.id = id
    BY DEF Position
  <2> QED BY <2>1, PositionFacts, Aged, Forgotten DEF Block, Hide
<1>4. DOMAIN pending' = DOMAIN pending
  BY DEF Block, Hide
<1>5. Len(pending') = Len(pending)
  BY <1>3, <1>4
<1>6. ASSUME NEW p \in 1 .. Len(pending) PROVE pending'[p].w = pending[p].w /\ pending'[p].n = pending[p].n
  <2>1. p \in DOMAIN pending /\ pending[p] \in Entries(id)
    BY <1>3
  <2>2. CASE Block
    <3>1. pending'[p] = [pending[p] EXCEPT !.age = @ + 1]
      BY <2>1, <2>2 DEF Block
    <3> QED BY <2>1, <3>1 DEF Entries
  <2>3. CASE Hide
    <3>1. pending'[p] = [pending[p] EXCEPT !.overlay = "lost"]
      BY <2>1, <2>3 DEF Hide
    <3> QED BY <2>1, <3>1 DEF Entries
  <2> QED BY <2>2, <2>3
<1>7. SUFFICES ASSUME outcome = None, Upright, Steady(s, h, n, m) PROVE Steady(s, h, n, m)'
  BY <1>1 DEF FailInv, Upright
<1>8. \A p \in 1 .. Len(pending') : Scripted(s, h, n, p)'
  BY <1>1, <1>5, <1>6, <1>7 DEF Steady, Scripted, Like
<1> QED BY <1>1, <1>2, <1>5, <1>6, <1>7, <1>8 DEF Steady, Marked, Like

FailHolds == \A id, s, h, n, m : Position(id, s, h, n, m) => FailInv(s, h, n, m)

LEMMA FailInit == LiveInit /\ LiveTyped => FailHolds
<1> SUFFICES ASSUME LiveInit, LiveTyped, NEW id, NEW s, NEW h, NEW n, NEW m, Position(id, s, h, n, m)
             PROVE  FailInv(s, h, n, m)
  BY DEF FailHolds
<1>1. n = 1 /\ outcome # "Fail" /\ good /\ attributed /\ pending = <<>> /\ sub.state = "none"
      /\ store = [o \in Objects |-> None] /\ archive = {}
  BY NoneAssumption DEF LiveInit, Position, NoSub
<1>2. ~Awaiting(s, 1) /\ h[1] = Start
  BY ScenarioFacts DEF Position
<1>3. Like(h[n])
  BY <1>1, <1>2 DEF Like, Start
<1>4. ~(1 \in DOMAIN s /\ s[1].op = "submit" /\ s[2].op \in {"changed", "same"})
  <2>1. SUFFICES ASSUME 1 \in DOMAIN s, s[1].op = "submit", s[1 + 1].op \in {"changed", "same"} PROVE FALSE
    OBVIOUS
  <2>2. 1 > 1
    BY <2>1, WriteFacts DEF Position
  <2> QED BY <2>2
<1>5. Marked(s, h, n)
  BY <1>1, <1>2, <1>4 DEF Marked
<1>6. \A p \in 1 .. Len(pending) : FALSE
  BY <1>1
<1> QED BY <1>1, <1>2, <1>3, <1>5, <1>6 DEF FailInv, Steady

LEMMA FailNext == LiveTyped /\ LiveTyped' /\ FailHolds /\ [LiveNext]_LiveVars => FailHolds'
<1> SUFFICES ASSUME LiveTyped, LiveTyped', FailHolds, [LiveNext]_LiveVars,
                    NEW id, NEW s, NEW h, NEW k, NEW j, Position(id, s, h, k, j)'
             PROVE  FailInv(s, h, k, j)'
  BY DEF FailHolds
<1>1. scen' = scen /\ faults' = faults /\ mishaps \subseteq mishaps' /\ (Upright' => Upright)
  BY HistoryGrows DEF Upright
<1>2. line' = k /\ j = At(s, k) /\ Scenario(id, s, h) /\ scen.id = id
  BY <1>1 DEF Position
<1>3. PICK n, m : n = line /\ m = At(s, n)
  OBVIOUS
<1>4. Position(id, s, h, n, m)
  BY <1>2, <1>3 DEF Position
<1>5. FailInv(s, h, n, m)
  BY <1>4 DEF FailHolds
<1>6. CASE Skip
  BY <1>6, FailEnd, NoneAssumption DEF Skip, End
<1>7. CASE ReadHead
  <2>1. UNCHANGED <<line, mark, good, outcome, policies, chain, mishaps>> /\ k = n /\ j = m
    BY <1>2, <1>3, <1>7 DEF ReadHead
  <2>2. ~Awaiting(s, n)
    <3>1. n \in DOMAIN s
      BY <1>3, <1>4, <1>7, PositionFacts DEF ReadHead, Going
    <3>2. s[n].op = "submit"
      BY <1>4, <1>7, <3>1, PositionFacts DEF ReadHead
    <3> QED BY <3>1, <3>2, <1>4, WriteFacts DEF Position
  <2> QED BY <1>5, <2>1, <2>2 DEF FailInv, Upright, Steady, Scripted, Marked, Like, chain
<1>8. CASE Post
  BY <1>2, <1>4, <1>5, <1>8, FailPost
<1>9. CASE Settle
  BY <1>2, <1>4, <1>5, <1>9, FailSettle
<1>10. CASE Verdict
  <2>1. outcome = None /\ End(IF good THEN "Pass" ELSE "Fail")
    BY <1>10 DEF Verdict
  <2>2. CASE ~Upright'
    BY <2>1, <2>2, FailEnd, NoneAssumption DEF End
  <2>3. CASE Upright'
    <3>1. good
      BY <1>1, <1>5, <2>1, <2>3 DEF FailInv, Steady
    <3> QED BY <2>1, <3>1, FailEnd, NoneAssumption DEF End
  <2> QED BY <2>2, <2>3
<1>11. CASE Sweep
  BY <1>1, <1>5, <1>11 DEF Sweep, FailInv
<1>12. CASE Replay
  <2>1. k = n /\ j = m
    BY <1>2, <1>3, <1>12 DEF Replay, harness
  <2> QED BY <1>4, <1>5, <1>12, <2>1, FailReplay
<1>13. CASE Block \/ Hide
  <2>1. k = n /\ j = m
    BY <1>2, <1>3, <1>13 DEF Block, Hide, harness
  <2> QED BY <1>4, <1>5, <1>13, <2>1, FailChain
<1>14. CASE Drop \/ Lapse
  <2>1. ~Upright' /\ outcome' = outcome
    BY <1>14 DEF Drop, Lapse, Upright, harness
  <2> QED BY <1>5, <2>1 DEF FailInv
<1>15. CASE UNCHANGED LiveVars
  <2>1. k = n /\ j = m
    BY <1>2, <1>3, <1>15 DEF LiveVars, harness
  <2> QED BY <1>5, <1>15, <2>1 DEF LiveVars, harness, chain, FailInv, Upright, Steady, Scripted, Marked, Like
<1> QED BY <1>6, <1>7, <1>8, <1>9, <1>10, <1>11, <1>12, <1>13, <1>14, <1>15 DEF LiveNext

\* "a broken precondition is a runner error, not a product FAIL": a scenario fails
\* only on an engine that misjudged one of its writes, unless a write or the
\* attribution of the actors was lost, S9 to S13 folded a deadline or an error into
\* a flag, or S9 or S11 took an update that was accepted and disregarded on replay
\* for applied.  An overlay that forgets alone makes no scenario fail.  Like
\* NoFalsePassHolds it takes delays up to FINALITY_BLOCKS.
THEOREM NoFalseFailHolds == LiveSpec => []NoFalseFail
<1>1. LiveInit => LiveTyped /\ FailHolds
  BY LiveTypedInit, FailInit
<1>2. LiveTyped /\ FailHolds /\ [LiveNext]_LiveVars => LiveTyped' /\ FailHolds'
  BY LiveTypedNext, FailNext
<1>3. LiveTyped /\ FailHolds => NoFalseFail
  <2> SUFFICES ASSUME LiveTyped, FailHolds PROVE NoFalseFail
    OBVIOUS
  <2>1. PICK id, s, h, n, m : Position(id, s, h, n, m)
    BY Somewhere
  <2>2. FailInv(s, h, n, m)
    BY <2>1 DEF FailHolds
  <2> QED BY <2>2 DEF FailInv, NoFalseFail, Upright
<1> QED BY <1>1, <1>2, <1>3, PTL DEF LiveSpec

-----------------------------------------------------------------------------
(***************************************************************************)
(* The sweep.                                                              *)
(*                                                                         *)
(* Every policy that is installed, or may still be, is recorded, and when  *)
(* its deletion is judged it is permitted: its pin is on a version of the  *)
(* ancestor that was applied and lets the sys key govern.  A child is only *)
(* accepted on a version that exists, or on one whose amendment is ahead   *)
(* of it in the queue.                                                     *)
(***************************************************************************)
Clean == {"dropped", "unanswered", "early"} \cap mishaps = {} /\ ("swallowed" \in mishaps => Cardinality(faults) <= 1)

\* Entry p is a write of the script to o; the deletion of o by the sweep.
Install(p, o) == pending[p].n # 0 /\ pending[p].w.obj = o
Delete(p, o) == pending[p].n = 0 /\ pending[p].w.obj = o

\* Writes of the script, in its order, before deletions of the sweep.
Lined(s, n, p) ==
  \/ /\ pending[p].n \in DOMAIN s /\ s[pending[p].n].op = "submit" /\ pending[p].w = s[pending[p].n].w
     /\ outcome = None => pending[p].n < n
     /\ \A j \in 1 .. p - 1 : pending[j].n # 0 /\ pending[j].n < pending[p].n
  \/ pending[p].n = 0 /\ outcome # None /\ \E o \in Policies : pending[p].w = sys_delete_policy(o)

\* A version of the ancestor that was applied, or will be; or the harness went on
\* without it.
Versioned(v) == v = 0 \/ \E q \in archive : q.n = v
Brings(p, v) == Install(p, "A") /\ pending[p].w.val.n = v /\ pending[p].n \notin faults
Lost(s) == "swallowed" \in mishaps /\ \E k \in faults : s[k].w.obj = "A"

Archived(id) == (store["A"] # None => store["A"] \in archive) /\ \A q \in archive : Rules(id, q)

\* A pin lets the sys key govern.
Anchored(id, o, v) == (v = 2 => id # "S9") /\ (v = 0 => id # "S9" \/ o = "D")

KidsPinned(id) ==
  \A o \in Kids : store[o] # None => \A v \in {store[o].pin} : Versioned(v) /\ Anchored(id, o, v)

QueuePinned ==
  \A p \in 1 .. Len(pending), o \in Kids : Install(p, o) =>
    /\ store["A"] # None
    /\ \A v \in {pending[p].w.val.pin} :
         Versioned(v) \/ (\E j \in 1 .. p - 1 : Brings(j, v)) \/ pending[p].n \notin faults

Listed(o) == \E k \in 1 .. Len(policies) : policies[k] = o

Recording ==
  \A o \in Policies : (store[o] # None \/ \E p \in 1 .. Len(pending) : Install(p, o)) => Listed(o)

\* What the ancestor is while the scenario runs.
Amending(s, h, n, m) ==
  /\ h[m].st["A"] # None => store["A"] # None
  /\ \A q \in h[m].ar : Versioned(q.n) \/ (\E p \in 1 .. Len(pending) : Brings(p, q.n)) \/ Lost(s)
  /\ (Awaiting(s, n) /\ s[m].w.obj = "A") =>
       /\ sub.state = "accepted"
       /\ (\E p \in 1 .. Len(pending) : pending[p].n = m) \/ s[m].w.val \in archive \/ m \in faults

\* As long as no error was passed over, it changes only while it is awaited.
Watched(s, h, n, m) ==
  /\ \A p \in 1 .. Len(pending) : Install(p, "A") => pending[p].n = m /\ Awaiting(s, n)
  /\ (h[m].st["A"] = None /\ (Awaiting(s, n) => s[m].w.obj # "A")) => store["A"] = None
  /\ (n \in DOMAIN s /\ s[n].op = "submit" /\ s[n + 1].op = "changed" /\ s[n].obj = "A") => mark = store["A"]
  /\ (Awaiting(s, n) /\ s[m].w.obj = "A") =>
       \/ s[m].w.val \in archive /\ \A p \in 1 .. Len(pending) : ~Install(p, "A")
       \/ (s[n].op = "present" => store["A"] = None) /\ (s[n].op = "changed" => store["A"] = mark)

\* What is left to sweep.
Sweeping(id) ==
  \A o \in Policies : (id # "S9" \/ o # "D") =>
    \/ Listed(o)
    \/ \E p \in 1 .. Len(pending) : Delete(p, o)
    \/ store[o] = None /\ \A p \in 1 .. Len(pending) : ~Install(p, o)

SweepInv(id, s, h, n, m) ==
  /\ \A p \in 1 .. Len(pending) : Lined(s, n, p)
  /\ Archived(id)
  /\ Clean => KidsPinned(id) /\ QueuePinned
  /\ (Clean /\ outcome = None) => Recording /\ Amending(s, h, n, m) /\ ("swallowed" \notin mishaps => Watched(s, h, n, m))
  /\ (Clean /\ outcome # None) => Sweeping(id)

LEMMA OneFault ==
  ASSUME NEW id, NEW s, NEW h, Scenario(id, s, h), faults \subseteq Writes(id), Cardinality(faults) <= 1,
         NEW j \in faults, NEW k \in faults
  PROVE  j = k
<1>1. faults \subseteq 1 .. Len(s) /\ Len(s) \in Nat
  BY ScenarioFacts
<1>2. IsFiniteSet(faults)
  <2>1. 1 \in Int /\ Len(s) \in Int
    BY <1>1
  <2>2. IsFiniteSet(1 .. Len(s))
    BY <2>1, FS_Interval
  <2>3. faults \in SUBSET (1 .. Len(s))
    BY <1>1
  <2> QED BY <2>2, <2>3, FS_Subset
<1>3. {j, k} \subseteq faults
  OBVIOUS
<1>4. Cardinality({j, k}) <= Cardinality(faults) /\ IsFiniteSet({j, k})
  BY <1>2, <1>3, FS_Subset
<1>5. SUFFICES ASSUME j # k PROVE FALSE
  OBVIOUS
<1>6. Cardinality({j}) = 1 /\ IsFiniteSet({j})
  BY FS_Singleton
<1>7. {j, k} = {j} \cup {k} /\ k \notin {j}
  BY <1>5
<1>8. Cardinality({j, k}) = 2
  BY <1>6, <1>7, FS_AddElement
<1>9. Cardinality(faults) \in Nat
  BY <1>2, FS_CardinalityType
<1> QED BY <1>4, <1>8, <1>9

\* A write of the script that is pending.
LEMMA LinedFacts ==
  ASSUME NEW id, NEW s, NEW h, Scenario(id, s, h), NEW n, NEW p, Lined(s, n, p), pending[p].n # 0,
         NEW k, k = pending[p].n, NEW w, w = pending[p].w
  PROVE  /\ k \in DOMAIN s /\ k \in Nat /\ s[k].op = "submit" /\ w = s[k].w /\ w.obj \in Objects
         /\ w.obj \in Policies => w.by = "sys" /\ w.act = "post" /\ w.val # None /\ Sound(id, w, h[k])
<1>1. k \in DOMAIN s /\ s[k].op = "submit" /\ w = s[k].w
  BY DEF Lined
<1>2. k \in Nat /\ Awaited(id, s[k], s[k + 1], h[k]) /\ w.obj \in Objects /\ s[k].obj = w.obj
  BY <1>1, WriteFacts
<1>3. w.obj \in Policies => w.by = "sys" /\ w.act = "post" /\ w.val # None /\ Sound(id, w, h[k])
  BY <1>1, <1>2 DEF Awaited, Sound
<1> QED BY <1>1, <1>2, <1>3

LEMMA PolicyObjects == Policies \subseteq Objects /\ "A" \in Policies /\ Policies = Kids \cup {"A"} /\ "A" \notin Kids
BY DEF Policies, Objects, Kids

\* The sys key governs a child whose pin lets it.
LEMMA Governed ==
  ASSUME NEW id, Archived(id), NEW o, id # "S9" \/ o # "D", store[o] # None,
         NEW v, v = store[o].pin, Versioned(v), Anchored(id, o, v)
  PROVE  SysGoverns(store, archive, o)
<1>1. CASE v # 0
  <2>1. PICK q \in archive : q.n = v
    BY <1>1 DEF Versioned
  <2>2. q.govern = "sys"
    BY <2>1 DEF Archived, Rules, Anchored
  <2> QED BY <1>1, <2>1, <2>2 DEF SysGoverns
<1>2. CASE v = 0
  <2>1. store["A"] # None => store["A"].govern = "sys"
    BY <1>2 DEF Archived, Rules, Anchored
  <2> QED BY <1>2, <2>1 DEF SysGoverns
<1> QED BY <1>1, <1>2

\* The deletion of a policy by the sweep is permitted if there is one.
LEMMA Deletable ==
  ASSUME NEW id, NEW s, NEW h, Scenario(id, s, h), faults \subseteq Writes(id),
         Archived(id), KidsPinned(id), NEW o \in Policies, id # "S9" \/ o # "D"
  PROVE  Judged(sys_delete_policy(o), 0) <=> store[o] # None
<1> DEFINE w == sys_delete_policy(o)
<1>1. w.by = "sys" /\ w.act = "delete" /\ w.obj = o /\ w.val = None
  BY DEF sys_delete_policy, Write
<1> HIDE DEF w
<1>2. 0 \notin faults
  <2>1. faults \subseteq 1 .. Len(s) /\ Len(s) \in Nat
    BY ScenarioFacts
  <2> QED BY <2>1
<1>3. store[o] # None => Permits(store, archive, w)
  <2> SUFFICES ASSUME store[o] # None PROVE Permits(store, archive, w)
    OBVIOUS
  <2>1. CASE o = "A"
    BY <1>1, <2>1 DEF Permits, Policies
  <2>2. CASE o # "A"
    <3>1. o \in Kids
      BY <2>2 DEF Kids
    <3>2. SysGoverns(store, archive, o)
      <4>1. PICK v : v = store[o].pin
        OBVIOUS
      <4>2. Versioned(v) /\ Anchored(id, o, v)
        BY <3>1, <4>1 DEF KidsPinned
      <4> QED BY <4>1, <4>2, Governed
    <3>3. ChildAllowed(store, archive, w)
      BY <1>1, <3>2 DEF ChildAllowed
    <3> QED BY <1>1, <2>2, <3>3 DEF Permits, Policies
  <2> QED BY <2>1, <2>2
<1>4. Permits(store, archive, w) => store[o] # None
  BY <1>1 DEF Permits
<1>5. Judged(w, 0) <=> Permits(store, archive, w)
  BY <1>1, <1>2 DEF Judged, Allowed
<1> QED BY <1>3, <1>4, <1>5 DEF w

\* An install of the ancestor takes effect unless it is misjudged; one of a child that
\* is judged correctly is pinned to a version that was applied.
LEMMA AncestorJudged ==
  ASSUME NEW w, NEW k, w.by = "sys", w.act = "post", w.obj = "A"
  PROVE  Judged(w, k) <=> k \notin faults
<1>1. Permits(store, archive, w)
  BY DEF Permits, Policies
<1> QED BY <1>1 DEF Judged, Allowed

LEMMA ChildJudged ==
  ASSUME NEW id, Archived(id), KidsPinned(id), store["A"] # None,
         NEW w, NEW k, w.act = "post", w.obj \in Kids, k \notin faults, Judged(w, k), NEW v, v = w.val.pin
  PROVE  Versioned(v)
<1>1. ChildAllowed(store, archive, w)
  BY DEF Judged, Allowed, Permits, Policies, Kids
<1>2. v \in {0, store["A"].n} \cup (IF store[w.obj] = None THEN {} ELSE {store[w.obj].pin})
  BY <1>1 DEF ChildAllowed
<1>3. CASE v \in {0, store["A"].n}
  BY <1>3 DEF Versioned, Archived
<1>4. CASE store[w.obj] # None /\ v = store[w.obj].pin
  BY <1>4 DEF KidsPinned
<1> QED BY <1>2, <1>3, <1>4

\* The entries of the queue after the oldest.
LEMMA TailFacts ==
  ASSUME NEW T, pending \in Seq(T), pending # <<>>, pending' = Tail(pending)
  PROVE  /\ Head(pending) = pending[1] /\ 1 \in 1 .. Len(pending) /\ Len(pending) \in Nat
         /\ \A p \in 1 .. Len(pending') : p + 1 \in 1 .. Len(pending) /\ pending'[p] = pending[p + 1] /\ p \in Nat
         /\ \A p \in 1 .. Len(pending) : p = 1 \/ (p - 1 \in 1 .. Len(pending') /\ pending'[p - 1] = pending[p])
         /\ Len(pending') \in Nat
<1>1. Len(pending) \in Nat /\ Len(pending) # 0 /\ Len(pending') = Len(pending) - 1 /\ Head(pending) = pending[1]
      /\ \A p \in 1 .. Len(pending') : pending'[p] = pending[p + 1]
  OBVIOUS
<1>2. \A p \in 1 .. Len(pending') : p + 1 \in 1 .. Len(pending) /\ p \in Nat
  BY <1>1
<1>3. ASSUME NEW p \in 1 .. Len(pending), p # 1 PROVE p - 1 \in 1 .. Len(pending') /\ pending'[p - 1] = pending[p]
  <2>1. p - 1 \in 1 .. Len(pending') /\ (p - 1) + 1 = p
    BY <1>1, <1>3
  <2> QED BY <1>1, <2>1
<1> QED BY <1>1, <1>2, <1>3

\* The queue stays in line when the oldest entry leaves it.
LEMMA LinedTail ==
  ASSUME NEW T, pending \in Seq(T), pending # <<>>, pending' = Tail(pending), outcome' = outcome,
         NEW s, NEW n, \A p \in 1 .. Len(pending) : Lined(s, n, p)
  PROVE  \A p \in 1 .. Len(pending') : Lined(s, n, p)'
<1> SUFFICES ASSUME NEW p \in 1 .. Len(pending') PROVE Lined(s, n, p)'
  OBVIOUS
<1>1. p + 1 \in 1 .. Len(pending) /\ pending'[p] = pending[p + 1] /\ p \in Nat
  BY TailFacts
<1>2. Lined(s, n, p + 1)
  BY <1>1
<1>3. CASE pending[p + 1].n = 0 /\ outcome # None /\ \E o \in Policies : pending[p + 1].w = sys_delete_policy(o)
  BY <1>1, <1>3 DEF Lined
<1>4. CASE /\ pending[p + 1].n \in DOMAIN s /\ s[pending[p + 1].n].op = "submit" /\ pending[p + 1].w = s[pending[p + 1].n].w
           /\ outcome = None => pending[p + 1].n < n
           /\ \A j \in 1 .. (p + 1) - 1 : pending[j].n # 0 /\ pending[j].n < pending[p + 1].n
  <2>1. ASSUME NEW j \in 1 .. p - 1 PROVE pending'[j].n # 0 /\ pending'[j].n < pending'[p].n
    <3>1. j \in 1 .. Len(pending') /\ j + 1 \in 1 .. (p + 1) - 1
      <4>1. Len(pending') \in Nat
        BY TailFacts
      <4> QED BY <1>1, <4>1
    <3>2. pending'[j] = pending[j + 1]
      BY <3>1, TailFacts
    <3> QED BY <1>1, <1>4, <3>1, <3>2
  <2> QED BY <1>1, <1>4, <2>1 DEF Lined
<1> QED BY <1>2, <1>3, <1>4 DEF Lined

\* What the replay of an entry does to the policies.
Replayed(id, w, k) ==
  /\ Archived(id)'
  /\ archive \subseteq archive'
  /\ \A o \in Policies : w.obj # o => store'[o] = store[o]
  /\ k # 0 => \A o \in Policies : store[o] # None => store'[o] # None
  /\ (w.obj = "A" /\ k # 0 /\ k \notin faults) => w.val \in archive'
  /\ ~Judged(w, k) => store' = store
  /\ (w.obj \in Policies /\ Judged(w, k)) => store'[w.obj] = w.val

LEMMA Effect ==
  ASSUME LiveTyped, NEW id, NEW s, NEW h, Scenario(id, s, h), NEW n, NEW e, NEW w, NEW k,
         pending # <<>>, pending \in Seq(Entries(id)), e = pending[1], w = e.w, k = e.n, Lined(s, n, 1),
         Apply(e), Archived(id)
  PROVE  Replayed(id, w, k) /\ w.obj \in Objects
<1>1. k # 0 => (w.obj \in Policies => w.by = "sys" /\ w.act = "post" /\ w.val # None /\ Sound(id, w, h[k]))
  BY LinedFacts
<1>2. k = 0 => w.act = "delete" /\ w.val = None /\ w.obj \in Policies
  <2>1. 0 \notin DOMAIN s
    <3>1. DOMAIN s = 1 .. Len(s)
      BY ScenarioFacts
    <3> QED BY <3>1
  <2>2. k = 0 => \E o \in Policies : w = sys_delete_policy(o)
    BY <2>1 DEF Lined
  <2>3. \A o \in Policies : sys_delete_policy(o).act = "delete" /\ sys_delete_policy(o).val = None /\ sys_delete_policy(o).obj = o
    BY DEF sys_delete_policy, Write
  <2> QED BY <2>2, <2>3
<1>3. w.obj \in Objects
  <2>1. CASE k # 0
    BY <2>1, LinedFacts
  <2>2. CASE k = 0
    BY <1>2, <2>2, PolicyObjects
  <2> QED BY <2>1, <2>2
<1>4. store = [o \in Objects |-> store[o]]
  BY DEF LiveTyped
<1>5. CASE ~Judged(w, k)
  <2>1. UNCHANGED <<store, archive>>
    BY <1>5 DEF Apply
  <2>2. ~(w.obj = "A" /\ k # 0 /\ k \notin faults)
    <3>1. SUFFICES ASSUME w.obj = "A", k # 0, k \notin faults PROVE FALSE
      OBVIOUS
    <3> QED BY <1>1, <1>5, <3>1, AncestorJudged, PolicyObjects
  <2> QED BY <1>3, <1>5, <2>1, <2>2 DEF Replayed, Archived
<1>6. CASE Judged(w, k)
  <2>1. /\ store' = [store EXCEPT ![w.obj] = w.val]
        /\ archive' = IF w.obj = "A" /\ w.act = "post" THEN archive \cup {w.val} ELSE archive
    BY <1>6 DEF Apply
  <2>2. \A o \in Objects : w.obj # o => store'[o] = store[o]
    BY <1>4, <2>1
  <2>3. store'[w.obj] = w.val
    BY <1>3, <1>4, <2>1
  <2>4. Archived(id)'
    <3>1. CASE w.obj = "A" /\ k # 0
      <4>1. archive' = archive \cup {w.val} /\ store'["A"] = w.val
        BY <1>1, <2>1, <2>3, <3>1, PolicyObjects
      <4>2. Rules(id, w.val)
        BY <1>1, <3>1, PolicyObjects DEF Sound
      <4> QED BY <4>1, <4>2 DEF Archived
    <3>2. CASE w.obj = "A" /\ k = 0
      BY <1>2, <2>1, <2>3, <3>2 DEF Archived
    <3>3. CASE w.obj # "A"
      BY <2>1, <2>2, <3>3, PolicyObjects DEF Archived
    <3> QED BY <3>1, <3>2, <3>3
  <2>5. archive \subseteq archive' /\ ((w.obj = "A" /\ k # 0) => w.val \in archive')
    BY <1>1, <2>1, PolicyObjects
  <2>6. k # 0 => \A o \in Policies : store[o] # None => store'[o] # None
    BY <1>1, <2>2, <2>3, PolicyObjects
  <2> QED BY <1>3, <1>6, <2>2, <2>3, <2>4, <2>5, <2>6, PolicyObjects DEF Replayed
<1> QED BY <1>5, <1>6

\* The oldest entry is replayed.
LEMMA SweepReplay ==
  ASSUME LiveTyped, NEW id, NEW s, NEW h, NEW n, NEW m, Position(id, s, h, n, m), SweepInv(id, s, h, n, m), Replay
  PROVE  SweepInv(id, s, h, n, m)'
<1>1. /\ UNCHANGED <<sub, mark, outcome, policies, faults, mishaps>> /\ pending # <<>>
      /\ Apply(Head(pending)) /\ pending' = Tail(pending)
  BY DEF Replay, harness
<1>2. pending \in Seq(Entries(id)) /\ faults \subseteq Writes(id) /\ Scenario(id, s, h)
  BY PositionFacts DEF Position
<1>3. /\ Head(pending) = pending[1] /\ 1 \in 1 .. Len(pending) /\ Len(pending) \in Nat
      /\ \A p \in 1 .. Len(pending') : p + 1 \in 1 .. Len(pending) /\ pending'[p] = pending[p + 1] /\ p \in Nat
      /\ \A p \in 1 .. Len(pending) : p = 1 \/ (p - 1 \in 1 .. Len(pending') /\ pending'[p - 1] = pending[p])
      /\ Len(pending') \in Nat
  BY <1>1, <1>2, TailFacts
<1>4. \A p \in 1 .. Len(pending) : Lined(s, n, p)
  BY DEF SweepInv
<1>5. PICK w, k : w = pending[1].w /\ k = pending[1].n
  OBVIOUS
<1>6. Lined(s, n, 1) /\ Archived(id)
  BY <1>3, <1>4 DEF SweepInv
<1>7. Replayed(id, w, k) /\ w.obj \in Objects
  BY <1>1, <1>2, <1>3, <1>5, <1>6, Effect
<1>8. k # 0 => /\ k \in DOMAIN s /\ k \in Nat /\ s[k].op = "submit" /\ w = s[k].w
               /\ w.obj \in Policies => w.by = "sys" /\ w.act = "post" /\ w.val # None /\ Sound(id, w, h[k])
  BY <1>2, <1>5, <1>6, LinedFacts
<1>9. k = 0 => outcome # None /\ \E o \in Policies : w = sys_delete_policy(o)
  <2>1. 0 \notin DOMAIN s
    <3>1. DOMAIN s = 1 .. Len(s)
      BY <1>2, ScenarioFacts
    <3> QED BY <3>1
  <2> QED BY <1>5, <1>6, <2>1 DEF Lined
<1>10. \A o : sys_delete_policy(o).act = "delete" /\ sys_delete_policy(o).val = None /\ sys_delete_policy(o).obj = o
  BY DEF sys_delete_policy, Write
\* Entries that stay.
<1>11. ASSUME NEW p \in 1 .. Len(pending'), NEW o
       PROVE  /\ Install(p, o)' <=> Install(p + 1, o)
              /\ Delete(p, o)' <=> Delete(p + 1, o)
              /\ \A v : Brings(p, v)' <=> Brings(p + 1, v)
  BY <1>1, <1>3 DEF Install, Delete, Brings
<1>12. ASSUME NEW p \in 1 .. Len(pending), p # 1, NEW o
       PROVE  /\ p - 1 \in 1 .. Len(pending')
              /\ Delete(p, o) => Delete(p - 1, o)'
              /\ \A v : Brings(p, v) => Brings(p - 1, v)'
  <2>1. p - 1 \in 1 .. Len(pending') /\ pending'[p - 1] = pending[p]
    BY <1>3, <1>12
  <2> QED BY <1>1, <2>1 DEF Install, Delete, Brings
\* A write of the script after the oldest entry was submitted after it.
<1>13. ASSUME NEW p \in 1 .. Len(pending'), pending[p + 1].n # 0 PROVE k # 0 /\ k < pending[p + 1].n
  <2>1. Lined(s, n, p + 1) /\ 1 \in 1 .. (p + 1) - 1
    BY <1>3, <1>4
  <2> QED BY <1>5, <1>13, <2>1 DEF Lined
<1>14. \A v : Versioned(v) => Versioned(v)'
  BY <1>7 DEF Versioned, Replayed
<1>15. "A" \in Policies /\ Policies = Kids \cup {"A"} /\ "A" \notin Kids
  BY PolicyObjects
<1>16. \A p \in 1 .. Len(pending') : Lined(s, n, p)'
  BY <1>1, <1>2, <1>4, LinedTail
\* The version that the oldest entry brings.
<1>17. \A v : Brings(1, v) => Versioned(v)'
  <2> SUFFICES ASSUME NEW v, Brings(1, v) PROVE Versioned(v)'
    OBVIOUS
  <2>1. w.obj = "A" /\ k # 0 /\ k \notin faults /\ w.val.n = v
    BY <1>5 DEF Brings, Install
  <2>2. w.val \in archive'
    BY <1>7, <2>1 DEF Replayed
  <2> QED BY <2>1, <2>2 DEF Versioned
<1>18. \A v : (\E p \in 1 .. Len(pending) : Brings(p, v)) => Versioned(v)' \/ \E p \in 1 .. Len(pending') : Brings(p, v)'
  BY <1>12, <1>17
<1>19. Clean' => Clean
  BY <1>1 DEF Clean
<1>20. ASSUME Clean PROVE KidsPinned(id)'
  <2>1. KidsPinned(id) /\ QueuePinned
    BY <1>20 DEF SweepInv
  <2>2. SUFFICES ASSUME NEW o \in Kids, store'[o] # None, NEW v, v = store'[o].pin
                 PROVE  Versioned(v)' /\ Anchored(id, o, v)
    BY DEF KidsPinned, Anchored
  <2>3. CASE store'[o] = store[o]
    BY <1>14, <2>1, <2>2, <2>3 DEF KidsPinned
  <2>4. CASE store'[o] # store[o]
    <3>1. w.obj = o /\ Judged(w, k) /\ store'[o] = w.val
      BY <1>7, <1>15, <2>4 DEF Replayed
    <3>2. k # 0
      BY <1>9, <1>10, <2>2, <3>1
    <3>3. Sound(id, w, h[k]) /\ w.act = "post"
      BY <1>8, <1>15, <3>1, <3>2
    <3>4. Anchored(id, o, v)
      BY <1>15, <2>2, <3>1, <3>3 DEF Sound, Anchored
    <3>5. Install(1, o) /\ v = pending[1].w.val.pin
      BY <1>5, <2>2, <3>1, <3>2 DEF Install
    <3>6. store["A"] # None /\ (Versioned(v) \/ k \notin faults)
      <4>1. store["A"] # None /\ (Versioned(v) \/ (\E j \in 1 .. 1 - 1 : Brings(j, v)) \/ pending[1].n \notin faults)
        BY <1>3, <2>1, <3>5 DEF QueuePinned
      <4> QED BY <1>5, <4>1
    <3>7. Versioned(v)
      BY <1>6, <2>1, <2>2, <3>1, <3>3, <3>6, ChildJudged
    <3> QED BY <1>14, <3>4, <3>7
  <2> QED BY <2>3, <2>4
<1>21. ASSUME Clean PROVE QueuePinned'
  <2>1. QueuePinned
    BY <1>21 DEF SweepInv
  <2>2. SUFFICES ASSUME NEW p \in 1 .. Len(pending'), NEW o \in Kids, Install(p, o)',
                        NEW v, v = pending'[p].w.val.pin
                 PROVE  /\ store'["A"] # None
                        /\ Versioned(v)' \/ (\E j \in 1 .. p - 1 : Brings(j, v)') \/ pending'[p].n \notin faults'
    BY DEF QueuePinned
  <2>3. Install(p + 1, o) /\ p + 1 \in 1 .. Len(pending) /\ pending'[p] = pending[p + 1] /\ p \in Nat /\ v = pending[p + 1].w.val.pin
    BY <1>3, <1>11, <2>2
  <2>4. /\ store["A"] # None
        /\ Versioned(v) \/ (\E j \in 1 .. (p + 1) - 1 : Brings(j, v)) \/ pending[p + 1].n \notin faults
    BY <2>1, <2>3 DEF QueuePinned
  <2>5. k # 0
    BY <1>13, <2>3 DEF Install
  <2>6. store'["A"] # None
    BY <1>7, <1>15, <2>4, <2>5 DEF Replayed
  <2>7. ASSUME NEW j \in 1 .. (p + 1) - 1, Brings(j, v) PROVE Versioned(v)' \/ \E l \in 1 .. p - 1 : Brings(l, v)'
    <3>1. CASE j = 1
      BY <1>17, <2>7, <3>1
    <3>2. CASE j # 1
      <4>1. j \in 1 .. Len(pending) /\ j - 1 \in 1 .. p - 1
        BY <1>3, <2>3, <3>2
      <4>2. Brings(j - 1, v)'
        BY <1>12, <2>7, <3>2, <4>1
      <4> QED BY <4>1, <4>2
    <3> QED BY <3>1, <3>2
  <2> QED BY <1>1, <1>14, <2>3, <2>4, <2>6, <2>7
<1>22. ASSUME Clean, outcome = None PROVE Recording' /\ Amending(s, h, n, m)'
  <2>1. Recording /\ Amending(s, h, n, m) /\ k # 0
    BY <1>9, <1>22 DEF SweepInv
  <2>2. Recording'
    <3> SUFFICES ASSUME NEW o \in Policies, store'[o] # None \/ \E p \in 1 .. Len(pending') : Install(p, o)'
                 PROVE  Listed(o)'
      BY DEF Recording
    <3>1. store[o] # None \/ \E p \in 1 .. Len(pending) : Install(p, o)
      <4>1. CASE \E p \in 1 .. Len(pending') : Install(p, o)'
        BY <1>3, <1>11, <4>1
      <4>2. CASE store'[o] # None /\ w.obj # o
        BY <1>7, <4>2 DEF Replayed
      <4>3. CASE w.obj = o
        BY <1>3, <1>5, <2>1, <4>3 DEF Install
      <4> QED BY <4>1, <4>2, <4>3
    <3>2. Listed(o)
      BY <2>1, <3>1 DEF Recording
    <3> QED BY <1>1, <3>2 DEF Listed
  <2>3. h[m].st["A"] # None => store'["A"] # None
    BY <1>7, <1>15, <2>1 DEF Replayed, Amending
  <2>4. \A q \in h[m].ar : Versioned(q.n)' \/ (\E p \in 1 .. Len(pending') : Brings(p, q.n)') \/ Lost(s)'
    <3> SUFFICES ASSUME NEW q \in h[m].ar
                 PROVE  Versioned(q.n)' \/ (\E p \in 1 .. Len(pending') : Brings(p, q.n)') \/ Lost(s)'
      OBVIOUS
    <3>1. Versioned(q.n) \/ (\E p \in 1 .. Len(pending) : Brings(p, q.n)) \/ Lost(s)
      BY <2>1 DEF Amending
    <3>2. Lost(s) => Lost(s)'
      BY <1>1 DEF Lost
    <3> QED BY <1>14, <1>18, <3>1, <3>2
  <2>5. (Awaiting(s, n) /\ s[m].w.obj = "A") =>
          /\ sub'.state = "accepted"
          /\ (\E p \in 1 .. Len(pending') : pending'[p].n = m) \/ s[m].w.val \in archive' \/ m \in faults'
    <3> SUFFICES ASSUME Awaiting(s, n), s[m].w.obj = "A"
                 PROVE  /\ sub'.state = "accepted"
                        /\ (\E p \in 1 .. Len(pending') : pending'[p].n = m) \/ s[m].w.val \in archive' \/ m \in faults'
      OBVIOUS
    <3>1. /\ sub.state = "accepted"
          /\ (\E p \in 1 .. Len(pending) : pending[p].n = m) \/ s[m].w.val \in archive \/ m \in faults
      BY <2>1 DEF Amending
    <3>2. ASSUME NEW p \in 1 .. Len(pending), pending[p].n = m
          PROVE  (\E l \in 1 .. Len(pending') : pending'[l].n = m) \/ s[m].w.val \in archive' \/ m \in faults'
      <4>1. CASE p = 1
        <5>1. k = m /\ w = s[m].w
          BY <1>5, <1>8, <2>1, <3>2, <4>1
        <5> QED BY <1>1, <1>7, <2>1, <5>1 DEF Replayed
      <4>2. CASE p # 1
        <5>1. p - 1 \in 1 .. Len(pending') /\ pending'[p - 1] = pending[p]
          BY <1>3, <4>2
        <5> QED BY <3>2, <5>1
      <4> QED BY <4>1, <4>2
    <3> QED BY <1>1, <1>7, <3>1, <3>2 DEF Replayed
  <2> QED BY <2>2, <2>3, <2>4, <2>5 DEF Amending
<1>23. ASSUME Clean, outcome = None, "swallowed" \notin mishaps PROVE Watched(s, h, n, m)'
  <2>1. Watched(s, h, n, m) /\ k # 0
    BY <1>9, <1>23 DEF SweepInv
  <2>2. w.obj = "A" => Install(1, "A") /\ k = m /\ Awaiting(s, n) /\ w = s[m].w
    <3> SUFFICES ASSUME w.obj = "A" PROVE Install(1, "A") /\ k = m /\ Awaiting(s, n) /\ w = s[m].w
      OBVIOUS
    <3>1. Install(1, "A")
      BY <1>5, <2>1 DEF Install
    <3>2. pending[1].n = m /\ Awaiting(s, n)
      BY <1>3, <2>1, <3>1 DEF Watched
    <3> QED BY <1>5, <1>8, <2>1, <3>1, <3>2
  <2>3. w.obj # "A" => store'["A"] = store["A"]
    BY <1>7, <1>15 DEF Replayed
  <2>4. \A p \in 1 .. Len(pending') : Install(p, "A")' => pending'[p].n = m /\ Awaiting(s, n)
    BY <1>3, <1>11, <2>1 DEF Watched
  <2>5. (h[m].st["A"] = None /\ (Awaiting(s, n) => s[m].w.obj # "A")) => store'["A"] = None
    BY <2>1, <2>2, <2>3 DEF Watched
  <2>6. (n \in DOMAIN s /\ s[n].op = "submit" /\ s[n + 1].op = "changed" /\ s[n].obj = "A") => mark' = store'["A"]
    <3> SUFFICES ASSUME n \in DOMAIN s, s[n].op = "submit", s[n + 1].op = "changed", s[n].obj = "A"
                 PROVE  mark' = store'["A"]
      OBVIOUS
    <3>1. mark = store["A"]
      BY <2>1 DEF Watched
    <3>2. ~Awaiting(s, n)
      BY <1>2, WriteFacts
    <3> QED BY <1>1, <2>2, <2>3, <3>1, <3>2
  <2>7. ASSUME Awaiting(s, n), s[m].w.obj = "A"
        PROVE  \/ s[m].w.val \in archive' /\ \A p \in 1 .. Len(pending') : ~Install(p, "A")'
               \/ (s[n].op = "present" => store'["A"] = None) /\ (s[n].op = "changed" => store'["A"] = mark')
    <3>1. \/ s[m].w.val \in archive /\ \A p \in 1 .. Len(pending) : ~Install(p, "A")
          \/ (s[n].op = "present" => store["A"] = None) /\ (s[n].op = "changed" => store["A"] = mark)
      BY <2>1, <2>7 DEF Watched
    <3>2. CASE s[m].w.val \in archive /\ \A p \in 1 .. Len(pending) : ~Install(p, "A")
      BY <1>3, <1>7, <1>11, <3>2 DEF Replayed
    <3>3. CASE (s[n].op = "present" => store["A"] = None) /\ (s[n].op = "changed" => store["A"] = mark)
      <4>1. CASE store'["A"] = store["A"]
        BY <1>1, <3>3, <4>1
      <4>2. CASE store'["A"] # store["A"]
        <5>1. w.obj = "A" /\ Judged(w, k) /\ k = m /\ w = s[m].w
          BY <1>7, <2>2, <2>3, <4>2 DEF Replayed
        <5>2. k \notin faults
          BY <1>8, <1>15, <2>1, <5>1, AncestorJudged
        <5>3. s[m].w.val \in archive'
          BY <1>7, <2>1, <5>1, <5>2 DEF Replayed
        <5>4. \A p \in 1 .. Len(pending') : ~Install(p, "A")'
          <6> SUFFICES ASSUME NEW p \in 1 .. Len(pending'), Install(p, "A")' PROVE FALSE
            OBVIOUS
          <6>1. Install(p + 1, "A") /\ p + 1 \in 1 .. Len(pending)
            BY <1>3, <1>11
          <6>2. pending[p + 1].n = m /\ pending[p + 1].n # 0
            BY <2>1, <6>1 DEF Watched, Install
          <6>3. k < pending[p + 1].n
            BY <1>13, <6>2
          <6> QED BY <1>8, <2>1, <5>1, <6>2, <6>3
        <5> QED BY <5>3, <5>4
      <4> QED BY <4>1, <4>2
    <3> QED BY <3>1, <3>2, <3>3
  <2> QED BY <2>4, <2>5, <2>6, <2>7 DEF Watched
<1>24. ASSUME Clean, outcome # None PROVE Sweeping(id)'
  <2>1. Sweeping(id) /\ KidsPinned(id)
    BY <1>24 DEF SweepInv
  <2>2. SUFFICES ASSUME NEW o \in Policies, id # "S9" \/ o # "D"
                 PROVE  \/ Listed(o)'
                        \/ \E p \in 1 .. Len(pending') : Delete(p, o)'
                        \/ store'[o] = None /\ \A p \in 1 .. Len(pending') : ~Install(p, o)'
    BY DEF Sweeping
  <2>3. \/ Listed(o)
        \/ \E p \in 1 .. Len(pending) : Delete(p, o)
        \/ store[o] = None /\ \A p \in 1 .. Len(pending) : ~Install(p, o)
    BY <2>1, <2>2 DEF Sweeping
  <2>4. CASE Listed(o)
    BY <1>1, <2>4 DEF Listed
  <2>5. ASSUME NEW p \in 1 .. Len(pending), Delete(p, o), p # 1 PROVE \E l \in 1 .. Len(pending') : Delete(l, o)'
    BY <1>12, <2>5
  <2>6. ASSUME Delete(1, o) PROVE store'[o] = None /\ \A p \in 1 .. Len(pending') : ~Install(p, o)'
    <3>1. k = 0 /\ w.obj = o
      BY <1>5, <2>6 DEF Delete
    <3>2. w = sys_delete_policy(o)
      BY <1>9, <1>10, <3>1
    <3>3. Judged(w, k) <=> store[o] # None
      BY <1>2, <1>6, <2>1, <2>2, <3>1, <3>2, Deletable
    <3>4. store'[o] = None
      BY <1>7, <1>10, <3>1, <3>2, <3>3 DEF Replayed
    <3>5. \A p \in 1 .. Len(pending') : ~Install(p, o)'
      BY <1>11, <1>13, <3>1 DEF Install
    <3> QED BY <3>4, <3>5
  <2>7. CASE store[o] = None /\ \A p \in 1 .. Len(pending) : ~Install(p, o)
    <3>1. \A p \in 1 .. Len(pending') : ~Install(p, o)'
      BY <1>3, <1>11, <2>7
    <3>2. store'[o] = None
      <4>1. CASE w.obj # o
        BY <1>7, <2>7, <4>1 DEF Replayed
      <4>2. CASE w.obj = o
        <5>1. k = 0
          BY <1>3, <1>5, <2>7, <4>2 DEF Install
        <5> QED BY <1>7, <1>9, <1>10, <2>7, <4>2, <5>1 DEF Replayed
      <4> QED BY <4>1, <4>2
    <3> QED BY <3>1, <3>2
  <2> QED BY <2>3, <2>4, <2>5, <2>6, <2>7
<1> QED BY <1>1, <1>7, <1>16, <1>19, <1>20, <1>21, <1>22, <1>23, <1>24 DEF SweepInv, Replayed

\* Steps that leave the policies and the queue as they are, but for ages and overlays.
LEMMA SweepFrame ==
  ASSUME NEW id, NEW s, NEW h, NEW n, NEW m, SweepInv(id, s, h, n, m),
         UNCHANGED <<store, archive, faults, policies, outcome, mark>>, Len(pending') = Len(pending), Len(pending) \in Nat,
         \A p \in 1 .. Len(pending) : pending'[p].w = pending[p].w /\ pending'[p].n = pending[p].n,
         Awaiting(s, n) => sub'.state = sub.state,
         mishaps \subseteq mishaps', "swallowed" \in mishaps' => "swallowed" \in mishaps
  PROVE  SweepInv(id, s, h, n, m)'
<1>1. Clean' => Clean
  BY DEF Clean
<1>2. \A p \in 1 .. Len(pending') : \A o : (Install(p, o)' <=> Install(p, o)) /\ (Delete(p, o)' <=> Delete(p, o))
  BY DEF Install, Delete
<1>3. \A p \in 1 .. Len(pending') : \A v : Brings(p, v)' <=> Brings(p, v)
  BY DEF Brings, Install
<1>4. ASSUME NEW p \in 1 .. Len(pending') PROVE Lined(s, n, p)'
  <2>1. Lined(s, n, p) /\ p \in 1 .. Len(pending)
    BY DEF SweepInv
  <2>2. PICK L \in Nat : L = Len(pending)
    OBVIOUS
  <2>3. \A j \in 1 .. p - 1 : j \in 1 .. L
    BY <2>1, <2>2
  <2>4. \A j \in 1 .. p - 1 : pending'[j].n = pending[j].n
    BY <2>2, <2>3
  <2> QED BY <2>1, <2>4 DEF Lined
<1>5. Archived(id)'
  BY DEF SweepInv, Archived
<1>6. KidsPinned(id) => KidsPinned(id)'
  BY DEF KidsPinned, Versioned, Anchored
<1>7. QueuePinned => QueuePinned'
  <2> SUFFICES ASSUME QueuePinned, NEW p \in 1 .. Len(pending'), NEW o \in Kids, Install(p, o)',
                      NEW v, v = pending'[p].w.val.pin
               PROVE  /\ store'["A"] # None
                      /\ Versioned(v)' \/ (\E j \in 1 .. p - 1 : Brings(j, v)') \/ pending'[p].n \notin faults'
    BY DEF QueuePinned
  <2>1. Install(p, o) /\ v = pending[p].w.val.pin /\ p \in 1 .. Len(pending)
    BY <1>2
  <2>2. /\ store["A"] # None
        /\ Versioned(v) \/ (\E j \in 1 .. p - 1 : Brings(j, v)) \/ pending[p].n \notin faults
    BY <2>1 DEF QueuePinned
  <2>3. ASSUME NEW j \in 1 .. p - 1, Brings(j, v) PROVE Brings(j, v)'
    BY <2>3 DEF Brings, Install
  <2> QED BY <2>1, <2>2, <2>3 DEF Versioned
<1>8. Recording => Recording'
  BY <1>2 DEF Recording, Listed
<1>9. Amending(s, h, n, m) => Amending(s, h, n, m)'
  BY <1>3 DEF Amending, Versioned, Lost
<1>10. Watched(s, h, n, m) => Watched(s, h, n, m)'
  BY <1>2 DEF Watched
<1>11. Sweeping(id) => Sweeping(id)'
  BY <1>2 DEF Sweeping, Listed
<1> QED BY <1>1, <1>4, <1>5, <1>6, <1>7, <1>8, <1>9, <1>10, <1>11 DEF SweepInv

\* Nothing is claimed of what a lost write was to do.
LEMMA SweepLost ==
  ASSUME NEW id, NEW s, NEW h, NEW k, NEW j, \A p \in 1 .. Len(pending') : Lined(s, k, p)', Archived(id), UNCHANGED <<store, archive>>,
         {"dropped", "unanswered", "early"} \cap mishaps' # {}
  PROVE  SweepInv(id, s, h, k, j)'
<1>1. Archived(id)'
  BY DEF Archived
<1>2. ~Clean'
  BY DEF Clean
<1> QED BY <1>1, <1>2 DEF SweepInv

\* When the scenario returns, what is there or may be is recorded.
LEMMA SweepEnd ==
  ASSUME NEW id, NEW s, NEW h, NEW n, NEW m, SweepInv(id, s, h, n, m), NEW k, NEW j,
         outcome = None, outcome' # None, UNCHANGED <<store, archive, pending, faults>>, mishaps \subseteq mishaps',
         \A o \in Policies : Listed(o) => Listed(o)'
  PROVE  SweepInv(id, s, h, k, j)'
<1>1. Clean' => Clean
  BY DEF Clean
<1>2. \A p : Lined(s, n, p) => Lined(s, k, p)'
  BY DEF Lined
<1>3. Archived(id)' /\ (KidsPinned(id) => KidsPinned(id)') /\ (QueuePinned => QueuePinned')
  <2>1. Archived(id)'
    BY DEF SweepInv, Archived
  <2>2. KidsPinned(id) => KidsPinned(id)'
    BY DEF KidsPinned, Versioned, Anchored
  <2>3. QueuePinned => QueuePinned'
    BY DEF QueuePinned, Versioned, Brings, Install
  <2> QED BY <2>1, <2>2, <2>3
<1>4. Recording => Sweeping(id)'
  BY DEF Recording, Sweeping, Install
<1> QED BY <1>1, <1>2, <1>3, <1>4 DEF SweepInv

\* A write of the script joins the queue in line.
LEMMA LinedPost ==
  ASSUME LiveTyped, NEW id, NEW s, NEW h, NEW n, NEW m, Position(id, s, h, n, m), \A p \in 1 .. Len(pending) : Lined(s, n, p),
         outcome = None, n \in DOMAIN s, s[n].op = "submit", pending' \in {pending, Append(pending, Entry(s[n].w, n))},
         NEW k, outcome' = None => k = n + 1
  PROVE  \A p \in 1 .. Len(pending') : Lined(s, k, p)'
<1>1. pending \in Seq(Entries(id)) /\ n \in Nat /\ n # 0 /\ DOMAIN s = 1 .. Len(s) /\ Len(s) \in Nat
  <2>1. DOMAIN s = 1 .. Len(s) /\ Len(s) \in Nat
    BY ScenarioFacts DEF Position
  <2>2. pending \in Seq(Entries(id)) /\ n \in Nat
    BY PositionFacts
  <2> QED BY <2>1, <2>2
<1>2. PICK L \in Nat : L = Len(pending)
  BY <1>1
<1>3. \A p \in 1 .. L : /\ pending[p].n \in DOMAIN s /\ s[pending[p].n].op = "submit" /\ pending[p].w = s[pending[p].n].w
                        /\ pending[p].n < n
                        /\ \A j \in 1 .. p - 1 : pending[j].n # 0 /\ pending[j].n < pending[p].n
  BY <1>2 DEF Lined
<1>4. \A p \in 1 .. L : pending[p].n \in Nat /\ pending[p].n # 0
  BY <1>1, <1>3
<1>5. \A p \in 1 .. L : pending'[p] = pending[p]
  BY <1>1, <1>2
<1> SUFFICES ASSUME NEW p \in 1 .. Len(pending') PROVE Lined(s, k, p)'
  OBVIOUS
<1>6. CASE p \in 1 .. L
  <2>1. \A j \in 1 .. p - 1 : j \in 1 .. L
    BY <1>2, <1>6
  <2>2. outcome' = None => pending'[p].n < k
    BY <1>1, <1>3, <1>4, <1>5, <1>6
  <2>3. \A j \in 1 .. p - 1 : pending'[j].n # 0 /\ pending'[j].n < pending'[p].n
    BY <1>3, <1>5, <1>6, <2>1
  <2> QED BY <1>3, <1>5, <1>6, <2>2, <2>3 DEF Lined
<1>7. CASE p \notin 1 .. L
  <2>1. Len(pending') = L + 1 /\ pending'[L + 1] = Entry(s[n].w, n)
    BY <1>1, <1>2, <1>7
  <2>2. p = L + 1
    BY <1>7, <2>1
  <2>3. pending'[p].n = n /\ pending'[p].w = s[n].w
    BY <2>1, <2>2 DEF Entry
  <2>4. \A j \in 1 .. p - 1 : pending'[j].n # 0 /\ pending'[j].n < pending'[p].n
    <3>1. \A j \in 1 .. p - 1 : j \in 1 .. L
      BY <2>2
    <3> QED BY <1>3, <1>4, <1>5, <2>3, <3>1
  <2>5. outcome' = None => pending'[p].n < k
    BY <1>1, <2>3
  <2> QED BY <2>3, <2>4, <2>5 DEF Lined
<1> QED BY <1>6, <1>7

\* A write is submitted.
LEMMA SweepPost ==
  ASSUME LiveTyped, NEW id, NEW s, NEW h, NEW n, NEW m, Position(id, s, h, n, m), SweepInv(id, s, h, n, m),
         Post, NEW k, NEW j, line' = k, j = At(s, k)
  PROVE  SweepInv(id, s, h, k, j)'
<1>1. /\ Script = s /\ Step = s[n] /\ n \in DOMAIN s /\ n \in Nat /\ outcome = None /\ s[n].op = "submit" /\ line = n
      /\ pending \in Seq(Entries(id)) /\ faults \subseteq Writes(id) /\ Scenario(id, s, h)
  BY PositionFacts, ScenarioFacts DEF Post, Going, Position
<1>2. /\ n + 1 \in DOMAIN s /\ Awaited(id, s[n], s[n + 1], h[n]) /\ s[n].obj = s[n].w.obj
      /\ Awaiting(s, n + 1) /\ At(s, n + 1) = n /\ ~Awaiting(s, n) /\ m = n
  BY <1>1, WriteFacts DEF Position
<1>3. UNCHANGED <<store, archive, attributed, faults>> /\ mishaps \subseteq mishaps'
  BY DEF Post
<1>4. PICK w : w = s[n].w
  OBVIOUS
<1>5. /\ w.by = "sys" <=> w.obj \in Policies
      /\ w.obj = "A" => s[n].else = "fail" /\ s[n + 1].op \in {"present", "changed"}
      /\ s[n + 1].op = "present" => h[n].st[w.obj] = None
      /\ w.obj \in Policies => Sound(id, w, h[n])
      /\ s[n].else \in {"fail", "error", "go"}
  BY <1>2, <1>4 DEF Awaited
<1>6. PICK L \in Nat : L = Len(pending)
  BY <1>1
<1>7. Entry(w, n).w = w /\ Entry(w, n).n = n
  BY DEF Entry
<1>8. \A p \in 1 .. Len(pending) : Lined(s, n, p)
  BY DEF SweepInv
<1>9. Archived(id) /\ Archived(id)'
  BY <1>3 DEF SweepInv, Archived
\* What is recorded stays so.
<1>10. ASSUME policies' = Recorded
       PROVE  (\A o \in Policies : Listed(o) => Listed(o)') /\ (w.obj \in Policies => Listed(w.obj)')
  <2>1. policies \in Seq(Policies)
    BY DEF LiveTyped
  <2>2. PICK P \in Nat : P = Len(policies)
    BY <2>1
  <2>3. CASE w.by = "sys"
    <3>1. policies' = Append(policies, w.obj)
      BY <1>1, <1>2, <1>4, <1>10, <2>3 DEF Recorded
    <3>2. w.obj \in Policies
      BY <1>5, <2>3
    <3>3. Len(policies') = P + 1 /\ policies'[P + 1] = w.obj /\ \A p \in 1 .. P : policies'[p] = policies[p]
      BY <2>1, <2>2, <3>1, <3>2
    <3>4. P + 1 \in 1 .. Len(policies') /\ \A p \in 1 .. P : p \in 1 .. Len(policies')
      BY <2>2, <3>3
    <3> QED BY <2>2, <3>3, <3>4 DEF Listed
  <2>4. CASE w.by # "sys"
    <3>1. policies' = policies
      BY <1>1, <1>4, <1>10, <2>4 DEF Recorded
    <3> QED BY <1>5, <2>4, <3>1 DEF Listed
  <2> QED BY <2>3, <2>4
\* The scenario stops.
<1>11. ASSUME NEW r \in {"Fail", "Error"}, End(r), policies' = Recorded, UNCHANGED <<pending, mishaps>>
       PROVE  SweepInv(id, s, h, k, j)'
  <2>1. outcome' # None
    BY <1>11, NoneAssumption DEF End
  <2> QED BY <1>1, <1>3, <1>10, <1>11, <2>1, SweepEnd
\* It goes on to the wait.
<1>12. ASSUME Continue, policies' = Recorded, mark' = mark, "swallowed" \in mishaps' => "swallowed" \in mishaps,
              \/ pending' = Append(pending, Entry(w, n)) /\ sub'.state = "accepted"
              \/ pending' = pending /\ s[n].else = "go"
       PROVE  SweepInv(id, s, h, k, j)'
  <2>1. k = n + 1 /\ j = n /\ outcome' = None /\ Awaiting(s, k)
    BY <1>1, <1>2, <1>12 DEF Continue
  <2>2. Clean' => Clean
    BY <1>3 DEF Clean
  <2>3. \A p \in 1 .. Len(pending') : Lined(s, k, p)'
    BY <1>1, <1>4, <1>8, <1>12, <2>1, LinedPost
  <2>4. ASSUME NEW p \in 1 .. L PROVE pending'[p] = pending[p] /\ p \in 1 .. Len(pending')
    BY <1>1, <1>6, <1>12
  <2>5. ASSUME NEW p \in 1 .. Len(pending'), p \notin 1 .. L
        PROVE  p = L + 1 /\ pending'[p] = Entry(w, n)
    <3>1. CASE pending' = pending
      BY <1>6, <2>5, <3>1
    <3>2. CASE pending' = Append(pending, Entry(w, n))
      <4>1. Len(pending') = L + 1 /\ pending'[L + 1] = Entry(w, n)
        BY <1>1, <1>6, <3>2
      <4>2. p = L + 1
        BY <2>5, <4>1
      <4> QED BY <4>1, <4>2
    <3> QED BY <1>12, <3>1, <3>2
  <2>6. \A p \in 1 .. L : \A v : Brings(p, v) => Brings(p, v)'
    BY <1>3, <2>4 DEF Brings, Install
  <2>7. \A v : Versioned(v) => Versioned(v)'
    BY <1>3 DEF Versioned
  <2>8. Lost(s) => Lost(s)'
    BY <1>3 DEF Lost
  <2>9. SUFFICES ASSUME Clean
                 PROVE  /\ KidsPinned(id)' /\ QueuePinned' /\ Recording' /\ Amending(s, h, k, j)'
                        /\ "swallowed" \notin mishaps' => Watched(s, h, k, j)'
    BY <1>9, <2>1, <2>2, <2>3 DEF SweepInv
  <2>10. KidsPinned(id) /\ QueuePinned /\ Recording /\ Amending(s, h, n, n) /\ ("swallowed" \notin mishaps => Watched(s, h, n, n))
    BY <1>1, <1>2, <2>9 DEF SweepInv
  <2>11. KidsPinned(id)'
    BY <1>3, <2>10 DEF KidsPinned, Versioned, Anchored
  <2>12. QueuePinned'
    <3> SUFFICES ASSUME NEW p \in 1 .. Len(pending'), NEW o \in Kids, Install(p, o)',
                        NEW v, v = pending'[p].w.val.pin
                 PROVE  /\ store'["A"] # None
                        /\ Versioned(v)' \/ (\E l \in 1 .. p - 1 : Brings(l, v)') \/ pending'[p].n \notin faults'
      BY DEF QueuePinned
    <3>1. CASE p \in 1 .. L
      <4>1. Install(p, o) /\ v = pending[p].w.val.pin /\ pending'[p] = pending[p]
        BY <2>4, <3>1 DEF Install
      <4>2. /\ store["A"] # None
            /\ Versioned(v) \/ (\E l \in 1 .. p - 1 : Brings(l, v)) \/ pending[p].n \notin faults
        BY <1>6, <2>10, <3>1, <4>1 DEF QueuePinned
      <4>3. \A l \in 1 .. p - 1 : l \in 1 .. L
        BY <3>1
      <4> QED BY <1>3, <2>6, <2>7, <4>1, <4>2, <4>3
    <3>2. CASE p \notin 1 .. L
      <4>1. p = L + 1 /\ pending'[p].w = w /\ pending'[p].n = n
        BY <1>7, <2>5, <3>2
      <4>2. w.obj = o /\ v = w.val.pin /\ o # "A" /\ o \in Policies
        BY <4>1, PolicyObjects DEF Install
      <4>3. Sound(id, w, h[n])
        BY <1>5, <4>2
      <4>4. h[n].st["A"] # None /\ (v # 0 => \E q \in h[n].ar : q.n = v)
        BY <4>2, <4>3 DEF Sound
      <4>5. store'["A"] # None
        BY <1>3, <2>10, <4>4 DEF Amending
      <4>6. Versioned(v)' \/ (\E l \in 1 .. p - 1 : Brings(l, v)') \/ n \notin faults'
        <5>1. CASE v = 0
          BY <5>1 DEF Versioned
        <5>2. CASE v # 0
          <6>1. Versioned(v) \/ (\E l \in 1 .. Len(pending) : Brings(l, v)) \/ Lost(s)
            BY <2>10, <4>4, <5>2 DEF Amending
          <6>2. CASE Lost(s)
            <7>1. PICK f \in faults : s[f].w.obj = "A"
              BY <6>2 DEF Lost
            <7>2. Cardinality(faults) <= 1
              BY <2>9, <6>2 DEF Lost, Clean
            <7>3. n \in faults => n = f
              BY <1>1, <7>2, OneFault
            <7> QED BY <1>3, <1>4, <4>2, <7>1, <7>3
          <6>3. CASE \E l \in 1 .. Len(pending) : Brings(l, v)
            <7>1. \A l \in 1 .. L : l \in 1 .. p - 1
              BY <4>1
            <7> QED BY <1>6, <2>6, <6>3, <7>1
          <6> QED BY <2>7, <6>1, <6>2, <6>3
        <5> QED BY <5>1, <5>2
      <4> QED BY <4>1, <4>5, <4>6
    <3> QED BY <3>1, <3>2
  <2>13. Recording'
    <3> SUFFICES ASSUME NEW o \in Policies, store'[o] # None \/ \E p \in 1 .. Len(pending') : Install(p, o)'
                 PROVE  Listed(o)'
      BY DEF Recording
    <3>1. CASE store'[o] # None
      BY <1>3, <1>10, <1>12, <2>10, <3>1 DEF Recording
    <3>2. ASSUME NEW p \in 1 .. Len(pending'), Install(p, o)' PROVE Listed(o)'
      <4>1. CASE p \in 1 .. L
        <5>1. Install(p, o)
          BY <2>4, <3>2, <4>1 DEF Install
        <5> QED BY <1>6, <1>10, <1>12, <2>10, <4>1, <5>1 DEF Recording
      <4>2. CASE p \notin 1 .. L
        <5>1. w.obj = o
          BY <1>7, <2>5, <3>2, <4>2 DEF Install
        <5> QED BY <1>10, <1>12, <5>1
      <4> QED BY <4>1, <4>2
    <3> QED BY <3>1, <3>2
  \* A write to the ancestor is accepted, or the scenario stops.
  <2>14. w.obj = "A" => sub'.state = "accepted" /\ L + 1 \in 1 .. Len(pending') /\ pending'[L + 1].n = n
    <3> SUFFICES ASSUME w.obj = "A" PROVE sub'.state = "accepted" /\ L + 1 \in 1 .. Len(pending') /\ pending'[L + 1].n = n
      OBVIOUS
    <3>1. pending' = Append(pending, Entry(w, n)) /\ sub'.state = "accepted"
      BY <1>5, <1>12
    <3>2. Len(pending') = L + 1 /\ pending'[L + 1] = Entry(w, n)
      BY <1>1, <1>6, <3>1
    <3>3. L + 1 \in 1 .. Len(pending')
      BY <3>2
    <3> QED BY <1>7, <3>1, <3>2, <3>3
  <2>15. Amending(s, h, k, j)'
    <3>1. h[n].st["A"] # None => store'["A"] # None
      BY <1>3, <2>10 DEF Amending
    <3>2. \A q \in h[n].ar : Versioned(q.n)' \/ (\E p \in 1 .. Len(pending') : Brings(p, q.n)') \/ Lost(s)'
      <4> SUFFICES ASSUME NEW q \in h[n].ar
                   PROVE  Versioned(q.n)' \/ (\E p \in 1 .. Len(pending') : Brings(p, q.n)') \/ Lost(s)'
        OBVIOUS
      <4>1. Versioned(q.n) \/ (\E p \in 1 .. L : Brings(p, q.n)) \/ Lost(s)
        BY <1>6, <2>10 DEF Amending
      <4> QED BY <2>4, <2>6, <2>7, <2>8, <4>1
    <3>3. (Awaiting(s, k) /\ s[n].w.obj = "A") =>
            /\ sub'.state = "accepted"
            /\ (\E p \in 1 .. Len(pending') : pending'[p].n = n) \/ s[n].w.val \in archive' \/ n \in faults'
      BY <1>4, <2>14
    <3> QED BY <2>1, <3>1, <3>2, <3>3 DEF Amending
  <2>16. ASSUME "swallowed" \notin mishaps' PROVE Watched(s, h, k, j)'
    <3>1. Watched(s, h, n, n)
      BY <1>3, <2>10, <2>16
    <3>2. \A p \in 1 .. Len(pending') : Install(p, "A")' => pending'[p].n = n /\ Awaiting(s, k)
      <4> SUFFICES ASSUME NEW p \in 1 .. Len(pending'), Install(p, "A")' PROVE pending'[p].n = n /\ Awaiting(s, k)
        OBVIOUS
      <4>1. CASE p \in 1 .. L
        <5>1. Install(p, "A")
          BY <2>4, <4>1 DEF Install
        <5> QED BY <1>2, <1>6, <3>1, <4>1, <5>1 DEF Watched
      <4>2. CASE p \notin 1 .. L
        BY <1>7, <2>1, <2>5, <4>2
      <4> QED BY <4>1, <4>2
    <3>3. h[n].st["A"] = None => store'["A"] = None
      BY <1>2, <1>3, <3>1 DEF Watched
    <3>4. s[k].op # "submit"
      BY <2>1 DEF Awaiting, Awaits
    <3>5. ASSUME s[n].w.obj = "A"
          PROVE  (s[k].op = "present" => store'["A"] = None) /\ (s[k].op = "changed" => store'["A"] = mark')
      <4>1. s[k].op = "present" => store'["A"] = None
        BY <1>4, <1>5, <2>1, <3>3, <3>5
      <4>2. s[k].op = "changed" => mark = store["A"]
        BY <1>1, <1>2, <2>1, <3>1, <3>5 DEF Watched
      <4> QED BY <1>3, <1>12, <4>1, <4>2
    <3> QED BY <2>1, <3>2, <3>3, <3>4, <3>5 DEF Watched
  <2> QED BY <2>11, <2>12, <2>13, <2>15, <2>16
<1>13. CASE /\ pending' = Append(pending, Entry(Step.w, line))
            /\ mishaps' = IF sub.blocks = 0 THEN mishaps ELSE mishaps \cup {"loose"}
            /\ policies' = Recorded
            /\ sub' = [sub EXCEPT !.state = "accepted"] /\ Continue /\ UNCHANGED <<mark, good>>
  <2>1. sub'.state = "accepted"
    BY <1>13 DEF LiveTyped
  <2>2. pending' = Append(pending, Entry(w, n))
    BY <1>1, <1>4, <1>13
  <2>3. "swallowed" \in mishaps' => "swallowed" \in mishaps
    BY <1>13
  <2> QED BY <1>12, <1>13, <2>1, <2>2, <2>3
<1>14. CASE /\ ~Judged(Step.w, line)
            /\ policies' = Recorded
            /\ CASE Step.else = "go" -> sub' = [sub EXCEPT !.state = "denied"] /\ Continue /\ UNCHANGED <<mark, good>>
                 [] Step.else = "fail" -> End("Fail")
                 [] Step.else = "error" -> End("Error")
            /\ UNCHANGED <<pending, mishaps>>
  <2>1. CASE s[n].else = "go"
    <3>1. Continue /\ UNCHANGED <<mark, good>>
      BY <1>1, <1>14, <2>1
    <3> QED BY <1>12, <1>14, <2>1, <3>1
  <2>2. CASE s[n].else = "fail"
    <3>1. End("Fail")
      BY <1>1, <1>14, <2>2
    <3> QED BY <1>11, <1>14, <3>1
  <2>3. CASE s[n].else = "error"
    <3>1. End("Error")
      BY <1>1, <1>14, <2>3
    <3> QED BY <1>11, <1>14, <3>1
  <2> QED BY <1>5, <2>1, <2>2, <2>3
<1>15. CASE /\ pending' \in {pending, Append(pending, Entry(Step.w, line))}
            /\ mishaps' = mishaps \cup {"unanswered"}
            /\ End("Error")
            /\ UNCHANGED policies
  <2>1. outcome' # None
    BY <1>15, NoneAssumption DEF End
  <2>2. pending' \in {pending, Append(pending, Entry(s[n].w, n))}
    BY <1>1, <1>15
  <2>3. \A p \in 1 .. Len(pending') : Lined(s, k, p)'
    BY <1>1, <1>8, <2>1, <2>2, LinedPost
  <2>4. {"dropped", "unanswered", "early"} \cap mishaps' # {}
    BY <1>15
  <2> QED BY <1>3, <1>9, <2>3, <2>4, SweepLost
<1> QED BY <1>13, <1>14, <1>15 DEF Post

\* A confirmed read is one of the store.
LEMMA ReadConfirmed ==
  ASSUME NEW obj, get_object(obj).confirmed
  PROVE  get_object(obj).value = store[obj] /\ store[obj] # None
<1>1. CASE Shown(obj) = {}
  BY <1>1, ReadStore
<1>2. CASE Shown(obj) # {}
  BY <1>2 DEF get_object
<1> QED BY <1>1, <1>2

\* A wait for the ancestor that was passed over, or that passed.
LEMMA AncestorSettled ==
  ASSUME NEW r \in Results, Returned(r) = None, Step.op \in {"present", "changed"},
         Step.else \in {"error", "timeout", "fail"}, Step.else \in Ways(Step.op), sub.state = "accepted"
  PROVE  \/ r = "Pass" /\ Read.confirmed /\ (Step.op = "changed" => Read.value # mark)
         \/ Step.op = "changed" /\ "swallowed" \in Mishap(r)
<1>0. None \notin {"Pass", "Fail", "Timeout", "Error"}
  BY NoneAssumption
<1>1. CASE r = "Pass"
  BY <1>1, PassMeans
<1>2. CASE r # "Pass" /\ Step.op = "present"
  <2>1. Step.else = "error"
    BY <1>2 DEF Ways
  <2> QED BY <1>0, <1>2, <2>1 DEF Returned
<1>3. CASE r # "Pass" /\ Step.op = "changed"
  <2>1. Step.else \in {"timeout", "fail"}
    BY <1>3 DEF Ways
  <2>2. r \in {"Timeout", "Error"}
    BY <1>3, <2>1 DEF Results, wait_version_change
  <2>3. r # "Timeout"
    BY <1>0, <1>3, <2>1 DEF Returned
  <2> QED BY <1>3, <2>1, <2>2, <2>3 DEF Mishap
<1> QED BY <1>1, <1>2, <1>3

\* A step of the script that is no write is over.
LEMMA SweepSettle ==
  ASSUME LiveTyped, NEW id, NEW s, NEW h, NEW n, NEW m, Position(id, s, h, n, m), SweepInv(id, s, h, n, m),
         Settle, NEW k, NEW j, line' = k, j = At(s, k)
  PROVE  SweepInv(id, s, h, k, j)'
<1>1. /\ Step = s[n] /\ n \in DOMAIN s /\ n \in Nat /\ outcome = None /\ s[n].op # "submit" /\ line = n
      /\ pending \in Seq(Entries(id)) /\ Scenario(id, s, h)
  BY PositionFacts, ScenarioFacts DEF Settle, Going, Position
<1>2. PICK r \in Results :
        /\ mishaps' = mishaps \cup Mishap(r)
        /\ \/ Returned(r) # None /\ End(Returned(r))
           \/ /\ Returned(r) = None /\ Continue
              /\ good' = (good /\ ~Flagged(r))
              /\ mark' = IF Step.op = "hash" THEN Read.value ELSE mark
              /\ UNCHANGED sub
  BY DEF Settle
<1>3. UNCHANGED <<store, archive, pending, faults, policies>> /\ mishaps \subseteq mishaps'
  BY <1>2 DEF Settle, chain
<1>4. /\ h[n + 1] = h[n] /\ s[n].else \in Ways(s[n].op) /\ s[n].op \in Awaits \cup {"hash", "provision"}
      /\ Awaiting(s, n) <=> s[n].op \in Awaits
      /\ s[n].op # "head" => ~Awaiting(s, n + 1) /\ At(s, n + 1) = n + 1
      /\ s[n].op = "hash" => s[n + 1].op = "submit" /\ s[n + 1].obj = s[n].obj
  BY <1>1, WaitFacts
<1>5. CASE Returned(r) # None /\ End(Returned(r))
  <2>1. outcome' # None
    BY <1>5 DEF End
  <2>2. \A o \in Policies : Listed(o) => Listed(o)'
    BY <1>3 DEF Listed
  <2> QED BY <1>1, <1>3, <2>1, <2>2, SweepEnd
<1>6. CASE /\ Returned(r) = None /\ Continue
           /\ mark' = IF Step.op = "hash" THEN Read.value ELSE mark
           /\ UNCHANGED sub
  <2>1. k = n + 1 /\ outcome' = None
    BY <1>1, <1>6 DEF Continue
  <2>2. Clean' => Clean
    BY <1>3 DEF Clean
  <2>3. DOMAIN s = 1 .. Len(s)
    BY <1>1, ScenarioFacts
  <2>4. \A p \in 1 .. Len(pending) : Lined(s, n, p)
    BY DEF SweepInv
  <2>5. \A p \in 1 .. Len(pending) :
          /\ pending[p].n \in DOMAIN s /\ pending[p].n < n /\ pending[p].n # 0 /\ pending[p].n \in Nat
          /\ pending[p].w = s[pending[p].n].w
    <3>1. \A p \in 1 .. Len(pending) : pending[p].n \in DOMAIN s /\ pending[p].n < n /\ pending[p].w = s[pending[p].n].w
      BY <1>1, <2>4 DEF Lined
    <3> QED BY <2>3, <3>1
  <2>6. \A p \in 1 .. Len(pending') : Lined(s, k, p)'
    <3> SUFFICES ASSUME NEW p \in 1 .. Len(pending') PROVE Lined(s, k, p)'
      OBVIOUS
    <3>1. Lined(s, n, p) /\ pending[p].n # 0
      BY <1>3, <2>4, <2>5
    <3>2. pending[p].n < k
      BY <1>1, <1>3, <2>1, <2>5
    <3> QED BY <1>3, <3>1, <3>2 DEF Lined
  <2>7. Archived(id)' /\ (KidsPinned(id) => KidsPinned(id)') /\ (QueuePinned => QueuePinned') /\ (Recording => Recording')
    <3>1. Archived(id)'
      BY <1>3 DEF SweepInv, Archived
    <3>2. KidsPinned(id) => KidsPinned(id)'
      BY <1>3 DEF KidsPinned, Versioned, Anchored
    <3>3. QueuePinned => QueuePinned'
      BY <1>3 DEF QueuePinned, Versioned, Brings, Install
    <3>4. Recording => Recording'
      BY <1>3 DEF Recording, Install, Listed
    <3> QED BY <3>1, <3>2, <3>3, <3>4
  <2>8. SUFFICES ASSUME Clean, Amending(s, h, n, m), "swallowed" \notin mishaps => Watched(s, h, n, m)
                 PROVE  Amending(s, h, k, j)' /\ ("swallowed" \notin mishaps' => Watched(s, h, k, j)')
    BY <1>1, <2>1, <2>2, <2>6, <2>7 DEF SweepInv
  <2>9. /\ \A v : Versioned(v)' <=> Versioned(v)
        /\ \A p, v : Brings(p, v)' <=> Brings(p, v)
        /\ \A p, o : Install(p, o)' <=> Install(p, o)
        /\ Lost(s) => Lost(s)'
    BY <1>3 DEF Versioned, Brings, Install, Lost
  <2>10. ("swallowed" \notin mishaps') => Watched(s, h, n, m) /\ "swallowed" \notin mishaps
    BY <1>3, <2>8
  \* After a wait no amendment follows at once.
  <2>11. (k \in DOMAIN s /\ s[k].op = "submit" /\ s[k + 1].op = "changed") => s[n].op = "hash"
    <3> SUFFICES ASSUME k \in DOMAIN s, s[k].op = "submit", s[k + 1].op = "changed" PROVE s[n].op = "hash"
      OBVIOUS
    <3>1. s[k - 1].op = "hash"
      BY <1>1, WriteFacts
    <3>2. k - 1 = n
      BY <1>1, <2>1
    <3> QED BY <3>1, <3>2
  \* It was not a wait for a write.
  <2>12. CASE ~Awaiting(s, n)
    <3>1. s[n].op \in {"hash", "provision"} /\ m = n /\ ~Awaiting(s, k) /\ j = k /\ h[k] = h[n]
      BY <1>4, <2>1, <2>12 DEF Awaits, At, Position
    <3>2. Amending(s, h, k, j)'
      BY <1>3, <2>8, <2>9, <3>1 DEF Amending
    <3>3. ASSUME "swallowed" \notin mishaps' PROVE Watched(s, h, k, j)'
      <4>1. Watched(s, h, n, n)
        BY <2>10, <3>1, <3>3
      <4>2. \A p \in 1 .. Len(pending) : ~Install(p, "A")
        BY <2>12, <4>1 DEF Watched
      <4>3. ASSUME k \in DOMAIN s, s[k].op = "submit", s[k + 1].op = "changed", s[k].obj = "A" PROVE mark' = store'["A"]
        <5>1. s[n].op = "hash" /\ s[n].obj = "A"
          BY <1>4, <2>1, <2>11, <4>3
        <5>2. mark' = get_object("A").value
          BY <1>1, <1>6, <5>1 DEF Read
        <5>3. Shown("A") = {}
          <6>1. DOMAIN pending = 1 .. Len(pending)
            BY <1>1
          <6>2. \A p \in DOMAIN pending : pending[p].w.obj # "A"
            BY <2>5, <4>2, <6>1 DEF Install
          <6> QED BY <6>2 DEF Shown
        <5> QED BY <1>3, <5>2, <5>3, ReadStore
      <4>4. h[k].st["A"] = None => store'["A"] = None
        BY <1>3, <2>12, <3>1, <4>1 DEF Watched
      <4>5. \A p \in 1 .. Len(pending') : ~Install(p, "A")'
        BY <1>3, <2>9, <4>2
      <4> QED BY <3>1, <4>3, <4>4, <4>5 DEF Watched
    <3> QED BY <3>2, <3>3
  \* The write that is awaited.
  <2>13. PICK w : w = s[m].w
    OBVIOUS
  <2>14. CASE Awaiting(s, n)
    <3>1. /\ m \in DOMAIN s /\ m \in Nat /\ s[m].op = "submit" /\ h[n + 1] = h[m + 1]
          /\ n = m + 1 \/ (n = m + 2 /\ s[m + 1].op = "head")
          /\ s[n].op = "present" /\ n = m + 1 => Granted(s, m)
          /\ s[n].op = "head" => n + 1 = m + 2 /\ Awaiting(s, n + 1) /\ At(s, n + 1) = m /\ s[n + 1].op = "present"
          /\ s[n].op # "head" => s[n].obj = w.obj
      <4>1. m = At(s, n)
        BY DEF Position
      <4>2. /\ m \in DOMAIN s /\ m \in Nat /\ s[m].op = "submit" /\ h[n + 1] = h[m + 1]
            /\ \/ n = m + 1 /\ (s[n].op = "present" => Granted(s, m))
               \/ n = m + 2 /\ s[m + 1].op = "head"
            /\ s[n].op = "head" => n + 1 = m + 2 /\ Awaiting(s, n + 1) /\ At(s, n + 1) = m /\ s[n + 1].op = "present"
            /\ s[n].op # "head" => s[n].obj = s[m].w.obj
        <5>1. /\ m \in DOMAIN s /\ m \in Nat /\ s[m].op = "submit" /\ h[n + 1] = h[m + 1]
              /\ s[n].op = "head" => n + 1 = m + 2 /\ Awaiting(s, n + 1) /\ At(s, n + 1) = m /\ s[n + 1].op = "present"
              /\ s[n].op # "head" => s[n].obj = s[m].w.obj
          <6>1. Scenario(id, s, h)
            BY <1>1
          <6> QED BY <2>14, <4>1, <6>1, AwaitFacts
        <5>2. \/ n = m + 1 /\ (s[n].op = "present" => Granted(s, m))
              \/ /\ n = m + 2 /\ s[m + 1].op = "head" /\ s[n].op = "present" /\ n = Len(s)
                 /\ Untouched(s[m], s[n], h[m])
          BY <1>1, <2>14, <4>1, AwaitFacts
        <5> QED BY <5>1, <5>2
      <4>3. n = m + 2 => n # m + 1
        BY <4>2
      <4> QED BY <2>13, <4>2, <4>3
    <3>2. /\ h[m + 1] = After(h[m], w, Granted(s, m)) /\ Awaited(id, s[m], s[m + 1], h[m]) /\ s[m].obj = w.obj
      BY <1>1, <2>13, <3>1, WriteFacts
    <3>3. Situation(h[m]) /\ (s[n].op = "changed" => Granted(s, m) /\ h[m].st[w.obj] # None) /\ (w.val = None <=> w.act = "delete")
      BY <1>1, <2>13, <2>14, AwaitedFacts DEF Position
    <3>4. w.obj = "A" => w.act = "post" /\ s[m + 1].op \in {"present", "changed"} /\ s[m + 1].else \in {"error", "timeout", "fail"}
      <4> SUFFICES ASSUME w.obj = "A" PROVE w.act = "post" /\ s[m + 1].op \in {"present", "changed"} /\ s[m + 1].else \in {"error", "timeout", "fail"}
        OBVIOUS
      <4>1. Sound(id, w, h[m])
        BY <2>13, <3>2, PolicyObjects DEF Awaited
      <4> QED BY <2>13, <3>2, <4>1 DEF Awaited, Sound
    \* It was the wait for the head, and the write not one to the ancestor.
    <3>5. CASE s[n].op = "head"
      <4>1. k = m + 2 /\ Awaiting(s, k) /\ j = m /\ s[k].op = "present" /\ n = m + 1
        <5>1. n = m + 1
          BY <1>1, <3>1, <3>5
        <5> QED BY <2>1, <3>1, <3>5, <5>1
      <4>2. w.obj # "A"
        BY <3>4, <3>5, <4>1
      <4>3. Amending(s, h, k, j)'
        BY <1>3, <2>8, <2>9, <2>13, <4>1, <4>2 DEF Amending
      <4>4. ASSUME "swallowed" \notin mishaps' PROVE Watched(s, h, k, j)'
        <5>1. Watched(s, h, n, m)
          BY <2>10, <4>4
        <5> QED BY <1>3, <2>9, <2>13, <2>14, <4>1, <4>2, <5>1 DEF Watched
      <4> QED BY <4>3, <4>4
    \* It was one for the write.
    <3>6. CASE s[n].op # "head"
      <4>1. ~Awaiting(s, k) /\ j = k /\ h[k] = h[m + 1] /\ s[n].op # "hash"
        BY <1>4, <2>1, <2>14, <3>1, <3>6 DEF Awaits
      <4>2. ~(k \in DOMAIN s /\ s[k].op = "submit" /\ s[k + 1].op = "changed")
        BY <2>11, <4>1
      <4>3. CASE w.obj # "A"
        <5>1. h[k].st["A"] = h[m].st["A"] /\ h[k].ar = h[m].ar
          <6>1. "A" \in Objects \ {w.obj}
            BY <4>3, PolicyObjects
          <6>2. Given(h[m], w.obj, w.val).st["A"] = h[m].st["A"] /\ Given(h[m], w.obj, w.val).ar = h[m].ar
            BY <3>3, <4>3, <6>1, SituationGiven
          <6>3. Barred(h[m]).st = h[m].st /\ Barred(h[m]).ar = h[m].ar
            BY <3>3, SituationBarred
          <6> QED BY <3>2, <4>1, <6>2, <6>3 DEF After
        <5>2. Amending(s, h, k, j)'
          BY <1>3, <2>8, <2>9, <4>1, <5>1 DEF Amending
        <5>3. ASSUME "swallowed" \notin mishaps' PROVE Watched(s, h, k, j)'
          <6>1. Watched(s, h, n, m)
            BY <2>10, <5>3
          <6>2. \A p \in 1 .. Len(pending) : ~Install(p, "A")
            <7> SUFFICES ASSUME NEW p \in 1 .. Len(pending), Install(p, "A") PROVE FALSE
              OBVIOUS
            <7>1. pending[p].n = m /\ pending[p].w = s[m].w
              BY <2>5, <6>1 DEF Watched
            <7> QED BY <2>13, <4>3, <7>1 DEF Install
          <6>3. h[k].st["A"] = None => store'["A"] = None
            BY <1>3, <2>13, <4>3, <5>1, <6>1 DEF Watched
          <6>4. \A p \in 1 .. Len(pending') : ~Install(p, "A")'
            BY <1>3, <2>9, <6>2
          <6> QED BY <4>1, <4>2, <6>3, <6>4 DEF Watched
        <5> QED BY <5>2, <5>3
      <4>4. CASE w.obj = "A"
        <5>1. n = m + 1 /\ s[n].op \in {"present", "changed"} /\ s[n].else \in {"error", "timeout", "fail"} /\ s[n].obj = "A"
          <6>1. n = m + 1
            BY <3>1, <3>4, <4>4
          <6> QED BY <3>1, <3>4, <3>6, <4>4, <6>1
        <5>2. h[k].st["A"] = w.val /\ h[k].ar = h[m].ar \cup {w.val} /\ w.val # None
          <6>1. Granted(s, m)
            BY <3>1, <3>3, <5>1
          <6>2. h[k] = Given(h[m], "A", w.val)
            BY <3>2, <4>1, <4>4, <6>1 DEF After
          <6>3. Given(h[m], "A", w.val).st["A"] = w.val /\ Given(h[m], "A", w.val).ar = h[m].ar \cup {w.val}
            BY <3>3, PolicyObjects, SituationGiven
          <6>4. w.val # None
            BY <3>3, <3>4, <4>4
          <6> QED BY <6>2, <6>3, <6>4
        <5>3. /\ sub.state = "accepted"
              /\ (\E p \in 1 .. Len(pending) : pending[p].n = m) \/ w.val \in archive \/ m \in faults
          BY <2>8, <2>13, <2>14, <4>4 DEF Amending
        <5>4. \/ Read.confirmed /\ (s[n].op = "changed" => Read.value # mark)
              \/ s[n].op = "changed" /\ "swallowed" \in Mishap(r)
          BY <1>1, <1>4, <1>6, <5>1, <5>3, AncestorSettled
        <5>5. Read.confirmed => Read.value = store["A"] /\ store["A"] # None
          BY <1>1, <5>1, ReadConfirmed DEF Read
        <5>6. store["A"] # None
          BY <2>8, <3>3, <4>4, <5>4, <5>5 DEF Amending
        \* Without an error that was passed over, it was seen to be applied.
        <5>7. ASSUME "swallowed" \notin mishaps'
              PROVE  w.val \in archive /\ \A p \in 1 .. Len(pending) : ~Install(p, "A")
          <6>1. Watched(s, h, n, m) /\ Read.confirmed /\ (s[n].op = "changed" => Read.value # mark)
            BY <1>2, <2>10, <5>4, <5>7
          <6>2. \/ w.val \in archive /\ \A p \in 1 .. Len(pending) : ~Install(p, "A")
                \/ (s[n].op = "present" => store["A"] = None) /\ (s[n].op = "changed" => store["A"] = mark)
            BY <2>13, <2>14, <4>4, <6>1 DEF Watched
          <6> QED BY <5>1, <5>5, <6>1, <6>2
        <5>8. ASSUME NEW q \in h[k].ar
              PROVE  Versioned(q.n)' \/ (\E p \in 1 .. Len(pending') : Brings(p, q.n)') \/ Lost(s)'
          <6>1. CASE q \in h[m].ar
            BY <1>3, <2>8, <2>9, <6>1 DEF Amending
          <6>2. CASE q = w.val
            <7>1. CASE w.val \in archive
              BY <2>9, <6>2, <7>1 DEF Versioned
            <7>2. CASE m \in faults /\ w.val \notin archive
              <8>1. "swallowed" \in mishaps'
                BY <5>7, <7>2
              <8> QED BY <1>3, <2>13, <4>4, <7>2, <8>1 DEF Lost
            <7>3. ASSUME NEW p \in 1 .. Len(pending), pending[p].n = m, m \notin faults
                  PROVE  \E l \in 1 .. Len(pending') : Brings(l, q.n)'
              <8>1. pending[p].w = w /\ pending[p].n # 0
                BY <2>5, <2>13, <7>3
              <8>2. Brings(p, q.n)
                BY <4>4, <6>2, <7>3, <8>1 DEF Brings, Install
              <8> QED BY <1>3, <2>9, <8>2
            <7> QED BY <5>3, <7>1, <7>2, <7>3
          <6> QED BY <5>2, <6>1, <6>2
        <5>9. Amending(s, h, k, j)'
          BY <1>3, <4>1, <5>6, <5>8 DEF Amending
        <5>10. ASSUME "swallowed" \notin mishaps' PROVE Watched(s, h, k, j)'
          <6>1. \A p \in 1 .. Len(pending') : ~Install(p, "A")'
            BY <1>3, <2>9, <5>7, <5>10
          <6> QED BY <4>1, <4>2, <5>2, <6>1 DEF Watched
        <5> QED BY <5>9, <5>10
      <4> QED BY <4>3, <4>4
    <3> QED BY <3>5, <3>6
  <2> QED BY <2>12, <2>14
<1> QED BY <1>2, <1>5, <1>6

\* The sweep takes the last of what is recorded, and asks to delete it.
LEMMA SweepSweep ==
  ASSUME LiveTyped, NEW id, NEW s, NEW h, NEW n, NEW m, Position(id, s, h, n, m), SweepInv(id, s, h, n, m), Sweep
  PROVE  SweepInv(id, s, h, n, m)'
<1>1. outcome # None /\ policies # <<>> /\ policies' = Front(policies) /\ UNCHANGED <<outcome, store, archive, faults>>
  BY DEF Sweep
<1>2. PICK d, w : d = Last(policies) /\ w = sys_delete_policy(d)
  OBVIOUS
<1>3. d \in Policies /\ w.obj = d
  BY <1>1, <1>2, SweepTyped DEF sys_delete_policy, Write
<1>4. \/ pending' = Append(pending, Entry(w, 0)) /\ UNCHANGED mishaps
      \/ /\ ~Judged(w, 0) /\ UNCHANGED pending
         /\ mishaps' = IF InFlight(w.obj) THEN mishaps \cup {"early"} ELSE mishaps
      \/ /\ pending' \in {pending, Append(pending, Entry(w, 0))}
         /\ mishaps' = mishaps \cup {"unanswered"}
  BY <1>2 DEF Sweep
<1>5. pending \in Seq(Entries(id)) /\ faults \subseteq Writes(id) /\ Scenario(id, s, h)
  BY PositionFacts DEF Position
<1>6. PICK L \in Nat : L = Len(pending)
  BY <1>5
<1>7. Entry(w, 0).w = w /\ Entry(w, 0).n = 0
  BY DEF Entry
<1>8. pending' \in {pending, Append(pending, Entry(w, 0))}
  BY <1>4
<1>9. \A p \in 1 .. L : pending'[p] = pending[p]
  BY <1>5, <1>6, <1>8
<1>10. ASSUME NEW p \in 1 .. Len(pending'), p \notin 1 .. L PROVE p = L + 1 /\ pending'[p].w = w /\ pending'[p].n = 0
  <2>1. CASE pending' = pending
    BY <1>6, <1>10, <2>1
  <2>2. CASE pending' = Append(pending, Entry(w, 0))
    <3>1. Len(pending') = L + 1 /\ pending'[L + 1] = Entry(w, 0)
      BY <1>5, <1>6, <2>2
    <3>2. p = L + 1
      BY <1>10, <3>1
    <3> QED BY <1>7, <3>1, <3>2
  <2> QED BY <1>8, <2>1, <2>2
<1>11. \A p \in 1 .. Len(pending) : Lined(s, n, p)
  BY DEF SweepInv
<1>12. ASSUME NEW p \in 1 .. Len(pending') PROVE Lined(s, n, p)'
  <2>1. CASE p \in 1 .. L
    <3>1. Lined(s, n, p) /\ pending'[p] = pending[p]
      BY <1>6, <1>9, <1>11, <2>1
    <3>2. \A j \in 1 .. p - 1 : pending'[j] = pending[j]
      <4>1. \A j \in 1 .. p - 1 : j \in 1 .. L
        BY <2>1
      <4> QED BY <1>9, <4>1
    <3> QED BY <1>1, <3>1, <3>2 DEF Lined
  <2>2. CASE p \notin 1 .. L
    <3>1. pending'[p].w = w /\ pending'[p].n = 0
      BY <1>10, <2>2
    <3> QED BY <1>1, <1>2, <1>3, <3>1 DEF Lined
  <2> QED BY <2>1, <2>2
<1>13. Archived(id) /\ Archived(id)'
  BY <1>1 DEF SweepInv, Archived
\* What is left of the records.
<1>14. \A o \in Policies : Listed(o) => o = d \/ Listed(o)'
  <2>1. PICK P \in Nat : P = Len(policies) /\ P # 0
    BY <1>1 DEF LiveTyped
  <2>2. d = policies[P]
    BY <1>2, <2>1 DEF Last
  <2>3. Len(policies') = P - 1 /\ \A p \in 1 .. P - 1 : policies'[p] = policies[p]
    <3>1. policies \in Seq(Policies)
      BY DEF LiveTyped
    <3> QED BY <1>1, <2>1, <3>1 DEF Front
  <2>4. \A p \in 1 .. P : p = P \/ p \in 1 .. P - 1
    BY <2>1
  <2> QED BY <2>1, <2>2, <2>3, <2>4 DEF Listed
<1>15. CASE {"dropped", "unanswered", "early"} \cap mishaps' # {}
  BY <1>1, <1>12, <1>13, <1>15, SweepLost
<1>16. CASE {"dropped", "unanswered", "early"} \cap mishaps' = {}
  <2>1. \/ pending' = Append(pending, Entry(w, 0)) /\ mishaps' = mishaps
        \/ ~Judged(w, 0) /\ pending' = pending /\ mishaps' = mishaps /\ ~InFlight(d)
    BY <1>3, <1>4, <1>16
  <2>2. Clean' => Clean
    BY <1>1, <2>1 DEF Clean
  <2>3. SUFFICES ASSUME Clean PROVE KidsPinned(id)' /\ QueuePinned' /\ Sweeping(id)'
    BY <1>1, <1>12, <1>13, <2>2 DEF SweepInv
  <2>4. KidsPinned(id) /\ QueuePinned /\ Sweeping(id)
    BY <1>1, <2>3 DEF SweepInv
  <2>5. KidsPinned(id)'
    BY <1>1, <2>4 DEF KidsPinned, Versioned, Anchored
  <2>6. ASSUME NEW p \in 1 .. Len(pending'), NEW o, Install(p, o)' PROVE p \in 1 .. L /\ Install(p, o)
    <3>1. p \in 1 .. L
      BY <1>10, <2>6 DEF Install
    <3> QED BY <1>9, <2>6, <3>1 DEF Install
  <2>7. QueuePinned'
    <3> SUFFICES ASSUME NEW p \in 1 .. Len(pending'), NEW o \in Kids, Install(p, o)',
                        NEW v, v = pending'[p].w.val.pin
                 PROVE  /\ store'["A"] # None
                        /\ Versioned(v)' \/ (\E l \in 1 .. p - 1 : Brings(l, v)') \/ pending'[p].n \notin faults'
      BY DEF QueuePinned
    <3>1. p \in 1 .. L /\ Install(p, o) /\ pending'[p] = pending[p] /\ v = pending[p].w.val.pin
      BY <1>9, <2>6
    <3>2. /\ store["A"] # None
          /\ Versioned(v) \/ (\E l \in 1 .. p - 1 : Brings(l, v)) \/ pending[p].n \notin faults
      BY <1>6, <2>4, <3>1 DEF QueuePinned
    <3>3. \A l \in 1 .. p - 1 : Brings(l, v) => Brings(l, v)'
      <4>1. \A l \in 1 .. p - 1 : l \in 1 .. L
        BY <3>1
      <4> QED BY <1>1, <1>9, <4>1 DEF Brings, Install
    <3>4. Versioned(v) => Versioned(v)'
      BY <1>1 DEF Versioned
    <3> QED BY <1>1, <3>1, <3>2, <3>3, <3>4
  <2>8. Sweeping(id)'
    <3> SUFFICES ASSUME NEW o \in Policies, id # "S9" \/ o # "D"
                 PROVE  \/ Listed(o)'
                        \/ \E p \in 1 .. Len(pending') : Delete(p, o)'
                        \/ store'[o] = None /\ \A p \in 1 .. Len(pending') : ~Install(p, o)'
      BY DEF Sweeping
    <3>1. \/ Listed(o)
          \/ \E p \in 1 .. Len(pending) : Delete(p, o)
          \/ store[o] = None /\ \A p \in 1 .. Len(pending) : ~Install(p, o)
      BY <2>4 DEF Sweeping
    <3>2. CASE store[o] = None /\ \A p \in 1 .. Len(pending) : ~Install(p, o)
      BY <1>1, <1>6, <2>6, <3>2
    <3>3. ASSUME NEW p \in 1 .. Len(pending), Delete(p, o) PROVE \E l \in 1 .. Len(pending') : Delete(l, o)'
      <4>1. pending'[p] = pending[p] /\ p \in 1 .. Len(pending')
        <5>1. p \in 1 .. Len(pending')
          BY <1>5, <1>6, <1>8, <3>3
        <5> QED BY <1>6, <1>9, <3>3, <5>1
      <4> QED BY <3>3, <4>1 DEF Delete
    <3>4. CASE Listed(o) /\ o # d
      BY <1>14, <3>4
    <3>5. CASE o = d /\ pending' = Append(pending, Entry(w, 0))
      <4>1. Len(pending') = L + 1 /\ pending'[L + 1] = Entry(w, 0)
        BY <1>5, <1>6, <3>5
      <4>2. L + 1 \in 1 .. Len(pending')
        BY <4>1
      <4>3. Delete(L + 1, o)'
        BY <1>3, <1>7, <3>5, <4>1 DEF Delete
      <4> QED BY <4>2, <4>3
    <3>6. CASE o = d /\ ~Judged(w, 0) /\ pending' = pending /\ ~InFlight(d)
      <4>1. store[o] = None
        BY <1>2, <1>5, <1>13, <2>4, <3>6, Deletable
      <4>2. ASSUME NEW p \in 1 .. Len(pending), Install(p, o) PROVE FALSE
        <5>1. PICK e : e = pending[p].w
          OBVIOUS
        <5>2. e.obj = o /\ pending[p].n # 0
          BY <4>2, <5>1 DEF Install
        <5>3. e.act = "post"
          BY <1>5, <1>11, <5>1, <5>2, LinedFacts
        <5>4. p \in DOMAIN pending
          BY <1>5
        <5> QED BY <3>6, <5>1, <5>2, <5>3, <5>4 DEF InFlight
      <4> QED BY <1>1, <3>6, <4>1, <4>2 DEF Install
    <3> QED BY <2>1, <3>1, <3>2, <3>3, <3>4, <3>5, <3>6
  <2> QED BY <2>5, <2>7, <2>8
<1> QED BY <1>15, <1>16

SweepHolds == \A id, s, h, n, m : Position(id, s, h, n, m) => SweepInv(id, s, h, n, m)

LEMMA SweepInit == LiveInit /\ LiveTyped => SweepHolds
<1> SUFFICES ASSUME LiveInit, LiveTyped, NEW id, NEW s, NEW h, NEW n, NEW m, Position(id, s, h, n, m)
             PROVE  SweepInv(id, s, h, n, m)
  BY DEF SweepHolds
<1>1. n = 1 /\ outcome = None /\ pending = <<>> /\ archive = {} /\ store = [o \in Objects |-> None]
  BY DEF LiveInit, Position
<1>2. \A o \in Policies : store[o] = None /\ o \in Objects
  BY <1>1, PolicyObjects
<1>3. ~Awaiting(s, 1) /\ h[1] = Start
  BY ScenarioFacts DEF Position
<1>4. m = 1
  BY <1>1, <1>3 DEF Position, At
<1>5. Start.st["A"] = None /\ Start.ar = {}
  BY PolicyObjects DEF Start
<1>6. ~(1 \in DOMAIN s /\ s[1].op = "submit" /\ s[1 + 1].op = "changed")
  <2>1. SUFFICES ASSUME 1 \in DOMAIN s, s[1].op = "submit", s[1 + 1].op = "changed" PROVE FALSE
    OBVIOUS
  <2>2. 1 > 1
    BY <2>1, WriteFacts DEF Position
  <2> QED BY <2>2
<1>7. Len(pending) = 0 /\ \A p \in 1 .. Len(pending) : FALSE
  BY <1>1
<1>8. Archived(id)
  BY <1>1, <1>2, PolicyObjects DEF Archived
<1>9. KidsPinned(id) /\ QueuePinned /\ Recording
  BY <1>2, <1>7, PolicyObjects DEF KidsPinned, QueuePinned, Recording
<1>10. Amending(s, h, n, m)
  BY <1>1, <1>3, <1>4, <1>5 DEF Amending
<1>11. Watched(s, h, n, m)
  BY <1>1, <1>2, <1>3, <1>6, <1>7, PolicyObjects DEF Watched
<1> QED BY <1>1, <1>7, <1>8, <1>9, <1>10, <1>11 DEF SweepInv

LEMMA SweepNext == LiveTyped /\ SweepHolds /\ [LiveNext]_LiveVars => SweepHolds'
<1> SUFFICES ASSUME LiveTyped, SweepHolds, [LiveNext]_LiveVars,
                    NEW id, NEW s, NEW h, NEW k, NEW j, Position(id, s, h, k, j)'
             PROVE  SweepInv(id, s, h, k, j)'
  BY DEF SweepHolds
<1>1. scen' = scen /\ faults' = faults /\ mishaps \subseteq mishaps'
  BY HistoryGrows
<1>2. line' = k /\ j = At(s, k) /\ Scenario(id, s, h) /\ scen.id = id
  BY <1>1 DEF Position
<1>3. PICK n, m : n = line /\ m = At(s, n)
  OBVIOUS
<1>4. Position(id, s, h, n, m)
  BY <1>2, <1>3 DEF Position
<1>5. SweepInv(id, s, h, n, m)
  BY <1>4 DEF SweepHolds
<1>6. pending \in Seq(Entries(id)) /\ DOMAIN pending = 1 .. Len(pending) /\ Len(pending) \in Nat
  <2>1. pending \in Seq(Entries(id))
    BY <1>4, PositionFacts
  <2> QED BY <2>1
<1>7. CASE Skip \/ Verdict
  <2>1. outcome = None /\ UNCHANGED <<store, archive, pending, faults, policies, mishaps>>
    BY <1>7 DEF Skip, Verdict, chain
  <2>2. outcome' # None
    BY <1>7, NoneAssumption DEF Skip, Verdict, End
  <2>3. \A o \in Policies : Listed(o) => Listed(o)'
    BY <2>1 DEF Listed
  <2> QED BY <1>5, <2>1, <2>2, <2>3, SweepEnd
<1>8. CASE ReadHead
  <2>1. UNCHANGED <<line, mark, outcome, policies, chain, mishaps>> /\ k = n /\ j = m
    BY <1>2, <1>3, <1>8 DEF ReadHead
  <2>2. ~Awaiting(s, n)
    <3>1. n \in DOMAIN s
      BY <1>3, <1>4, <1>8, PositionFacts DEF ReadHead, Going
    <3>2. s[n].op = "submit"
      BY <1>4, <1>8, <3>1, PositionFacts DEF ReadHead
    <3> QED BY <3>1, <3>2, <1>4, WriteFacts DEF Position
  <2>3. UNCHANGED <<store, archive, pending, faults>>
    BY <2>1 DEF chain
  <2> QED BY <1>5, <1>6, <2>1, <2>2, <2>3, SweepFrame
<1>9. CASE Post
  BY <1>2, <1>4, <1>5, <1>9, SweepPost
<1>10. CASE Settle
  BY <1>2, <1>4, <1>5, <1>10, SweepSettle
<1>11. CASE Sweep
  <2>1. k = n /\ j = m
    BY <1>2, <1>3, <1>11 DEF Sweep
  <2> QED BY <1>4, <1>5, <1>11, <2>1, SweepSweep
<1>12. CASE Replay
  <2>1. k = n /\ j = m
    BY <1>2, <1>3, <1>12 DEF Replay, harness
  <2> QED BY <1>4, <1>5, <1>12, <2>1, SweepReplay
<1>13. CASE Block
  <2>1. UNCHANGED <<store, archive, faults, policies, outcome, mark, mishaps>> /\ sub' = Passed(sub) /\ k = n /\ j = m
        /\ pending' = [p \in DOMAIN pending |-> [pending[p] EXCEPT !.age = @ + 1]]
    BY <1>2, <1>3, <1>13 DEF Block
  <2>2. sub'.state = sub.state
    BY <2>1 DEF Passed, LiveTyped
  <2>3. \A p \in 1 .. Len(pending) : pending'[p].w = pending[p].w /\ pending'[p].n = pending[p].n
    <3> SUFFICES ASSUME NEW p \in 1 .. Len(pending) PROVE pending'[p].w = pending[p].w /\ pending'[p].n = pending[p].n
      OBVIOUS
    <3>1. PICK e \in Entries(id) : e = pending[p]
      BY <1>6
    <3>2. pending'[p] = [e EXCEPT !.age = @ + 1]
      BY <1>6, <2>1, <3>1
    <3> QED BY <3>1, <3>2 DEF Entries
  <2>4. Len(pending') = Len(pending)
    BY <1>6, <2>1
  <2> QED BY <1>5, <1>6, <2>1, <2>2, <2>3, <2>4, SweepFrame
<1>14. CASE Hide
  <2>1. UNCHANGED <<store, archive, faults, policies, outcome, mark, sub>> /\ mishaps' = mishaps \cup {"hidden"} /\ k = n /\ j = m
        /\ pending' = [p \in DOMAIN pending |-> [pending[p] EXCEPT !.overlay = "lost"]]
    BY <1>2, <1>3, <1>14 DEF Hide, harness
  <2>2. \A p \in 1 .. Len(pending) : pending'[p].w = pending[p].w /\ pending'[p].n = pending[p].n
    <3> SUFFICES ASSUME NEW p \in 1 .. Len(pending) PROVE pending'[p].w = pending[p].w /\ pending'[p].n = pending[p].n
      OBVIOUS
    <3>1. PICK e \in Entries(id) : e = pending[p]
      BY <1>6
    <3>2. pending'[p] = [e EXCEPT !.overlay = "lost"]
      BY <1>6, <2>1, <3>1
    <3> QED BY <3>1, <3>2 DEF Entries
  <2>3. Len(pending') = Len(pending)
    BY <1>6, <2>1
  <2>4. "swallowed" \in mishaps' => "swallowed" \in mishaps
    BY <2>1
  <2> QED BY <1>1, <1>5, <1>6, <2>1, <2>2, <2>3, <2>4, SweepFrame
<1>15. CASE Drop
  <2>1. UNCHANGED <<store, archive, outcome>> /\ pending # <<>> /\ pending' = Tail(pending) /\ k = n /\ j = m
        /\ mishaps' = mishaps \cup {"dropped"}
    BY <1>2, <1>3, <1>15 DEF Drop, harness
  <2>2. \A p \in 1 .. Len(pending) : Lined(s, n, p)
    BY <1>5 DEF SweepInv
  <2>3. \A p \in 1 .. Len(pending') : Lined(s, n, p)'
    BY <1>6, <2>1, <2>2, LinedTail
  <2>4. Archived(id) /\ {"dropped", "unanswered", "early"} \cap mishaps' # {}
    BY <1>5, <2>1 DEF SweepInv
  <2> QED BY <2>1, <2>3, <2>4, SweepLost
<1>16. CASE Lapse
  <2>1. UNCHANGED <<store, archive, faults, policies, outcome, mark, sub, pending>> /\ k = n /\ j = m
        /\ mishaps' = mishaps \cup {"lapsed"}
    BY <1>2, <1>3, <1>16 DEF Lapse, harness
  <2>2. "swallowed" \in mishaps' => "swallowed" \in mishaps
    BY <2>1
  <2> QED BY <1>1, <1>5, <1>6, <2>1, <2>2, SweepFrame
<1>17. CASE UNCHANGED LiveVars
  <2>1. UNCHANGED <<store, archive, faults, policies, outcome, mark, sub, pending, mishaps>> /\ k = n /\ j = m
    BY <1>2, <1>3, <1>17 DEF LiveVars, harness, chain
  <2> QED BY <1>5, <1>6, <2>1, SweepFrame
<1> QED BY <1>7, <1>8, <1>9, <1>10, <1>11, <1>12, <1>13, <1>14, <1>15, <1>16, <1>17 DEF LiveNext

\* When the sweep of cleanup is over and replayed no policy of the scenario is left,
\* wherever it stopped, except the child that tracks the ancestor of S9.  The failing
\* deletions it leaves out: one that was dropped after it was taken, one whose own
\* answer or whose install's was lost, one denied because it came ahead of the
\* install still in flight, and, if the error of a wait for an amendment was passed
\* over, those on an engine that misjudged more than one write.
THEOREM SweptUnlessRevokedHolds == LiveSpec => []SweptUnlessRevoked
<1>1. LiveInit => LiveTyped /\ SweepHolds
  BY LiveTypedInit, SweepInit
<1>2. LiveTyped /\ SweepHolds /\ [LiveNext]_LiveVars => LiveTyped' /\ SweepHolds'
  BY LiveTypedNext, SweepNext
<1>3. LiveTyped /\ SweepHolds => SweptUnlessRevoked
  <2> SUFFICES ASSUME LiveTyped, SweepHolds, Finished, scen.sys, ~scen.keep, pending = <<>>, Clean,
                      NEW o \in Policies, store[o] # None
               PROVE  scen.id = "S9" /\ o = "D"
    BY DEF SweptUnlessRevoked, Clean
  <2>1. PICK id, s, h, n, m : Position(id, s, h, n, m)
    BY Somewhere
  <2>2. SweepInv(id, s, h, n, m)
    BY <2>1 DEF SweepHolds
  <2>3. outcome # None /\ policies = <<>>
    BY DEF Finished
  <2>4. Sweeping(id)
    BY <2>2, <2>3 DEF SweepInv
  <2>5. ~Listed(o) /\ \A p \in 1 .. Len(pending) : FALSE
    BY <2>3 DEF Listed
  <2>6. id = "S9" /\ o = "D"
    BY <2>4, <2>5 DEF Sweeping
  <2> QED BY <2>1, <2>6 DEF Position
<1> QED BY <1>1, <1>2, <1>3, PTL DEF LiveSpec
=============================================================================
