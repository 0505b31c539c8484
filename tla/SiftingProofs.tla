---------------------------- MODULE SiftingProofs ----------------------------
(***************************************************************************)
(* Induction over data, and what Sift returns.  The induction theorems of  *)
(* the library take an operator as a parameter; here a property is a set,  *)
(* and induction comes from the well-foundedness of strict inclusion.      *)
(***************************************************************************)
EXTENDS Sifting, SequencesExt, FiniteSetTheorems, SequenceTheorems, TLAPS

\* An interval from 1 determines its end.
LEMMA SameEnd ==
    ASSUME NEW m \in Nat, NEW n \in Nat, 1 .. m = 1 .. n
    PROVE  m = n
<1>1. (m + 1 \in 1 .. m) = (m + 1 \in 1 .. n) /\ (n + 1 \in 1 .. m) = (n + 1 \in 1 .. n)
  OBVIOUS
<1> QED
  BY <1>1

\* A set of natural numbers has a least element.
LEMMA Least ==
    ASSUME NEW T \in SUBSET Nat, T # {}
    PROVE  \E x \in T : \A y \in T : x <= y
<1> DEFINE I(x) == 1 .. x
           U == {I(x) : x \in T}
<1>1. U \subseteq FiniteSubsetsOf(Nat) /\ U # {}
  <2>1. ASSUME NEW x \in T PROVE I(x) \in FiniteSubsetsOf(Nat)
    <3>1. x \in Int /\ 1 \in Int
      OBVIOUS
    <3>2. IsFiniteSet(1 .. x)
      BY <3>1, FS_Interval, Zenon
    <3>3. 1 .. x \subseteq Nat
      BY <3>1
    <3> QED BY <3>2, <3>3 DEF FiniteSubsetsOf
  <2>2. U # {}
    OBVIOUS
  <2> HIDE DEF I
  <2> QED BY <2>1, <2>2
<1>2. PICK X \in U : \A Y \in U : ~ (<<Y, X>> \in StrictSubsetOrdering(Nat))
  <2> HIDE DEF U
  <2> QED BY <1>1, FS_StrictSubsetOrderingWellFounded, WFMin, Zenon
<1>3. PICK x \in T : X = I(x)
  BY <1>2
<1>4. ASSUME NEW y \in T, y < x PROVE FALSE
  <2>1. I(y) \in U
    OBVIOUS
  <2>2. I(y) \in SUBSET Nat /\ I(x) \in SUBSET Nat
    OBVIOUS
  <2>3. I(y) \subseteq I(x) /\ x \in I(x) /\ x \notin I(y)
    BY <1>4
  <2>4. <<I(y), X>> \in StrictSubsetOrdering(Nat)
    BY <2>2, <2>3, <1>3 DEF StrictSubsetOrdering
  <2> QED BY <1>2, <2>1, <2>4
<1> QED BY <1>4

\* Induction: a set with 0 and with the successor of each of its numbers has all.
LEMMA SetInduction ==
    ASSUME NEW S, 0 \in S, \A n \in Nat : n \in S => n + 1 \in S
    PROVE  Nat \subseteq S
<1> SUFFICES ASSUME Nat \ S # {} PROVE FALSE
  OBVIOUS
<1>1. PICK x \in Nat \ S : \A y \in Nat \ S : x <= y
  BY Least
<1>2. x - 1 \in Nat /\ x - 1 \in S
  BY <1>1
<1> QED BY <1>1, <1>2

\* The same up to a bound.
LEMMA UpToInduction ==
    ASSUME NEW N \in Nat, NEW S, 0 \in S, \A n \in 0 .. N - 1 : n \in S => n + 1 \in S
    PROVE  0 .. N \subseteq S
<1> DEFINE U == {n \in Nat : n <= N => n \in S}
<1>1. 0 \in U /\ \A n \in Nat : n \in U => n + 1 \in U
  OBVIOUS
<1> HIDE DEF U
<1>2. Nat \subseteq U
  BY <1>1, SetInduction
<1> QED BY <1>2 DEF U

\* f is v at 0 and what G makes of its last value from then on.
Solves(f, N, v, G) == f[0] = v /\ \A n \in 1 .. N : f[n] = G[<<n, f[n - 1]>>]

\* A recursion over 0 .. N has a solution.
LEMMA Recursion ==
    ASSUME NEW N \in Nat, NEW V, NEW v \in V, NEW G \in [(1 .. N) \X V -> V]
    PROVE  \E f \in [0 .. N -> V] : Solves(f, N, v, G)
<1> DEFINE Up(m, f) == f[0] = v /\ \A n \in 1 .. m : f[n] = G[<<n, f[n - 1]>>]
           S == {m \in 0 .. N : \E f \in [0 .. m -> V] : Up(m, f)}
<1>1. 0 \in S
  <2> DEFINE f == [x \in 0 .. 0 |-> v]
  <2>1. f \in [0 .. 0 -> V] /\ Up(0, f) /\ 0 \in 0 .. N
    OBVIOUS
  <2> HIDE DEF f, Up
  <2> QED BY <2>1
<1>2. ASSUME NEW m \in 0 .. N - 1, m \in S PROVE m + 1 \in S
  <2>1. PICK f \in [0 .. m -> V] : Up(m, f)
    BY <1>2
  <2> DEFINE g == [x \in 0 .. m + 1 |-> IF x <= m THEN f[x] ELSE G[<<m + 1, f[m]>>]]
  <2>2. m + 1 \in 1 .. N /\ f[m] \in V
    BY <1>2
  <2>3. G[<<m + 1, f[m]>>] \in V
    BY <2>2
  <2>4. g \in [0 .. m + 1 -> V]
    BY <2>3
  <2>5. g[0] = v /\ \A x \in 0 .. m : g[x] = f[x]
    BY <2>1
  <2>6. g[m + 1] = G[<<m + 1, f[m]>>]
    OBVIOUS
  <2> HIDE DEF g
  <2>7. ASSUME NEW n \in 1 .. m + 1 PROVE g[n] = G[<<n, g[n - 1]>>]
    <3>1. CASE n = m + 1
      BY <2>5, <2>6, <3>1
    <3>2. CASE n \in 1 .. m
      <4>1. n \in 0 .. m /\ n - 1 \in 0 .. m
        BY <3>2
      <4> QED BY <2>1, <2>5, <3>2, <4>1
    <3> QED BY <3>1, <3>2
  <2>8. Up(m + 1, g)
    BY <2>5, <2>7
  <2> HIDE DEF Up
  <2> QED BY <1>2, <2>4, <2>8
<1> HIDE DEF S
<1>3. 0 .. N \subseteq S
  BY <1>1, <1>2, UpToInduction
<1>4. N \in S
  BY <1>3
<1> QED BY <1>4 DEF S, Solves

\* Induction over sequences: a set with the empty sequence and with every
\* extension of its sequences has all.
LEMMA SequenceInduction ==
    ASSUME NEW T, NEW S, <<>> \in S,
           \A s \in Seq(T), e \in T : s \in S => Append(s, e) \in S
    PROVE  Seq(T) \subseteq S
<1> DEFINE U == {n \in Nat : \A s \in Seq(T) : Len(s) = n => s \in S}
<1>1. 0 \in U
  BY EmptySeq
<1>2. ASSUME NEW n \in Nat, n \in U PROVE n + 1 \in U
  <2>1. ASSUME NEW s \in Seq(T), Len(s) = n + 1 PROVE s \in S
    <3>1. s # <<>>
      BY <2>1, EmptySeq
    <3>2. PICK t \in Seq(T), e \in T : s = Append(t, e)
      BY <3>1, SequenceEmptyOrAppend
    <3>3. Len(s) = Len(t) + 1 /\ Len(t) \in Nat
      BY <3>2, AppendProperties, LenProperties
    <3>4. Len(t) = n
      BY <2>1, <3>3
    <3> QED BY <1>2, <3>2, <3>4
  <2> QED BY <2>1
<1> HIDE DEF U
<1>3. Nat \subseteq U
  BY <1>1, <1>2, SetInduction
<1>4. ASSUME NEW s \in Seq(T) PROVE s \in S
  <2>1. Len(s) \in U
    BY <1>3, LenProperties
  <2> QED BY <2>1 DEF U
<1> QED BY <1>4

-----------------------------------------------------------------------------
(* Sifting. *)

\* The recursion of Kept has a solution, and Kept is it.
LEMMA KeptRecursion ==
    ASSUME NEW T, NEW s \in Seq(T), NEW S
    PROVE  /\ Kept(s, S) \in [0 .. Len(s) -> Seq(T)]
           /\ Kept(s, S)[0] = <<>>
           /\ \A n \in 1 .. Len(s) :
                 Kept(s, S)[n] = IF s[n] \in S THEN Append(Kept(s, S)[n - 1], s[n])
                                               ELSE Kept(s, S)[n - 1]
<1> DEFINE N == Len(s)
           V == Seq(T)
           Step(n, t) == IF s[n] \in S THEN Append(t, s[n]) ELSE t
           G == [x \in (1 .. N) \X V |-> Step(x[1], x[2])]
           Body(f) == [n \in 0 .. N |-> IF n = 0 THEN <<>> ELSE Step(n, f[n - 1])]
<1>1. N \in Nat /\ \A n \in 1 .. N : s[n] \in T
  BY LenProperties
<1>2. <<>> \in V
  OBVIOUS
<1>3. \A n \in 1 .. N, t \in V : Step(n, t) \in V
  BY <1>1
<1> HIDE DEF N, V, Step
<1>4. G \in [(1 .. N) \X V -> V] /\ \A n \in 1 .. N, t \in V : G[<<n, t>>] = Step(n, t)
  BY <1>3
<1> HIDE DEF G
<1>5. PICK f \in [0 .. N -> V] : f[0] = <<>> /\ \A n \in 1 .. N : f[n] = G[<<n, f[n - 1]>>]
  <2> HIDE DEF Body
  <2>1. G \in [(1 .. N) \X V -> V]
    BY <1>4
  <2>2. N \in Nat
    BY <1>1
  <2>3. \E f \in [0 .. N -> V] : Solves(f, N, <<>>, G)
    BY <1>2, <2>1, <2>2, Recursion, Zenon
  <2> QED BY <2>3 DEF Solves
<1>5a. \A n \in 1 .. N : f[n - 1] \in V
  BY <1>1, <1>5
<1>5b. \A n \in 1 .. N : f[n] = Step(n, f[n - 1])
  BY <1>4, <1>5, <1>5a
<1>6. f = Body(f)
  <2>1. ASSUME NEW n \in 0 .. N PROVE f[n] = Body(f)[n]
    <3>1. CASE n = 0
      BY <1>5, <3>1
    <3>2. CASE n # 0
      <4>1. n \in 1 .. N /\ n - 1 \in 0 .. N
        BY <1>1, <3>2
      <4>2. f[n] = Step(n, f[n - 1])
        BY <1>4, <1>5, <4>1
      <4> QED BY <3>2, <4>2
    <3> QED BY <3>1, <3>2
  <2> QED BY <1>5, <2>1
<1>7. Kept(s, S) = CHOOSE g : g = Body(g)
  BY DEF Kept, N, Step
<1> DEFINE k == Kept(s, S)
<1> HIDE DEF k
<1>8. k = Body(k)
  <2> HIDE DEF Body
  <2> QED BY <1>6, <1>7 DEF k
<1>9. k = f
  <2> DEFINE E == {n \in 0 .. N : k[n] = f[n]}
  <2>0. \A n \in 0 .. N : k[n] = IF n = 0 THEN <<>> ELSE Step(n, k[n - 1])
    BY <1>8
  <2>1. 0 \in E
    BY <1>1, <1>5, <2>0
  <2>2. ASSUME NEW n \in 0 .. N - 1, n \in E PROVE n + 1 \in E
    <3>1. n + 1 \in 1 .. N /\ n + 1 \in 0 .. N /\ (n + 1) - 1 = n /\ n + 1 # 0
      BY <1>1, <2>2
    <3>2. k[n + 1] = Step(n + 1, k[n])
      BY <2>0, <3>1
    <3>3. f[n + 1] = Step(n + 1, f[n])
      BY <1>5b, <3>1
    <3> QED BY <2>2, <3>1, <3>2, <3>3
  <2> HIDE DEF E
  <2>3. 0 .. N \subseteq E
    BY <1>1, <2>1, <2>2, UpToInduction
  <2>4. \A n \in 0 .. N : k[n] = f[n]
    BY <2>3 DEF E
  <2>5. DOMAIN k = 0 .. N /\ k = [n \in DOMAIN k |-> k[n]]
    BY <1>8
  <2> HIDE DEF Body
  <2> QED BY <1>5, <2>4, <2>5
<1> QED BY <1>5, <1>5b, <1>9 DEF N, V, Step, k

\* Nothing is left of nothing.
LEMMA SiftEmpty ==
    ASSUME NEW S
    PROVE  Sift(<<>>, S) = <<>>
<1>1. ASSUME NEW T, NEW s \in Seq(T) PROVE Kept(s, S)[0] = <<>>
  BY KeptRecursion
<1>2. <<>> \in Seq({}) /\ Len(<<>>) = 0
  BY EmptySeq
<1>3. Kept(<<>>, S)[0] = <<>>
  BY <1>1, <1>2, Zenon
<1> QED BY <1>2, <1>3, Zenon DEF Sift

\* The loop goes on with one more element.
LEMMA SiftAppend ==
    ASSUME NEW T, NEW s \in Seq(T), NEW e \in T, NEW S
    PROVE  Sift(Append(s, e), S) = IF e \in S THEN Append(Sift(s, S), e) ELSE Sift(s, S)
<1> DEFINE t == Append(s, e)
           a == Kept(s, S)
           b == Kept(t, S)
           N == Len(s)
           E == {n \in 0 .. N : a[n] = b[n]}
<1>1. /\ t \in Seq(T) /\ N \in Nat /\ Len(t) = N + 1
      /\ \A x \in 1 .. N : t[x] = s[x]
      /\ t[N + 1] = e
  BY AppendProperties, LenProperties
<1> HIDE DEF t
<1>2. /\ a[0] = <<>>
      /\ \A n \in 1 .. N : a[n] = IF s[n] \in S THEN Append(a[n - 1], s[n]) ELSE a[n - 1]
  BY KeptRecursion
<1>3. /\ b[0] = <<>>
      /\ \A n \in 1 .. N + 1 : b[n] = IF t[n] \in S THEN Append(b[n - 1], t[n]) ELSE b[n - 1]
  BY <1>1, KeptRecursion
<1> HIDE DEF a, b, N
<1>4. 0 \in E
  BY <1>1, <1>2, <1>3
<1>5. ASSUME NEW n \in 0 .. N - 1, n \in E PROVE n + 1 \in E
  <2>1. n + 1 \in 1 .. N /\ n + 1 \in 1 .. N + 1 /\ n + 1 \in 0 .. N /\ (n + 1) - 1 = n
    BY <1>1, <1>5
  <2>2. a[n + 1] = IF s[n + 1] \in S THEN Append(a[n], s[n + 1]) ELSE a[n]
    BY <1>2, <2>1
  <2>3. b[n + 1] = IF t[n + 1] \in S THEN Append(b[n], t[n + 1]) ELSE b[n]
    BY <1>3, <2>1
  <2>4. t[n + 1] = s[n + 1] /\ a[n] = b[n]
    BY <1>1, <1>5, <2>1
  <2> QED BY <2>1, <2>2, <2>3, <2>4
<1> HIDE DEF E
<1>6. N \in E
  <2>1. 0 .. N \subseteq E
    BY <1>1, <1>4, <1>5, UpToInduction
  <2> QED BY <1>1, <2>1
<1>7. a[N] = b[N]
  BY <1>6 DEF E
<1>8. N + 1 \in 1 .. N + 1 /\ (N + 1) - 1 = N
  BY <1>1
<1>9. b[N + 1] = IF e \in S THEN Append(a[N], e) ELSE a[N]
  BY <1>1, <1>3, <1>7, <1>8
<1> QED BY <1>1, <1>9 DEF Sift, a, b, N, t

\* What is left is of the elements in the set.
LEMMA SiftType ==
    ASSUME NEW T, NEW s \in Seq(T), NEW S
    PROVE  Sift(s, S) \in Seq(T \intersect S)
<1> DEFINE U == {r \in Seq(T) : Sift(r, S) \in Seq(T \intersect S)}
<1>1. <<>> \in U
  <2>1. <<>> \in Seq(T) /\ <<>> \in Seq(T \intersect S)
    BY EmptySeq, Zenon
  <2>2. Sift(<<>>, S) \in Seq(T \intersect S)
    BY <2>1, SiftEmpty, Zenon
  <2> QED BY <2>1, <2>2
<1>2. ASSUME NEW r \in Seq(T), NEW e \in T, r \in U PROVE Append(r, e) \in U
  <2>1. Append(r, e) \in Seq(T)
    BY AppendProperties
  <2>2. Sift(Append(r, e), S) = IF e \in S THEN Append(Sift(r, S), e) ELSE Sift(r, S)
    BY SiftAppend
  <2>3. e \in S => Append(Sift(r, S), e) \in Seq(T \intersect S)
    BY <1>2, AppendProperties
  <2> QED BY <1>2, <2>1, <2>2, <2>3
<1> HIDE DEF U
<1>3. Seq(T) \subseteq U
  BY <1>1, <1>2, SequenceInduction
<1> QED BY <1>3 DEF U

\* The elements of a sequence with one more.
LEMMA RangeAppend ==
    ASSUME NEW T, NEW s \in Seq(T), NEW e \in T
    PROVE  Range(Append(s, e)) = Range(s) \union {e}
<1> DEFINE t == Append(s, e)
<1>1. /\ t \in Seq(T) /\ Len(t) = Len(s) + 1
      /\ \A x \in 1 .. Len(s) : t[x] = s[x]
      /\ t[Len(s) + 1] = e
  BY AppendProperties
<1>2. Len(s) \in Nat /\ DOMAIN s = 1 .. Len(s) /\ DOMAIN t = 1 .. Len(s) + 1
  BY <1>1, LenProperties
<1> HIDE DEF t
<1>3. \A x \in DOMAIN t : x \in DOMAIN s \/ x = Len(s) + 1
  BY <1>2
<1>4. \A x \in DOMAIN s : x \in DOMAIN t /\ t[x] = s[x]
  BY <1>1, <1>2
<1>5. Len(s) + 1 \in DOMAIN t
  BY <1>2
<1> QED BY <1>1, <1>3, <1>4, <1>5 DEF Range, t

\* All of them are left.
LEMMA SiftRange ==
    ASSUME NEW T, NEW s \in Seq(T), NEW S
    PROVE  Range(Sift(s, S)) = Range(s) \intersect S
<1> DEFINE U == {r \in Seq(T) : Range(Sift(r, S)) = Range(r) \intersect S}
<1>1. <<>> \in U
  BY SiftEmpty DEF Range
<1>2. ASSUME NEW r \in Seq(T), NEW e \in T, r \in U PROVE Append(r, e) \in U
  <2>1. Append(r, e) \in Seq(T) /\ Range(Append(r, e)) = Range(r) \union {e}
    BY AppendProperties, RangeAppend
  <2>2. Sift(Append(r, e), S) = IF e \in S THEN Append(Sift(r, S), e) ELSE Sift(r, S)
    BY SiftAppend
  <2>3. ASSUME e \in S PROVE Range(Append(Sift(r, S), e)) = Range(Sift(r, S)) \union {e}
    <3>1. Sift(r, S) \in Seq(T \intersect S) /\ e \in T \intersect S
      BY <2>3, SiftType
    <3> QED BY <3>1, RangeAppend
  <2> QED BY <1>2, <2>1, <2>2, <2>3
<1> HIDE DEF U
<1>3. Seq(T) \subseteq U
  BY <1>1, <1>2, SequenceInduction
<1> QED BY <1>3 DEF U

\* s is in the order of R.
Ordered(s, R) == \A x, y \in 1 .. Len(s) : x < y => <<s[x], s[y]>> \in R

\* An element at the end of a sequence in order, later than all the others.
LEMMA OrderedAppend ==
    ASSUME NEW T, NEW s \in Seq(T), NEW e \in T, NEW R
    PROVE  Ordered(Append(s, e), R) <=> Ordered(s, R) /\ \A f \in Range(s) : <<f, e>> \in R
<1> DEFINE t == Append(s, e)
<1>1. /\ Len(s) \in Nat /\ Len(t) = Len(s) + 1
      /\ \A x \in 1 .. Len(s) : t[x] = s[x]
      /\ t[Len(s) + 1] = e
  BY AppendProperties, LenProperties
<1>2. Range(s) = {s[x] : x \in 1 .. Len(s)}
  BY RangeEquality
<1> HIDE DEF t
<1>3. ASSUME Ordered(t, R) PROVE Ordered(s, R) /\ \A f \in Range(s) : <<f, e>> \in R
  <2>1. ASSUME NEW x \in 1 .. Len(s) PROVE <<s[x], e>> \in R
    BY <1>1, <1>3 DEF Ordered
  <2>2. Ordered(s, R)
    BY <1>1, <1>3 DEF Ordered
  <2> QED BY <1>2, <2>1, <2>2
<1>4. ASSUME Ordered(s, R), \A f \in Range(s) : <<f, e>> \in R PROVE Ordered(t, R)
  <2>1. ASSUME NEW x \in 1 .. Len(s) + 1, NEW y \in 1 .. Len(s) + 1, x < y PROVE <<t[x], t[y]>> \in R
    <3>1. x \in 1 .. Len(s)
      BY <1>1, <2>1
    <3>2. CASE y = Len(s) + 1
      BY <1>1, <1>2, <1>4, <3>1, <3>2
    <3>3. CASE y \in 1 .. Len(s)
      BY <1>1, <1>4, <2>1, <3>1, <3>3 DEF Ordered
    <3> QED BY <1>1, <3>2, <3>3
  <2> QED BY <1>1, <2>1 DEF Ordered
<1> QED BY <1>3, <1>4 DEF t

\* Two sequences in order, everything in the first before everything in the second.
LEMMA OrderedConcat ==
    ASSUME NEW T, NEW s \in Seq(T), NEW t \in Seq(T), NEW R, Ordered(s, R), Ordered(t, R),
           \A e \in Range(s), f \in Range(t) : <<e, f>> \in R
    PROVE  Ordered(s \o t, R)
<1>1. /\ Len(s) \in Nat /\ Len(t) \in Nat /\ Len(s \o t) = Len(s) + Len(t)
      /\ \A x \in 1 .. Len(s) + Len(t) : (s \o t)[x] = IF x <= Len(s) THEN s[x] ELSE t[x - Len(s)]
  BY ConcatProperties, LenProperties
<1>2. Range(s) = {s[x] : x \in 1 .. Len(s)} /\ Range(t) = {t[x] : x \in 1 .. Len(t)}
  BY RangeEquality
<1> DEFINE u == s \o t
<1> HIDE DEF u
<1>3. ASSUME NEW x \in 1 .. Len(s) + Len(t), NEW y \in 1 .. Len(s) + Len(t), x < y
      PROVE  <<u[x], u[y]>> \in R
  <2>1. CASE y <= Len(s)
    <3>1. x \in 1 .. Len(s) /\ y \in 1 .. Len(s) /\ u[x] = s[x] /\ u[y] = s[y]
      BY <1>1, <1>3, <2>1 DEF u
    <3> QED BY <1>3, <3>1 DEF Ordered
  <2>2. CASE ~ (x <= Len(s))
    <3>1. /\ x - Len(s) \in 1 .. Len(t) /\ y - Len(s) \in 1 .. Len(t) /\ x - Len(s) < y - Len(s)
          /\ u[x] = t[x - Len(s)] /\ u[y] = t[y - Len(s)]
      BY <1>1, <1>3, <2>2 DEF u
    <3> QED BY <3>1 DEF Ordered
  <2>3. CASE x <= Len(s) /\ ~ (y <= Len(s))
    <3>1. /\ x \in 1 .. Len(s) /\ y - Len(s) \in 1 .. Len(t)
          /\ u[x] = s[x] /\ u[y] = t[y - Len(s)]
      BY <1>1, <1>3, <2>3 DEF u
    <3>2. s[x] \in Range(s) /\ t[y - Len(s)] \in Range(t)
      BY <1>2, <3>1
    <3> QED BY <3>1, <3>2
  <2> QED BY <1>1, <1>3, <2>1, <2>2, <2>3
<1> QED BY <1>1, <1>3 DEF Ordered, u

\* What is left is in the order it was in.
LEMMA SiftOrdered ==
    ASSUME NEW T, NEW s \in Seq(T), NEW S, NEW R, Ordered(s, R)
    PROVE  Ordered(Sift(s, S), R)
<1> DEFINE U == {r \in Seq(T) : Ordered(r, R) => Ordered(Sift(r, S), R)}
<1>1. <<>> \in U
  BY SiftEmpty
<1>2. ASSUME NEW r \in Seq(T), NEW e \in T, r \in U PROVE Append(r, e) \in U
  <2>1. Append(r, e) \in Seq(T)
    BY AppendProperties
  <2>2. Sift(Append(r, e), S) = IF e \in S THEN Append(Sift(r, S), e) ELSE Sift(r, S)
    BY SiftAppend
  <2>3. SUFFICES ASSUME Ordered(Append(r, e), R) PROVE Ordered(Sift(Append(r, e), S), R)
    BY <2>1
  <2>4. Ordered(r, R) /\ \A f \in Range(r) : <<f, e>> \in R
    BY <2>3, OrderedAppend
  <2>5. Ordered(Sift(r, S), R) /\ Range(Sift(r, S)) \subseteq Range(r)
    BY <1>2, <2>4, SiftRange
  <2>6. ASSUME e \in S PROVE Ordered(Append(Sift(r, S), e), R)
    <3>1. Sift(r, S) \in Seq(T \intersect S) /\ e \in T \intersect S
      BY <2>6, SiftType
    <3>2. \A f \in Range(Sift(r, S)) : <<f, e>> \in R
      BY <2>4, <2>5
    <3> QED BY <2>5, <3>1, <3>2, OrderedAppend, Zenon
  <2> QED BY <2>2, <2>5, <2>6
<1> HIDE DEF U
<1>3. Seq(T) \subseteq U
  BY <1>1, <1>2, SequenceInduction
<1> QED BY <1>3 DEF U

\* What is left depends on no element that is not there.
LEMMA SiftSame ==
    ASSUME NEW T, NEW s \in Seq(T), NEW S, NEW Z, Range(s) \intersect S = Range(s) \intersect Z
    PROVE  Sift(s, S) = Sift(s, Z)
<1> DEFINE U == {r \in Seq(T) : Range(r) \intersect S = Range(r) \intersect Z => Sift(r, S) = Sift(r, Z)}
<1>1. <<>> \in U
  BY SiftEmpty
<1>2. ASSUME NEW r \in Seq(T), NEW e \in T, r \in U PROVE Append(r, e) \in U
  <2>1. Append(r, e) \in Seq(T) /\ Range(Append(r, e)) = Range(r) \union {e}
    BY AppendProperties, RangeAppend
  <2>2. Sift(Append(r, e), S) = IF e \in S THEN Append(Sift(r, S), e) ELSE Sift(r, S)
    BY SiftAppend
  <2>3. Sift(Append(r, e), Z) = IF e \in Z THEN Append(Sift(r, Z), e) ELSE Sift(r, Z)
    BY SiftAppend
  <2>4. SUFFICES ASSUME (Range(r) \union {e}) \intersect S = (Range(r) \union {e}) \intersect Z
                 PROVE  Sift(Append(r, e), S) = Sift(Append(r, e), Z)
    BY <2>1
  <2>5. Range(r) \intersect S = Range(r) \intersect Z /\ (e \in S <=> e \in Z)
    <3>1. \A x : x \in Range(r) \union {e} => (x \in S <=> x \in Z)
      BY <2>4
    <3> QED BY <3>1
  <2>6. Sift(r, S) = Sift(r, Z)
    BY <1>2, <2>5
  <2> QED BY <2>2, <2>3, <2>5, <2>6
<1> HIDE DEF U
<1>3. Seq(T) \subseteq U
  BY <1>1, <1>2, SequenceInduction
<1> QED BY <1>3 DEF U

\* An element at the end of the second of two sequences.
LEMMA ConcatAppend ==
    ASSUME NEW T, NEW s \in Seq(T), NEW t \in Seq(T), NEW e \in T
    PROVE  s \o Append(t, e) = Append(s \o t, e)
<1> DEFINE u == s \o Append(t, e)
           v == Append(s \o t, e)
<1>1. /\ Append(t, e) \in Seq(T) /\ Len(Append(t, e)) = Len(t) + 1
      /\ \A x \in 1 .. Len(t) : Append(t, e)[x] = t[x]
      /\ Append(t, e)[Len(t) + 1] = e
  BY AppendProperties
<1>2. /\ s \o t \in Seq(T) /\ Len(s \o t) = Len(s) + Len(t)
      /\ \A x \in 1 .. Len(s) + Len(t) : (s \o t)[x] = IF x <= Len(s) THEN s[x] ELSE t[x - Len(s)]
  BY ConcatProperties
<1>3. Len(s) \in Nat /\ Len(t) \in Nat
  BY LenProperties
<1>4. /\ u \in Seq(T) /\ Len(u) = Len(s) + (Len(t) + 1)
      /\ \A x \in 1 .. Len(s) + (Len(t) + 1) :
            u[x] = IF x <= Len(s) THEN s[x] ELSE Append(t, e)[x - Len(s)]
  BY <1>1, ConcatProperties
<1>5. /\ v \in Seq(T) /\ Len(v) = Len(s) + Len(t) + 1
      /\ \A x \in 1 .. Len(s) + Len(t) : v[x] = (s \o t)[x]
      /\ v[Len(s) + Len(t) + 1] = e
  BY <1>2, AppendProperties
<1> HIDE DEF u, v
<1>6. ASSUME NEW x \in 1 .. Len(s) + Len(t) + 1 PROVE u[x] = v[x]
  <2>1. CASE x = Len(s) + Len(t) + 1
    <3>1. ~ (x <= Len(s)) /\ x - Len(s) = Len(t) + 1 /\ x \in 1 .. Len(s) + (Len(t) + 1)
      BY <1>3, <2>1
    <3> QED BY <1>1, <1>4, <1>5, <2>1, <3>1
  <2>2. CASE x \in 1 .. Len(s) + Len(t)
    <3>1. ~ (x <= Len(s)) => x - Len(s) \in 1 .. Len(t)
      BY <1>3, <2>2
    <3>2. x \in 1 .. Len(s) + (Len(t) + 1)
      BY <1>3, <2>2
    <3> QED BY <1>1, <1>2, <1>4, <1>5, <2>2, <3>1, <3>2
  <2> QED BY <1>3, <2>1, <2>2
<1>7. Len(u) = Len(v) /\ \A x \in 1 .. Len(u) : u[x] = v[x]
  BY <1>3, <1>4, <1>5, <1>6
<1> QED BY <1>4, <1>5, <1>7, SeqEqual DEF u, v

\* What is left of two sequences is what is left of the first and of the second.
LEMMA SiftConcat ==
    ASSUME NEW T, NEW s \in Seq(T), NEW t \in Seq(T), NEW S
    PROVE  Sift(s \o t, S) = Sift(s, S) \o Sift(t, S)
<1> DEFINE U == {r \in Seq(T) : Sift(s \o r, S) = Sift(s, S) \o Sift(r, S)}
<1>0. Sift(s, S) \in Seq(T \intersect S)
  BY SiftType
<1>1. <<>> \in U
  <2>1. s \o <<>> = s /\ Sift(s, S) \o <<>> = Sift(s, S) /\ <<>> \in Seq(T)
    BY <1>0, ConcatEmptySeq, EmptySeq
  <2> QED BY <2>1, SiftEmpty
<1>2. ASSUME NEW r \in Seq(T), NEW e \in T, r \in U PROVE Append(r, e) \in U
  <2>1. Append(r, e) \in Seq(T) /\ s \o r \in Seq(T) /\ s \o Append(r, e) = Append(s \o r, e)
    BY AppendProperties, ConcatProperties, ConcatAppend
  <2>2. Sift(Append(r, e), S) = IF e \in S THEN Append(Sift(r, S), e) ELSE Sift(r, S)
    BY SiftAppend
  <2>3. Sift(Append(s \o r, e), S) = IF e \in S THEN Append(Sift(s \o r, S), e) ELSE Sift(s \o r, S)
    BY <2>1, SiftAppend
  <2>4. Sift(s \o r, S) = Sift(s, S) \o Sift(r, S)
    BY <1>2
  <2>5. ASSUME e \in S
        PROVE  Sift(s, S) \o Append(Sift(r, S), e) = Append(Sift(s, S) \o Sift(r, S), e)
    <3>1. Sift(r, S) \in Seq(T \intersect S) /\ e \in T \intersect S
      BY <2>5, SiftType
    <3> QED BY <1>0, <3>1, ConcatAppend
  <2> QED BY <2>1, <2>2, <2>3, <2>4, <2>5
<1> HIDE DEF U
<1>3. Seq(T) \subseteq U
  BY <1>1, <1>2, SequenceInduction
<1> QED BY <1>3 DEF U

\* A prefix, element by element.
LEMMA PrefixElements ==
    ASSUME NEW T, NEW s \in Seq(T), NEW t \in Seq(T)
    PROVE  IsPrefix(s, t) <=> Len(s) <= Len(t) /\ \A x \in 1 .. Len(s) : s[x] = t[x]
<1> SUFFICES ASSUME Len(s) <= Len(t)
             PROVE  SubSeq(s, 1, Len(s)) = SubSeq(t, 1, Len(s))
                        <=> \A x \in 1 .. Len(s) : s[x] = t[x]
  BY DEF IsPrefix
<1> DEFINE n == Len(s)
           v == SubSeq(s, 1, n)
           w == SubSeq(t, 1, n)
<1>1. /\ n \in Nat /\ n <= Len(t) /\ Len(t) \in Nat
      /\ \A x \in 1 .. n : s[x] \in T /\ t[x] \in T
  BY LenProperties
<1>2. v \in Seq(T) /\ Len(v) = n /\ \A x \in 1 .. n : v[x] = s[x]
  <2>1. /\ v \in Seq(T)
        /\ Len(v) = IF 1 <= n THEN n - 1 + 1 ELSE 0
        /\ \A x \in 1 .. n - 1 + 1 : v[x] = s[1 + x - 1]
    BY <1>1, SubSeqProperties
  <2> QED BY <1>1, <2>1
<1>3. w \in Seq(T) /\ Len(w) = n /\ \A x \in 1 .. n : w[x] = t[x]
  <2>1. /\ w \in Seq(T)
        /\ Len(w) = IF 1 <= n THEN n - 1 + 1 ELSE 0
        /\ \A x \in 1 .. n - 1 + 1 : w[x] = t[1 + x - 1]
    BY <1>1, SubSeqProperties
  <2> QED BY <1>1, <2>1
<1> HIDE DEF v, w
<1>4. (\A x \in 1 .. n : s[x] = t[x]) => v = w
  BY <1>2, <1>3, SeqEqual
<1>5. v = w => \A x \in 1 .. n : s[x] = t[x]
  BY <1>2, <1>3
<1> QED BY <1>4, <1>5 DEF v, w

\* A sequence is a prefix of itself and what follows.
LEMMA PrefixConcat ==
    ASSUME NEW T, NEW s \in Seq(T), NEW t \in Seq(T)
    PROVE  IsPrefix(s, s \o t)
<1>1. /\ s \o t \in Seq(T) /\ Len(s \o t) = Len(s) + Len(t)
      /\ \A x \in 1 .. Len(s) + Len(t) : (s \o t)[x] = IF x <= Len(s) THEN s[x] ELSE t[x - Len(s)]
  BY ConcatProperties
<1>2. Len(s) \in Nat /\ Len(t) \in Nat
  BY LenProperties
<1>3. Len(s) <= Len(s \o t) /\ \A x \in 1 .. Len(s) : s[x] = (s \o t)[x]
  BY <1>1, <1>2
<1> QED BY <1>1, <1>3, PrefixElements

\* A prefix stays one of a sequence that grows.
LEMMA PrefixGrows ==
    ASSUME NEW T, NEW s \in Seq(T), NEW t \in Seq(T), NEW e \in T, IsPrefix(s, t)
    PROVE  IsPrefix(s, Append(t, e))
<1>1. /\ Append(t, e) \in Seq(T) /\ Len(Append(t, e)) = Len(t) + 1
      /\ \A x \in 1 .. Len(t) : Append(t, e)[x] = t[x]
  BY AppendProperties
<1>2. Len(s) \in Nat /\ Len(t) \in Nat
  BY LenProperties
<1>3. Len(s) <= Len(t) /\ \A x \in 1 .. Len(s) : s[x] = t[x]
  BY PrefixElements
<1>4. Len(s) <= Len(Append(t, e)) /\ \A x \in 1 .. Len(s) : s[x] = Append(t, e)[x]
  BY <1>1, <1>2, <1>3
<1> QED BY <1>1, <1>4, PrefixElements

\* The numbers from 1, and one more.
LEMMA CountingNext ==
  /\ Counting(0) = <<>>
  /\ \A k \in Nat : Counting(k) \in Seq(Nat) /\ Counting(k + 1) = Append(Counting(k), k + 1)
<1>1. ASSUME NEW k \in Nat
        PROVE  Counting(k) \in Seq(Nat) /\ Len(Counting(k)) = k /\ \A n \in 1 .. k : Counting(k)[n] = n
  <2>1. Counting(k) \in [1 .. k -> Nat] /\ \A n \in 1 .. k : Counting(k)[n] = n
    BY DEF Counting
  <2>2. Counting(k) \in Seq(Nat)
    BY <2>1, IsASeq
  <2>3. Len(Counting(k)) \in Nat /\ DOMAIN Counting(k) = 1 .. Len(Counting(k))
    BY <2>2, LenProperties
  <2>4. DOMAIN Counting(k) = 1 .. k
    BY DEF Counting
  <2>5. Len(Counting(k)) = k
    BY <2>3, <2>4, SameEnd
  <2> QED BY <2>1, <2>2, <2>5
<1>2. ASSUME NEW k \in Nat PROVE Counting(k + 1) = Append(Counting(k), k + 1)
  <2> DEFINE s == Counting(k)
             t == Counting(k + 1)
  <2>1. s \in Seq(Nat) /\ Len(s) = k /\ \A n \in 1 .. k : s[n] = n
    BY <1>1
  <2>2. t \in Seq(Nat) /\ Len(t) = k + 1 /\ \A n \in 1 .. k + 1 : t[n] = n
    BY <1>1, k + 1 \in Nat, Zenon
  <2> HIDE DEF s, t
  <2>3. /\ Append(s, k + 1) \in Seq(Nat) /\ Len(Append(s, k + 1)) = k + 1
        /\ \A n \in 1 .. k : Append(s, k + 1)[n] = s[n]
        /\ Append(s, k + 1)[k + 1] = k + 1
    BY <2>1, AppendProperties
  <2>4. \A n \in 1 .. Len(t) : t[n] = Append(s, k + 1)[n]
    BY <2>1, <2>2, <2>3
  <2>5. t = Append(s, k + 1)
    BY <2>2, <2>3, <2>4, SeqEqual
  <2> QED BY <2>5 DEF s, t
<1>3. Counting(0) = <<>>
  BY <1>1, EmptySeq
<1> QED BY <1>1, <1>2, <1>3

\* What is left of them.
LEMMA SiftCounting ==
    ASSUME NEW k \in Nat, NEW S
    PROVE  /\ Sift(Counting(0), S) = <<>>
           /\ Sift(Counting(k), S) \in Seq(Nat)
           /\ Sift(Counting(k + 1), S) = IF k + 1 \in S THEN Append(Sift(Counting(k), S), k + 1)
                                                       ELSE Sift(Counting(k), S)
<1>1. Counting(k) \in Seq(Nat) /\ Counting(k + 1) = Append(Counting(k), k + 1)
  BY CountingNext, Zenon
<1>0. k + 1 \in Nat
  OBVIOUS
<1>2. Sift(Counting(k), S) \in Seq(Nat \intersect S)
  BY <1>1, SiftType
<1>3. Sift(Counting(k), S) \in Seq(Nat)
  BY <1>2
<1>4. Sift(Append(Counting(k), k + 1), S) = IF k + 1 \in S THEN Append(Sift(Counting(k), S), k + 1)
                                                     ELSE Sift(Counting(k), S)
  <2> DEFINE c == Counting(k)
             e == k + 1
  <2>1. c \in Seq(Nat) /\ e \in Nat
    BY <1>0, <1>1
  <2> HIDE DEF c, e
  <2>2. Sift(Append(c, e), S) = IF e \in S THEN Append(Sift(c, S), e) ELSE Sift(c, S)
    BY <2>1, SiftAppend
  <2> QED BY <2>2 DEF c, e
<1>5. Sift(Counting(0), S) = <<>>
  BY CountingNext, SiftEmpty
<1> QED BY <1>1, <1>3, <1>4, <1>5

-----------------------------------------------------------------------------
(* Sequences, element by element.                                           *)

\* A sequence from its elements.
LEMMA SequenceOf ==
    ASSUME NEW T, NEW n \in Nat, NEW s \in [1 .. n -> T]
    PROVE  s \in Seq(T) /\ Len(s) = n
<1>1. s \in Seq(T)
  BY IsASeq
<1>2. Len(s) \in Nat /\ DOMAIN s = 1 .. Len(s)
  BY <1>1, LenProperties
<1>3. 1 .. Len(s) = 1 .. n
  BY <1>2
<1> QED BY <1>1, <1>2, <1>3, SameEnd

\* w is s and then t, element by element.
Joint(w, s, t) ==
    /\ Len(s) \in Nat /\ Len(t) \in Nat
    /\ Len(w) = Len(s) + Len(t)
    /\ \A j \in 1 .. Len(s) : w[j] = s[j]
    /\ \A j \in 1 .. Len(t) : w[Len(s) + j] = t[j]

\* Two sequences, one after the other.
LEMMA ConcatOf ==
    ASSUME NEW T, NEW s \in Seq(T), NEW t \in Seq(T)
    PROVE  s \o t \in Seq(T) /\ Joint(s \o t, s, t)
<1> DEFINE w == s \o t
<1>1. /\ w \in Seq(T) /\ Len(w) = Len(s) + Len(t)
      /\ \A j \in 1 .. Len(s) + Len(t) : w[j] = IF j <= Len(s) THEN s[j] ELSE t[j - Len(s)]
  BY ConcatProperties
<1>2. Len(s) \in Nat /\ Len(t) \in Nat
  BY LenProperties
<1> HIDE DEF w
<1>3. ASSUME NEW j \in 1 .. Len(s) PROVE w[j] = s[j]
  <2>1. j \in 1 .. Len(s) + Len(t) /\ j <= Len(s)
    BY <1>2
  <2> QED BY <1>1, <2>1
<1>4. ASSUME NEW j \in 1 .. Len(t) PROVE w[Len(s) + j] = t[j]
  <2>1. Len(s) + j \in 1 .. Len(s) + Len(t) /\ ~ (Len(s) + j <= Len(s)) /\ (Len(s) + j) - Len(s) = j
    BY <1>2
  <2> QED BY <1>1, <2>1
<1> QED BY <1>1, <1>2, <1>3, <1>4 DEF w, Joint

=============================================================================
