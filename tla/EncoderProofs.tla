---------------------------- MODULE EncoderProofs ----------------------------
(***************************************************************************)
(* What the decoders make of an encoded batch, for every width of bytes    *)
(* and words, every precision and every batch.                             *)
(***************************************************************************)
EXTENDS Encoder, SiftingProofs

-----------------------------------------------------------------------------
(* The recursive functions of the coders are what their equations say.      *)

\* k is a function over 0 .. N that obeys, where it has values in V, the equations of
\* a recursion.
Obeys(k, N, V, v, G) ==
    /\ DOMAIN k = 0 .. N /\ k = [n \in DOMAIN k |-> k[n]]
    /\ k[0] = v
    /\ \A n \in 1 .. N : k[n - 1] \in V => k[n] = G[<<n, k[n - 1]>>]

\* It has values in V everywhere.
LEMMA Solution ==
    ASSUME NEW N \in Nat, NEW V, NEW v \in V, NEW G \in [(1 .. N) \X V -> V],
           NEW k, Obeys(k, N, V, v, G)
    PROVE  k \in [0 .. N -> V] /\ \A n \in 1 .. N : k[n - 1] \in V
<1> USE DEF Obeys
<1> DEFINE E == {n \in 0 .. N : k[n] \in V}
<1>1. 0 \in E
  OBVIOUS
<1>2. ASSUME NEW n \in 0 .. N - 1, n \in E PROVE n + 1 \in E
  <2>1. n + 1 \in 1 .. N /\ (n + 1) - 1 = n /\ n + 1 \in 0 .. N
    BY <1>2
  <2>2. <<n + 1, k[n]>> \in (1 .. N) \X V
    BY <1>2, <2>1
  <2> QED BY <2>1, <2>2
<1> HIDE DEF E
<1>3. 0 .. N \subseteq E
  BY <1>1, <1>2, UpToInduction
<1>4. \A n \in 0 .. N : k[n] \in V
  BY <1>3 DEF E
<1>5. \A n \in 1 .. N : n - 1 \in 0 .. N
  OBVIOUS
<1> QED BY <1>4, <1>5

\* Powers, one factor at a time.
LEMMA PowersRecursion ==
    ASSUME NEW x \in Nat, NEW n \in Nat
    PROVE  /\ Powers(x, n) \in [0 .. n -> Nat]
           /\ Powers(x, n)[0] = 1
           /\ \A k \in 1 .. n : Powers(x, n)[k - 1] \in Nat /\ Powers(x, n)[k] = x * Powers(x, n)[k - 1]
<1> DEFINE Step(t) == x * t
           G == [a \in (1 .. n) \X Nat |-> Step(a[2])]
           Body(f) == [k \in 0 .. n |-> IF k = 0 THEN 1 ELSE Step(f[k - 1])]
<1>1. \A t \in Nat : Step(t) \in Nat
  OBVIOUS
<1>2. Powers(x, n) = CHOOSE f : f = Body(f)
  BY DEF Powers
<1> HIDE DEF Step
<1>3. G \in [(1 .. n) \X Nat -> Nat] /\ \A k \in 1 .. n, t \in Nat : G[<<k, t>>] = Step(t)
  BY <1>1
<1> HIDE DEF G
<1>4. PICK f \in [0 .. n -> Nat] : f[0] = 1 /\ \A k \in 1 .. n : f[k] = G[<<k, f[k - 1]>>]
  <2>1. \E f \in [0 .. n -> Nat] : Solves(f, n, 1, G)
    BY <1>3, Recursion, 1 \in Nat, Zenon
  <2> QED BY <2>1 DEF Solves
<1>5. \A k \in 0 .. n : f[k] = Body(f)[k]
  <2>1. ASSUME NEW k \in 1 .. n PROVE f[k] = Step(f[k - 1])
    <3>1. f[k - 1] \in Nat
      OBVIOUS
    <3> QED BY <1>3, <1>4, <3>1
  <2> QED BY <1>4, <2>1
<1>6. f = Body(f)
  BY <1>5
<1> DEFINE p == Powers(x, n)
<1> HIDE DEF p
<1>7. p = Body(p)
  <2> HIDE DEF Body
  <2> QED BY <1>2, <1>6 DEF p
<1>8. DOMAIN p = 0 .. n /\ p = [k \in DOMAIN p |-> p[k]] /\ p[0] = 1
  BY <1>7
<1>9. \A k \in 1 .. n : p[k] = Step(p[k - 1])
  BY <1>7
<1>10. Obeys(p, n, Nat, 1, G)
  BY <1>3, <1>8, <1>9 DEF Obeys
<1>12. p \in [0 .. n -> Nat] /\ \A k \in 1 .. n : p[k - 1] \in Nat
  BY <1>3, <1>10, Solution, 1 \in Nat, Zenon
<1> QED BY <1>8, <1>9, <1>12 DEF p, Step

\* What is left after the divisions, one at a time.
LEMMA RestsRecursion ==
    ASSUME NEW u \in Nat, NEW radix \in Nat \ {0}, Word \in Nat
    PROVE  /\ Rests(u, radix) \in [0 .. Word -> Nat]
           /\ Rests(u, radix)[0] = u
           /\ \A k \in 1 .. Word : /\ Rests(u, radix)[k - 1] \in Nat
                                   /\ Rests(u, radix)[k] = Rests(u, radix)[k - 1] \div radix
<1> DEFINE Step(t) == t \div radix
           N == Word
           G == [a \in (1 .. N) \X Nat |-> Step(a[2])]
           Body(f) == [k \in 0 .. N |-> IF k = 0 THEN u ELSE Step(f[k - 1])]
<1>1. \A t \in Nat : Step(t) \in Nat
  OBVIOUS
<1>2. Rests(u, radix) = CHOOSE f : f = Body(f)
  BY DEF Rests
<1> HIDE DEF Step, N
<1>0. N \in Nat
  BY DEF N
<1>3. G \in [(1 .. N) \X Nat -> Nat] /\ \A k \in 1 .. N, t \in Nat : G[<<k, t>>] = Step(t)
  BY <1>1
<1> HIDE DEF G
<1>4. PICK f \in [0 .. N -> Nat] : f[0] = u /\ \A k \in 1 .. N : f[k] = G[<<k, f[k - 1]>>]
  <2>1. \E f \in [0 .. N -> Nat] : Solves(f, N, u, G)
    BY <1>0, <1>3, Recursion, Zenon
  <2> QED BY <2>1 DEF Solves
<1>5. \A k \in 0 .. N : f[k] = Body(f)[k]
  <2>1. ASSUME NEW k \in 1 .. N PROVE f[k] = Step(f[k - 1])
    <3>1. f[k - 1] \in Nat
      BY <1>0
    <3> QED BY <1>3, <1>4, <3>1
  <2> QED BY <1>0, <1>4, <2>1
<1>6. f = Body(f)
  BY <1>5
<1> DEFINE p == Rests(u, radix)
<1> HIDE DEF p
<1>7. p = Body(p)
  <2> HIDE DEF Body
  <2> QED BY <1>2, <1>6 DEF p
<1>8. DOMAIN p = 0 .. N /\ p = [k \in DOMAIN p |-> p[k]] /\ p[0] = u
  BY <1>0, <1>7
<1>9. \A k \in 1 .. N : p[k] = Step(p[k - 1])
  BY <1>0, <1>7
<1>10. Obeys(p, N, Nat, u, G)
  BY <1>0, <1>3, <1>8, <1>9 DEF Obeys
<1>12. p \in [0 .. N -> Nat] /\ \A k \in 1 .. N : p[k - 1] \in Nat
  BY <1>0, <1>3, <1>10, Solution, Zenon
<1> QED BY <1>8, <1>9, <1>12 DEF p, Step, N

\* A number from its last digits, one at a time.
LEMMA NumbersRecursion ==
    ASSUME NEW ds \in Seq(Nat), NEW radix \in Nat
    PROVE  /\ Numbers(ds, radix) \in [0 .. Len(ds) -> Nat]
           /\ Numbers(ds, radix)[0] = 0
           /\ \A j \in 1 .. Len(ds) :
                /\ Numbers(ds, radix)[j - 1] \in Nat
                /\ Numbers(ds, radix)[j] = ds[Len(ds) + 1 - j] + radix * Numbers(ds, radix)[j - 1]
<1> DEFINE N == Len(ds)
           Step(k, t) == ds[N + 1 - k] + radix * t
           G == [a \in (1 .. N) \X Nat |-> Step(a[1], a[2])]
           Body(f) == [k \in 0 .. N |-> IF k = 0 THEN 0 ELSE Step(k, f[k - 1])]
<1>0. N \in Nat /\ \A k \in 1 .. N : ds[k] \in Nat
  BY LenProperties
<1>1. \A k \in 1 .. N, t \in Nat : Step(k, t) \in Nat
  <2> SUFFICES ASSUME NEW k \in 1 .. N, NEW t \in Nat PROVE Step(k, t) \in Nat
    OBVIOUS
  <2>1. N + 1 - k \in 1 .. N /\ radix * t \in Nat
    BY <1>0
  <2> QED BY <1>0, <2>1
<1>2. Numbers(ds, radix) = CHOOSE f : f = Body(f)
  BY DEF Numbers
<1> HIDE DEF Step, N
<1>3. G \in [(1 .. N) \X Nat -> Nat] /\ \A k \in 1 .. N, t \in Nat : G[<<k, t>>] = Step(k, t)
  BY <1>1
<1> HIDE DEF G
<1>4. PICK f \in [0 .. N -> Nat] : f[0] = 0 /\ \A k \in 1 .. N : f[k] = G[<<k, f[k - 1]>>]
  <2>1. \E f \in [0 .. N -> Nat] : Solves(f, N, 0, G)
    BY <1>0, <1>3, Recursion, 0 \in Nat, Zenon
  <2> QED BY <2>1 DEF Solves
<1>5. \A k \in 0 .. N : f[k] = Body(f)[k]
  <2>1. ASSUME NEW k \in 1 .. N PROVE f[k] = Step(k, f[k - 1])
    <3>1. f[k - 1] \in Nat
      BY <1>0
    <3> QED BY <1>3, <1>4, <3>1
  <2> QED BY <1>0, <1>4, <2>1
<1>6. f = Body(f)
  BY <1>5
<1> DEFINE p == Numbers(ds, radix)
<1> HIDE DEF p
<1>7. p = Body(p)
  <2> HIDE DEF Body
  <2> QED BY <1>2, <1>6 DEF p
<1>8. DOMAIN p = 0 .. N /\ p = [k \in DOMAIN p |-> p[k]] /\ p[0] = 0
  BY <1>0, <1>7
<1>9. \A k \in 1 .. N : p[k] = Step(k, p[k - 1])
  BY <1>0, <1>7
<1>10. Obeys(p, N, Nat, 0, G)
  BY <1>0, <1>3, <1>8, <1>9 DEF Obeys
<1>12. p \in [0 .. N -> Nat] /\ \A k \in 1 .. N : p[k - 1] \in Nat
  BY <1>0, <1>3, <1>10, Solution, 0 \in Nat, Zenon
<1> QED BY <1>8, <1>9, <1>12 DEF p, Step, N

\* The buffer, one byte string at a time.
LEMMA JoinsRecursion ==
    ASSUME NEW T, NEW ss \in Seq(Seq(T))
    PROVE  /\ Joins(ss) \in [0 .. Len(ss) -> Seq(T)]
           /\ Joins(ss)[0] = <<>>
           /\ \A k \in 1 .. Len(ss) : Joins(ss)[k - 1] \in Seq(T) /\ Joins(ss)[k] = Joins(ss)[k - 1] \o ss[k]
<1> DEFINE N == Len(ss)
           V == Seq(T)
           Step(k, t) == t \o ss[k]
           G == [a \in (1 .. N) \X V |-> Step(a[1], a[2])]
           Body(f) == [k \in 0 .. N |-> IF k = 0 THEN <<>> ELSE Step(k, f[k - 1])]
<1>0. N \in Nat /\ \A k \in 1 .. N : ss[k] \in V
  BY LenProperties
<1>1. \A k \in 1 .. N, t \in V : Step(k, t) \in V
  BY <1>0, ConcatProperties
<1>2. Joins(ss) = CHOOSE f : f = Body(f)
  BY DEF Joins
<1>11. <<>> \in V
  OBVIOUS
<1> HIDE DEF Step, N, V
<1>3. G \in [(1 .. N) \X V -> V] /\ \A k \in 1 .. N, t \in V : G[<<k, t>>] = Step(k, t)
  BY <1>1
<1> HIDE DEF G
<1>4. PICK f \in [0 .. N -> V] : f[0] = <<>> /\ \A k \in 1 .. N : f[k] = G[<<k, f[k - 1]>>]
  <2>1. \E f \in [0 .. N -> V] : Solves(f, N, <<>>, G)
    BY <1>0, <1>3, <1>11, Recursion, Zenon
  <2> QED BY <2>1 DEF Solves
<1>5. \A k \in 0 .. N : f[k] = Body(f)[k]
  <2>1. ASSUME NEW k \in 1 .. N PROVE f[k] = Step(k, f[k - 1])
    <3>1. f[k - 1] \in V
      BY <1>0
    <3> QED BY <1>3, <1>4, <3>1
  <2> QED BY <1>0, <1>4, <2>1
<1>6. f = Body(f)
  BY <1>5
<1> DEFINE p == Joins(ss)
<1> HIDE DEF p
<1>7. p = Body(p)
  <2> HIDE DEF Body
  <2> QED BY <1>2, <1>6 DEF p
<1>8. DOMAIN p = 0 .. N /\ p = [k \in DOMAIN p |-> p[k]] /\ p[0] = <<>>
  BY <1>0, <1>7
<1>9. \A k \in 1 .. N : p[k] = Step(k, p[k - 1])
  BY <1>0, <1>7
<1>10. Obeys(p, N, V, <<>>, G)
  BY <1>0, <1>3, <1>8, <1>9 DEF Obeys
<1>12. p \in [0 .. N -> V] /\ \A k \in 1 .. N : p[k - 1] \in V
  BY <1>0, <1>3, <1>10, <1>11, Solution, Zenon
<1> QED BY <1>8, <1>9, <1>12 DEF p, Step, N, V

-----------------------------------------------------------------------------
(* Division, and the constants.                                             *)

\* The quotient and the rest.
LEMMA Division ==
    ASSUME NEW a \in Int, NEW m \in Nat \ {0}
    PROVE  a \div m \in Int /\ a % m \in 0 .. m - 1 /\ a % m = a - m * (a \div m)
<1>1. a \div m \in Int
  OBVIOUS
<1>2. a % m \in 0 .. m - 1
  OBVIOUS
<1>3. a % m = a - m * (a \div m)
  OBVIOUS
<1> QED BY <1>1, <1>2, <1>3

\* There is only one of each.
LEMMA Quotient ==
    ASSUME NEW a \in Int, NEW m \in Nat \ {0}, NEW q \in Int, NEW r \in 0 .. m - 1, a = m * q + r
    PROVE  a \div m = q /\ a % m = r
<1>1. a \div m = q
  OBVIOUS
<1>2. a % m = r
  OBVIOUS
<1> QED BY <1>1, <1>2

\* A multiple of the divisor leaves the rest.
LEMMA SameRest ==
    ASSUME NEW a \in Int, NEW k \in Int, NEW m \in Nat \ {0}
    PROVE  (a + m * k) % m = a % m
<1> DEFINE q == a \div m
           r == a % m
<1>1. q \in Int /\ r \in 0 .. m - 1 /\ r = a - m * q
  BY Division
<1> HIDE DEF q, r
<1>2. a + m * k = m * (q + k) + r
  <2>1. m * (q + k) = m * q + m * k
    BY <1>1
  <2>2. m * q \in Int /\ m * k \in Int
    BY <1>1
  <2> QED BY <1>1, <2>1, <2>2
<1>3. a + m * k \in Int /\ q + k \in Int
  BY <1>1
<1>4. (a + m * k) % m = r
  BY <1>1, <1>2, <1>3, Quotient, Zenon
<1> QED BY <1>4 DEF r

\* Powers of more than one grow.
LEMMA PowersGrow ==
    ASSUME NEW x \in Nat, x > 1, NEW n \in Nat
    PROVE  \A k \in 0 .. n : Powers(x, n)[k] >= k + 1
<1> DEFINE p == Powers(x, n)
           E == {k \in 0 .. n : p[k] >= k + 1}
<1>1. /\ p \in [0 .. n -> Nat] /\ p[0] = 1
      /\ \A k \in 1 .. n : p[k - 1] \in Nat /\ p[k] = x * p[k - 1]
  BY PowersRecursion
<1> HIDE DEF p
<1>2. 0 \in E
  BY <1>1
<1>3. ASSUME NEW k \in 0 .. n - 1, k \in E PROVE k + 1 \in E
  <2>1. k + 1 \in 1 .. n /\ (k + 1) - 1 = k /\ k + 1 \in 0 .. n
    BY <1>3
  <2>2. p[k] \in Nat /\ p[k + 1] = x * p[k] /\ p[k] >= k + 1
    BY <1>1, <1>3, <2>1
  <2> DEFINE b == p[k]
  <2>3. b \in Nat /\ b >= k + 1
    BY <2>2
  <2> HIDE DEF b
  <2>4. x * b >= 2 * b
    BY <2>3
  <2>5. p[k + 1] >= (k + 1) + 1
    BY <2>2, <2>3, <2>4 DEF b
  <2> QED BY <2>1, <2>5
<1> HIDE DEF E
<1>4. 0 .. n \subseteq E
  BY <1>2, <1>3, UpToInduction
<1> QED BY <1>4 DEF E, p

\* A power of at least one, as a product.
LEMMA PowerProduct ==
    ASSUME NEW x \in Nat, x > 1, NEW n \in Nat \ {0}
    PROVE  /\ Power(x, n) \in Nat
           /\ Power(x, n) > n
           /\ Powers(x, n)[n - 1] \in Nat \ {0} /\ Power(x, n) = x * Powers(x, n)[n - 1]
           /\ n > 1 => /\ Powers(x, n)[n - 2] \in Nat \ {0}
                       /\ Powers(x, n)[n - 1] = x * Powers(x, n)[n - 2]
<1> DEFINE p == Powers(x, n)
<1>1. /\ p \in [0 .. n -> Nat]
      /\ \A k \in 1 .. n : p[k - 1] \in Nat /\ p[k] = x * p[k - 1]
      /\ \A k \in 0 .. n : p[k] >= k + 1
  BY PowersRecursion, PowersGrow
<1> HIDE DEF p
<1>2. p[n] \in Nat /\ p[n] > n /\ p[n] = x * p[n - 1] /\ p[n - 1] \in Nat \ {0}
  BY <1>1
<1>3. ASSUME n > 1 PROVE p[n - 1] = x * p[n - 2] /\ p[n - 2] \in Nat \ {0}
  <2>1. n - 1 \in 1 .. n /\ (n - 1) - 1 = n - 2 /\ n - 2 \in 0 .. n
    BY <1>3
  <2> QED BY <1>1, <2>1
<1> QED BY <1>2, <1>3 DEF Power, p

\* What the lemmas below use of the constants.
LEMMA Widths ==
    /\ Byte \in Nat /\ High \in Nat /\ High > 1 /\ Byte = 2 * High
    /\ Word \in Nat /\ Word > WordBytes /\ Word \div 2 \in Nat \ {0} /\ Word = 2 * (Word \div 2)
    /\ Nibble \in Nat \ {0} /\ WordBytes \in Nat \ {0} /\ Fine \in Nat \ {0}
<1>1. Bits \in Nat /\ Bits > 1 /\ WordBytes \in Nat \ {0} /\ Fine \in Nat \ {0}
  BY EncoderAssumption
<1> DEFINE b == Powers(2, Bits)[Bits - 1]
           c == Powers(2, Bits)[Bits - 2]
           d == Powers(Byte, WordBytes)[WordBytes - 1]
<1>2. Byte \in Nat /\ Byte = 2 * b /\ b \in Nat \ {0} /\ b = 2 * c /\ c \in Nat \ {0}
  <2>1. Bits \in Nat \ {0} /\ 2 \in Nat /\ 2 > 1
    BY <1>1
  <2> QED BY <1>1, <2>1, PowerProduct, Zenon DEF Byte
<1> HIDE DEF b, c
<1>3. High = b
  <2>1. Byte \div 2 = b
    BY <1>2, Quotient
  <2> QED BY <2>1 DEF High
<1>4. High > 1 /\ Byte > 1
  BY <1>2, <1>3
<1>5. Word \in Nat /\ Word > WordBytes /\ Word = Byte * d /\ d \in Nat \ {0}
  BY <1>1, <1>2, <1>4, PowerProduct, Zenon DEF Word
<1> HIDE DEF d
<1>6. Word \div 2 = High * d /\ High * d \in Nat \ {0}
  <2>1. High \in Nat \ {0} /\ High * d \in Nat \ {0}
    BY <1>2, <1>3, <1>5
  <2>2. Byte * d = 2 * (High * d)
    BY <1>2, <1>3, <1>5
  <2> QED BY <1>5, <2>1, <2>2, Quotient
<1>7. Byte * d = 2 * (High * d)
  BY <1>2, <1>3, <1>5
<1>8. Nibble \in Nat \ {0}
  <2>1. Bits \div 2 \in Nat \ {0}
    BY <1>1
  <2>2. 2 \in Nat /\ 2 > 1
    OBVIOUS
  <2>3. Nibble \in Nat /\ Nibble > Bits \div 2
    BY <2>1, <2>2, PowerProduct DEF Nibble
  <2> QED BY <2>1, <2>3
<1> QED BY <1>1, <1>2, <1>3, <1>4, <1>5, <1>6, <1>7, <1>8

-----------------------------------------------------------------------------
(* Integers in a word.                                                      *)

\* What becomes of an integer in a word differs from it by a multiple of Word.
LEMMA WrapResult ==
    ASSUME NEW x \in Int
    PROVE  /\ Wrap(x) \in Int64 /\ Wrap(x) \in Int
           /\ x % Word \in 0 .. Word - 1
           /\ \E k \in Int : Wrap(x) = x + Word * k
<1>1. Word \in Nat \ {0} /\ Word \div 2 \in Nat \ {0} /\ Word = 2 * (Word \div 2)
  BY Widths
<1> DEFINE r == x % Word
           q == x \div Word
           h == Word \div 2
<1>2. q \in Int /\ r \in 0 .. Word - 1 /\ r = x - Word * q
  BY <1>1, Division
<1>3. h \in Nat \ {0} /\ Word = 2 * h
  BY <1>1
<1>4. Wrap(x) = IF r >= h THEN r - Word ELSE r
  BY DEF Wrap, Signed
<1> HIDE DEF r, q, h
<1>5. Wrap(x) \in - h .. h - 1
  BY <1>2, <1>3, <1>4
<1>6. r = x + Word * (- q) /\ r - Word = x + Word * (- q - 1)
  BY <1>1, <1>2
<1>7. - q \in Int /\ - q - 1 \in Int
  BY <1>2
<1>8. \E k \in Int : Wrap(x) = x + Word * k
  BY <1>4, <1>6, <1>7
<1> QED BY <1>2, <1>3, <1>5, <1>8 DEF Int64, h, r

\* Nothing becomes of one that fits.
LEMMA WrapSame ==
    ASSUME NEW x \in Int64
    PROVE  Wrap(x) = x /\ x \in Int
<1> DEFINE h == Word \div 2
<1>1. Word \in Nat \ {0} /\ h \in Nat \ {0} /\ Word = 2 * h
  BY Widths
<1>2. x \in - h .. h - 1
  BY DEF Int64
<1>3. Wrap(x) = IF x % Word >= h THEN (x % Word) - Word ELSE x % Word
  BY DEF Wrap, Signed
<1> HIDE DEF h
<1>4. CASE x >= 0
  <2>1. x = Word * 0 + x /\ x \in 0 .. Word - 1 /\ x \in Int /\ 0 \in Int
    BY <1>1, <1>2, <1>4
  <2>2. x % Word = x
    BY <1>1, <2>1, Quotient
  <2> QED BY <1>1, <1>2, <1>3, <2>2
<1>5. CASE ~ (x >= 0)
  <2>1. x = Word * (-1) + (x + Word) /\ x + Word \in 0 .. Word - 1 /\ x \in Int /\ -1 \in Int
    BY <1>1, <1>2, <1>5
  <2>2. x % Word = x + Word
    BY <1>1, <2>1, Quotient
  <2> QED BY <1>1, <1>2, <1>3, <1>5, <2>2
<1> QED BY <1>4, <1>5

\* Multiples of Word do not matter.
LEMMA WrapShift ==
    ASSUME NEW x \in Int, NEW k \in Int
    PROVE  Wrap(x + Word * k) = Wrap(x)
<1>1. Word \in Nat \ {0}
  BY Widths
<1>2. (x + Word * k) % Word = x % Word
  BY <1>1, SameRest
<1> QED BY <1>2 DEF Wrap

\* An addend may be wrapped before.
LEMMA WrapSum ==
    ASSUME NEW a \in Int, NEW d \in Int
    PROVE  Wrap(a + Wrap(d)) = Wrap(a + d)
<1>1. PICK k \in Int : Wrap(d) = d + Word * k
  BY WrapResult
<1>2. Word \in Nat
  BY Widths
<1>3. a + Wrap(d) = (a + d) + Word * k
  <2> DEFINE w == Word * k
  <2>1. w \in Int /\ Wrap(d) = d + w
    BY <1>1, <1>2
  <2> HIDE DEF w
  <2>2. a + (d + w) = (a + d) + w
    BY <2>1
  <2> QED BY <2>1, <2>2 DEF w
<1> QED BY <1>3, WrapShift

\* The bits of an integer make it again.
LEMMA WrapBits ==
    ASSUME NEW x \in Int
    PROVE  Wrap(x % Word) = Wrap(x)
<1>1. Word \in Nat \ {0}
  BY Widths
<1>2. (x % Word) % Word = x % Word
  <2>1. x % Word \in 0 .. Word - 1
    BY <1>1, Division
  <2>2. x % Word = Word * 0 + (x % Word) /\ x % Word \in Int /\ 0 \in Int
    BY <1>1, <2>1
  <2> QED BY <1>1, <2>1, <2>2, Quotient
<1> QED BY <1>2 DEF Wrap

\* The time of a point from the difference to the one before.
LEMMA WrapDifference ==
    ASSUME NEW a \in Int, NEW b \in Int64
    PROVE  Wrap(a + Wrap(b - a)) = b
<1>1. b \in Int /\ Wrap(b) = b
  BY WrapSame
<1>2. b - a \in Int /\ a + (b - a) = b
  BY <1>1
<1>3. Wrap(a + Wrap(b - a)) = Wrap(a + (b - a))
  BY <1>2, WrapSum
<1> QED BY <1>1, <1>2, <1>3

-----------------------------------------------------------------------------
(* Digits.                                                                  *)

\* The digits of u.
LEMMA DigitsType ==
    ASSUME NEW u \in Nat, NEW radix \in Nat \ {0}, NEW n \in 0 .. Word
    PROVE  /\ Digits(u, radix, n) \in Seq(Nat) /\ Len(Digits(u, radix, n)) = n
           /\ \A i \in 1 .. n : /\ Rests(u, radix)[i - 1] \in Nat
                                /\ Digits(u, radix, n)[i] = Rests(u, radix)[i - 1] % radix
<1>1. Word \in Nat
  BY Widths
<1> DEFINE rest == Rests(u, radix)
           ds == Digits(u, radix, n)
<1>2. rest \in [0 .. Word -> Nat]
  BY <1>1, RestsRecursion
<1>3. ds = [i \in 1 .. n |-> rest[i - 1] % radix]
  BY DEF Digits
<1> HIDE DEF rest, ds
<1>4. \A i \in 1 .. n : rest[i - 1] \in Nat
  BY <1>1, <1>2
<1>5. \A i \in 1 .. n : rest[i - 1] % radix \in Nat
  <2>1. ASSUME NEW a \in Nat PROVE a % radix \in Nat
    BY Division
  <2> QED BY <1>4, <2>1
<1>6. n \in Nat /\ ds \in [1 .. n -> Nat]
  BY <1>1, <1>3, <1>5
<1>7. ds \in Seq(Nat) /\ Len(ds) = n
  BY <1>6, SequenceOf
<1> QED BY <1>3, <1>4, <1>7 DEF rest, ds

\* They make u again when there are enough of them.
LEMMA DigitsNumber ==
    ASSUME NEW u \in Nat, NEW radix \in Nat \ {0}, NEW n \in 0 .. Word, Rests(u, radix)[n] = 0
    PROVE  Number(Digits(u, radix, n), radix) = u
<1> DEFINE rest == Rests(u, radix)
           ds == Digits(u, radix, n)
           val == Numbers(ds, radix)
           E == {j \in 0 .. n : val[j] = rest[n - j]}
<1>1. Word \in Nat /\ n \in Nat /\ n <= Word
  BY Widths
<1>2. /\ rest[0] = u
      /\ \A k \in 1 .. Word : rest[k - 1] \in Nat /\ rest[k] = rest[k - 1] \div radix
  <2>1. Word \in Nat
    BY <1>1
  <2>2. /\ rest \in [0 .. Word -> Nat] /\ rest[0] = u
        /\ \A k \in 1 .. Word : rest[k - 1] \in Nat /\ rest[k] = rest[k - 1] \div radix
    BY <2>1, RestsRecursion, ZenonT(40)
  <2> QED BY <2>2, Zenon
<1>3. ds \in Seq(Nat) /\ Len(ds) = n /\ \A i \in 1 .. n : ds[i] = rest[i - 1] % radix
  BY DigitsType
<1>4. val[0] = 0 /\ \A j \in 1 .. n : val[j] = ds[n + 1 - j] + radix * val[j - 1]
  <2>1. radix \in Nat
    OBVIOUS
  <2>2. /\ val \in [0 .. Len(ds) -> Nat] /\ val[0] = 0
        /\ \A j \in 1 .. Len(ds) :
              val[j - 1] \in Nat /\ val[j] = ds[Len(ds) + 1 - j] + radix * val[j - 1]
    <3>1. ds \in Seq(Nat)
      BY <1>3
    <3> HIDE DEF ds
    <3> QED BY <2>1, <3>1, NumbersRecursion, Zenon
  <2> QED BY <1>3, <2>2, Zenon
<1>5. rest[n] = 0
  OBVIOUS
<1>6. Number(ds, radix) = val[n]
  BY <1>3 DEF Number
<1> HIDE DEF rest, ds, val
<1>7. 0 \in E
  BY <1>1, <1>4, <1>5
<1>8. ASSUME NEW j \in 0 .. n - 1, j \in E PROVE j + 1 \in E
  <2> DEFINE a == rest[n - j - 1]
  <2>1. /\ j + 1 \in 1 .. n /\ (j + 1) - 1 = j /\ n + 1 - (j + 1) = n - j /\ j + 1 \in 0 .. n
        /\ n - j \in 1 .. n /\ n - j \in 1 .. Word /\ (n - j) - 1 = n - j - 1
        /\ n - (j + 1) = n - j - 1
    BY <1>1, <1>8
  <2>2. a \in Nat /\ rest[n - j] = a \div radix
    BY <1>2, <2>1
  <2>3. ds[n - j] = a % radix
    BY <1>3, <2>1
  <2>4. val[j + 1] = ds[n - j] + radix * val[j]
    BY <1>4, <2>1
  <2>5. val[j] = rest[n - j]
    BY <1>8
  <2> HIDE DEF a
  <2>6. a \div radix \in Int /\ a % radix = a - radix * (a \div radix)
    <3>1. a \in Int
      BY <2>2
    <3> QED BY <3>1, Division, Zenon
  <2>7. (a % radix) + radix * (a \div radix) = a
    <3> DEFINE q == radix * (a \div radix)
    <3>1. q \in Int /\ a % radix = a - q
      BY <2>6
    <3> HIDE DEF q
    <3>2. (a % radix) + q = a
      BY <2>2, <3>1
    <3> QED BY <3>2 DEF q
  <2>8. val[j + 1] = a
    BY <2>2, <2>3, <2>4, <2>5, <2>7
  <2> QED BY <2>1, <2>8 DEF a
<1> HIDE DEF E
<1>9. 0 .. n \subseteq E
  BY <1>1, <1>7, <1>8, UpToInduction
<1>10. val[n] = rest[n - n] /\ n - n = 0
  BY <1>1, <1>9 DEF E
<1> QED BY <1>2, <1>6, <1>10 DEF ds, rest

\* A number below the power of the radix has no more digits than that.
LEMMA RestsEnd ==
    ASSUME NEW radix \in Nat, radix > 1, NEW n \in 0 .. Word, NEW u \in Nat, u < Power(radix, n)
    PROVE  Rests(u, radix)[n] = 0
<1> DEFINE rest == Rests(u, radix)
           p == Powers(radix, n)
           E == {k \in 0 .. n : rest[k] < p[n - k]}
<1>1. Word \in Nat /\ n \in Nat /\ n <= Word /\ radix \in Nat \ {0}
  BY Widths
<1>2. /\ rest \in [0 .. Word -> Nat] /\ rest[0] = u
      /\ \A k \in 1 .. Word : rest[k - 1] \in Nat /\ rest[k] = rest[k - 1] \div radix
  BY <1>1, RestsRecursion
<1>3. /\ p[0] = 1
      /\ \A k \in 1 .. n : p[k - 1] \in Nat /\ p[k] = radix * p[k - 1]
  BY <1>1, PowersRecursion
<1>4. u < p[n]
  BY DEF Power
<1> HIDE DEF rest, p
<1>5. 0 \in E
  BY <1>1, <1>2, <1>4
<1>6. ASSUME NEW k \in 0 .. n - 1, k \in E PROVE k + 1 \in E
  <2> DEFINE a == rest[k]
             b == p[n - k - 1]
  <2>1. /\ k + 1 \in 1 .. Word /\ (k + 1) - 1 = k /\ k + 1 \in 0 .. n
        /\ n - k \in 1 .. n /\ (n - k) - 1 = n - k - 1 /\ n - (k + 1) = n - k - 1
    BY <1>1, <1>6
  <2>2. a \in Nat /\ rest[k + 1] = a \div radix
    BY <1>2, <2>1
  <2>3. b \in Nat /\ p[n - k] = radix * b
    BY <1>3, <2>1
  <2>4. a < radix * b
    BY <1>6, <2>3
  <2> HIDE DEF a, b
  <2>5. a \div radix < b
    BY <1>1, <2>2, <2>3, <2>4
  <2> QED BY <2>1, <2>2, <2>5 DEF b
<1> HIDE DEF E
<1>7. 0 .. n \subseteq E
  BY <1>1, <1>5, <1>6, UpToInduction
<1>8. rest[n] < p[n - n] /\ n - n = 0
  BY <1>1, <1>7 DEF E
<1>9. rest[n] \in Nat
  BY <1>1, <1>2
<1> QED BY <1>3, <1>8, <1>9 DEF rest

\* A word gives back the integer that was written to it.
LEMMA WordRead ==
    ASSUME NEW x \in Int
    PROVE  /\ FixedWord(x) \in Seq(Nat) /\ Len(FixedWord(x)) = WordBytes
           /\ ReadWord(FixedWord(x)) = Wrap(x)
<1>1. /\ Byte \in Nat \ {0} /\ Byte > 1 /\ Word \in Nat \ {0} /\ WordBytes \in 0 .. Word
  BY Widths
<1> DEFINE u == x % Word
<1>2. u \in Nat /\ u < Word
  BY <1>1, WrapResult
<1>3. Wrap(u) = Wrap(x)
  BY WrapBits
<1>4. FixedWord(x) = Digits(u, Byte, WordBytes)
  BY DEF FixedWord
<1> HIDE DEF u
<1>5. Rests(u, Byte)[WordBytes] = 0
  BY <1>1, <1>2, RestsEnd DEF Word
<1>6. Number(Digits(u, Byte, WordBytes), Byte) = u
  BY <1>1, <1>2, <1>5, DigitsNumber
<1>7. FixedWord(x) \in Seq(Nat) /\ Len(FixedWord(x)) = WordBytes
  BY <1>1, <1>2, <1>4, DigitsType
<1> QED BY <1>3, <1>4, <1>6, <1>7 DEF ReadWord

\* Whatever bytes make a number.
LEMMA NumberType ==
    ASSUME NEW ds \in Seq(Nat), NEW radix \in Nat
    PROVE  Number(ds, radix) \in Nat
<1>1. Len(ds) \in 0 .. Len(ds)
  BY LenProperties
<1> QED BY <1>1, NumbersRecursion DEF Number

\* And the bytes of a word an integer.
LEMMA WordType ==
    ASSUME NEW s \in Seq(Nat)
    PROVE  ReadWord(s) \in Int
<1>1. Byte \in Nat
  BY Widths
<1>2. Number(s, Byte) \in Int
  BY <1>1, NumberType
<1> QED BY <1>2, WrapResult DEF ReadWord

-----------------------------------------------------------------------------
(* Varints.                                                                 *)

\* The divisions leave ever less.
LEMMA RestsFall ==
    ASSUME NEW u \in 0 .. Word - 1
    PROVE  /\ \A k \in 0 .. Word : Rests(u, High)[k] \in Nat
           /\ \A k \in 0 .. Word : Rests(u, High)[k] <= Rests(Word - 1, High)[k]
           /\ Rests(u, High)[Word - 1] = 0
<1>1. Word \in Nat \ {0} /\ High \in Nat \ {0} /\ High > 1 /\ u \in Nat /\ Word - 1 \in Nat
  BY Widths
<1> DEFINE rest == Rests(u, High)
           most == Rests(Word - 1, High)
           E == {k \in 0 .. Word : rest[k] <= most[k] /\ (rest[k] + k <= u \/ rest[k] = 0)}
<1>2. /\ rest \in [0 .. Word -> Nat] /\ rest[0] = u
      /\ \A k \in 1 .. Word : rest[k - 1] \in Nat /\ rest[k] = rest[k - 1] \div High
  BY <1>1, RestsRecursion
<1>3. /\ most \in [0 .. Word -> Nat] /\ most[0] = Word - 1
      /\ \A k \in 1 .. Word : most[k - 1] \in Nat /\ most[k] = most[k - 1] \div High
  BY <1>1, RestsRecursion
<1> HIDE DEF rest, most
<1>4. 0 \in E
  BY <1>1, <1>2, <1>3
<1>5. ASSUME NEW k \in 0 .. Word - 1, k \in E PROVE k + 1 \in E
  <2> DEFINE a == rest[k]
             b == most[k]
  <2>1. k + 1 \in 1 .. Word /\ (k + 1) - 1 = k /\ k + 1 \in 0 .. Word
    BY <1>1, <1>5
  <2>2. a \in Nat /\ rest[k + 1] = a \div High
    BY <1>2, <2>1
  <2>3. b \in Nat /\ most[k + 1] = b \div High
    BY <1>3, <2>1
  <2>4. a <= b /\ (a + k <= u \/ a = 0)
    BY <1>5
  <2> HIDE DEF a, b
  <2>5. a \div High <= b \div High
    BY <1>1, <2>2, <2>3, <2>4
  <2>6. a \div High \in Nat /\ (a > 0 => a \div High < a) /\ (a = 0 => a \div High = 0)
    <3>1. ASSUME NEW m \in Nat, m > 1
          PROVE a \div m \in Nat /\ (a > 0 => a \div m < a) /\ (a = 0 => a \div m = 0)
      <4>1. a \div m \in Nat
        BY <2>2, <3>1
      <4>2. ASSUME a > 0 PROVE a \div m < a
        BY <2>2, <3>1, <4>2
      <4>3. ASSUME a = 0 PROVE a \div m = 0
        BY <3>1, <4>3
      <4> QED BY <4>1, <4>2, <4>3
    <3> QED BY <1>1, <3>1
  <2>7. (a \div High) + (k + 1) <= u \/ a \div High = 0
    BY <1>1, <2>2, <2>4, <2>6
  <2> QED BY <2>1, <2>2, <2>3, <2>5, <2>7
<1> HIDE DEF E
<1>6. 0 .. Word \subseteq E
  BY <1>1, <1>4, <1>5, UpToInduction
<1>7. \A k \in 0 .. Word : rest[k] <= most[k] /\ (rest[k] + k <= u \/ rest[k] = 0)
  BY <1>6 DEF E
<1>8. rest[Word - 1] = 0
  <2>1. Word - 1 \in 0 .. Word /\ u <= Word - 1
    BY <1>1
  <2>2. rest[Word - 1] \in Nat
    BY <1>2, <2>1
  <2> QED BY <1>1, <1>7, <2>1, <2>2
<1> QED BY <1>2, <1>7, <1>8 DEF rest, most

\* The groups end with the first rest that fits one.
LEMMA VarintLenFirst ==
    ASSUME NEW u \in 0 .. Word - 1
    PROVE  /\ VarintLen(u) \in 1 .. Word
           /\ Rests(u, High)[VarintLen(u) - 1] < High
           /\ \A m \in 1 .. VarintLen(u) - 1 : Rests(u, High)[m - 1] >= High
<1> DEFINE rest == Rests(u, High)
           Fits == {n \in 1 .. Word : rest[n - 1] < High}
           P(n) == rest[n - 1] < High /\ \A m \in 1 .. n - 1 : rest[m - 1] >= High
<1>1. Word \in Nat \ {0} /\ High \in Nat \ {0}
  BY Widths
<1>2. (\A k \in 0 .. Word : rest[k] \in Nat) /\ rest[Word - 1] = 0
  BY RestsFall
<1>3. VarintLen(u) = CHOOSE n \in 1 .. Word : P(n)
  BY DEF VarintLen
<1> HIDE DEF rest
<1>4. Fits \in SUBSET Nat /\ Word \in Fits
  BY <1>1, <1>2
<1>5. PICK n \in Fits : \A m \in Fits : n <= m
  <2> HIDE DEF Fits
  <2> QED BY <1>4, Least
<1>6. n \in 1 .. Word /\ rest[n - 1] < High
  OBVIOUS
<1>7. ASSUME NEW m \in 1 .. n - 1 PROVE rest[m - 1] >= High
  <2>1. m \in 1 .. Word /\ m < n
    BY <1>1, <1>6, <1>7
  <2>2. m \notin Fits
    BY <1>1, <1>5, <1>6, <2>1
  <2>3. ~ (rest[m - 1] < High)
    BY <2>1, <2>2
  <2>4. rest[m - 1] \in Nat
    BY <1>1, <1>2, <2>1
  <2> QED BY <1>1, <2>3, <2>4
<1>8. \E k \in 1 .. Word : P(k)
  BY <1>6, <1>7
<1> HIDE DEF P
<1>9. VarintLen(u) \in 1 .. Word /\ P(VarintLen(u))
  BY <1>3, <1>8
<1> QED BY <1>9 DEF P, rest

\* There are no more groups than the longest varint has.
LEMMA VarintLenBound ==
    ASSUME NEW u \in 0 .. Word - 1
    PROVE  MaxVarint \in Nat \ {0} /\ VarintLen(u) \in 1 .. MaxVarint
<1>1. Word \in Nat \ {0} /\ High \in Nat \ {0} /\ Word - 1 \in 0 .. Word - 1
  BY Widths
<1> DEFINE M == MaxVarint
           n == VarintLen(u)
           rest == Rests(u, High)
           most == Rests(Word - 1, High)
<1>2. M \in 1 .. Word /\ most[M - 1] < High
  BY <1>1, VarintLenFirst DEF MaxVarint
<1>3. n \in 1 .. Word /\ \A m \in 1 .. n - 1 : rest[m - 1] >= High
  BY VarintLenFirst
<1>4. \A k \in 0 .. Word : rest[k] \in Nat /\ most[k] \in Nat /\ rest[k] <= most[k]
  BY <1>1, RestsFall
<1> HIDE DEF M, n, rest, most
<1>5. ASSUME n > M PROVE FALSE
  <2>1. M \in 1 .. n - 1 /\ M - 1 \in 0 .. Word
    BY <1>1, <1>2, <1>3, <1>5
  <2>2. rest[M - 1] >= High /\ rest[M - 1] <= most[M - 1] /\ rest[M - 1] \in Nat /\ most[M - 1] \in Nat
    BY <1>3, <1>4, <2>1
  <2> QED BY <1>1, <1>2, <2>2
<1>6. n <= M
  BY <1>2, <1>3, <1>5
<1> QED BY <1>1, <1>2, <1>3, <1>6 DEF M, n

\* The least of a set of numbers that has one.
LEMMA MinIs ==
    ASSUME NEW S \in SUBSET Nat, NEW n \in S, \A m \in S : n <= m
    PROVE  Min(S) = n
<1>1. \A k \in S : (\A m \in S : k <= m) => k = n
  <2>1. ASSUME NEW k \in S, \A m \in S : k <= m PROVE k = n
    <3>1. k <= n /\ n <= k /\ k \in Nat /\ n \in Nat
      BY <2>1
    <3> QED BY <3>1
  <2> QED BY <2>1
<1>2. Min(S) = CHOOSE x \in S : \A y \in S : x <= y
  BY DEF Min
<1> QED BY <1>1, <1>2

\* Decoding a varint gives what it was made of.
LEMMA VarintRead ==
    ASSUME NEW x \in Int
    PROVE  /\ encodeVarint(x) \in Seq(Nat)
           /\ Len(encodeVarint(x)) \in 1 .. MaxVarint
           /\ decodeVarint(encodeVarint(x)) = Wrap(x)
<1> DEFINE u == x % Word
           n == VarintLen(u)
           ds == Digits(u, High, n)
           s == encodeVarint(x)
           rest == Rests(u, High)
<1>1. /\ Word \in Nat \ {0} /\ High \in Nat \ {0} /\ High > 1
  BY Widths
<1>2. u \in 0 .. Word - 1 /\ u \in Nat
  BY <1>1, WrapResult
<1>3. Wrap(u) = Wrap(x)
  BY WrapBits
<1>4. s = [i \in 1 .. n |-> ds[i] + (IF i < n THEN High ELSE 0)]
  BY DEF encodeVarint
<1> HIDE DEF u, s
<1>5. MaxVarint \in Nat \ {0} /\ n \in 1 .. MaxVarint
  BY <1>2, VarintLenBound
<1>6. n \in 1 .. Word /\ rest[n - 1] < High
  BY <1>2, VarintLenFirst
<1> HIDE DEF n
<1>7. /\ ds \in Seq(Nat) /\ Len(ds) = n
      /\ \A i \in 1 .. n : rest[i - 1] \in Nat /\ ds[i] = rest[i - 1] % High
  <2>1. n \in 0 .. Word
    BY <1>1, <1>6
  <2> QED BY <1>1, <1>2, <2>1, DigitsType, Zenon
<1>8. \A i \in 1 .. n : ds[i] \in 0 .. High - 1
  <2>1. ASSUME NEW a \in Nat PROVE a % High \in 0 .. High - 1
    <3>1. a \in Int
      OBVIOUS
    <3> QED BY <1>1, <3>1, Division
  <2> QED BY <1>7, <2>1
<1>9. rest[n] = 0
  <2>1. rest[n - 1] \in Nat /\ rest[n] = rest[n - 1] \div High
    BY <1>1, <1>2, <1>6, RestsRecursion
  <2>2. rest[n - 1] \in 0 .. High - 1 /\ rest[n - 1] = High * 0 + rest[n - 1] /\ 0 \in Int
    BY <1>1, <1>6, <2>1
  <2>3. rest[n - 1] \div High = 0
    <3>1. rest[n - 1] \in Int
      BY <2>1
    <3> QED BY <1>1, <2>2, <3>1, Quotient, Zenon
  <2> QED BY <2>1, <2>3
<1>10. Number(ds, High) = u
  BY <1>1, <1>2, <1>6, <1>9, DigitsNumber
<1> HIDE DEF ds, rest
<1>11. \A i \in 1 .. n : s[i] = (IF i < n THEN ds[i] + High ELSE ds[i])
  BY <1>4, <1>8
<1>12. s \in Seq(Nat) /\ Len(s) = n /\ DOMAIN s = 1 .. n
  <2>1. s \in [1 .. n -> Nat]
    BY <1>1, <1>4, <1>8
  <2>2. n \in Nat
    BY <1>6
  <2> QED BY <2>1, <2>2, SequenceOf
<1> DEFINE stops == {i \in DOMAIN s : s[i] < High \/ i = MaxVarint}
           m == IF stops = {} THEN Len(s) ELSE Min(stops)
           Group(i) == IF i = MaxVarint THEN s[i] ELSE s[i] % High
<1>13. n \in stops /\ \A i \in stops : n <= i
  <2>1. n \in DOMAIN s /\ s[n] < High
    <3>1. n \in 1 .. n /\ n \in DOMAIN s
      BY <1>6, <1>12
    <3>2. s[n] = ds[n]
      BY <1>6, <1>11, <3>1
    <3>3. ds[n] \in 0 .. High - 1
      BY <1>8, <3>1
    <3> QED BY <1>1, <3>1, <3>2, <3>3
  <2>2. ASSUME NEW i \in 1 .. n - 1 PROVE ~ (s[i] < High) /\ i # MaxVarint
    <3>1. i \in 1 .. n /\ i < n /\ s[i] = ds[i] + High /\ ds[i] \in 0 .. High - 1
      BY <1>6, <1>8, <1>11, <2>2
    <3> QED BY <1>1, <1>5, <3>1
  <2> QED BY <1>6, <1>12, <2>1, <2>2
<1>14. m = n
  <2>1. stops \in SUBSET Nat
    BY <1>12
  <2> HIDE DEF stops
  <2>2. Min(stops) = n
    BY <1>13, <2>1, MinIs
  <2> QED BY <1>13, <2>2
<1>15. \A i \in 1 .. n : Group(i) = ds[i]
  <2> SUFFICES ASSUME NEW i \in 1 .. n PROVE Group(i) = ds[i]
    OBVIOUS
  <2>1. ds[i] \in 0 .. High - 1 /\ ds[i] \in Int
    BY <1>8
  <2>2. CASE i < n
    <3>1. s[i] = High * 1 + ds[i] /\ s[i] \in Int /\ 1 \in Int
      BY <1>1, <1>11, <2>1, <2>2
    <3>2. s[i] % High = ds[i]
      BY <1>1, <2>1, <3>1, Quotient
    <3>3. i # MaxVarint
      BY <1>5, <2>2
    <3> QED BY <3>2, <3>3
  <2>3. CASE ~ (i < n)
    <3>1. s[i] = ds[i] /\ ds[i] = High * 0 + ds[i] /\ 0 \in Int
      BY <1>1, <1>11, <2>1, <2>3
    <3>2. ds[i] % High = ds[i]
      BY <1>1, <2>1, <3>1, Quotient
    <3> QED BY <3>1, <3>2
  <2> QED BY <2>2, <2>3
<1>16. [i \in 1 .. m |-> Group(i)] = ds
  <2>1. ds = [i \in 1 .. n |-> ds[i]]
    <3>1. ds = [i \in 1 .. Len(ds) |-> ds[i]]
      BY <1>7, LenProperties
    <3> QED BY <1>7, <3>1
  <2> HIDE DEF Group, m
  <2> QED BY <1>14, <1>15, <2>1
<1>17. decodeVarint(s) = Wrap(Number([i \in 1 .. m |-> Group(i)], High))
  BY DEF decodeVarint
<1>18. decodeVarint(s) = Wrap(x)
  <2> HIDE DEF m, Group
  <2> QED BY <1>3, <1>10, <1>16, <1>17
<1> QED BY <1>5, <1>12, <1>18 DEF s

\* Whatever bytes a varint is read from, it is an integer.
LEMMA VarintType ==
    ASSUME NEW s \in Seq(Nat)
    PROVE  decodeVarint(s) \in Int
<1> DEFINE stops == {i \in DOMAIN s : s[i] < High \/ i = MaxVarint}
           n == IF stops = {} THEN Len(s) ELSE Min(stops)
           Group(i) == IF i = MaxVarint THEN s[i] ELSE s[i] % High
           ds == [i \in 1 .. n |-> Group(i)]
<1>1. High \in Nat \ {0}
  BY Widths
<1>2. Len(s) \in Nat /\ DOMAIN s = 1 .. Len(s) /\ \A i \in 1 .. Len(s) : s[i] \in Nat
  BY LenProperties
<1>3. decodeVarint(s) = Wrap(Number(ds, High))
  BY DEF decodeVarint
<1>4. \A i \in 1 .. Len(s) : Group(i) \in Nat
  <2>1. ASSUME NEW a \in Nat PROVE a % High \in Nat
    BY <1>1, Division
  <2> QED BY <1>2, <2>1
<1>5. n \in 0 .. Len(s)
  <2>1. ASSUME stops # {} PROVE Min(stops) \in stops
    <3>1. stops \in SUBSET Nat
      BY <1>2
    <3> HIDE DEF stops
    <3>2. PICK k \in stops : \A m \in stops : k <= m
      BY <2>1, <3>1, Least
    <3> QED BY <3>1, <3>2, MinIs
  <2>2. stops \subseteq 1 .. Len(s)
    BY <1>2
  <2> HIDE DEF stops
  <2>3. CASE stops = {}
    <3>1. n = Len(s)
      BY <2>3
    <3> HIDE DEF n
    <3> QED BY <1>2, <3>1
  <2>4. CASE stops # {}
    <3>1. n = Min(stops)
      BY <2>4
    <3>2. n \in 1 .. Len(s)
      BY <2>1, <2>2, <2>4, <3>1
    <3> HIDE DEF n
    <3> QED BY <1>2, <3>2
  <2> QED BY <2>3, <2>4
<1> HIDE DEF n, Group
<1>6. ds \in [1 .. n -> Nat] /\ n \in Nat
  BY <1>2, <1>4, <1>5
<1> HIDE DEF ds
<1>7. ds \in Seq(Nat)
  BY <1>6, SequenceOf
<1>8. Number(ds, High) \in Int
  BY <1>1, <1>7, NumberType
<1> QED BY <1>3, <1>8, WrapResult

-----------------------------------------------------------------------------
(* Rounding.                                                                *)

\* The constants of the values.
LEMMA Scales ==
    /\ Scale \in Nat \ {0} /\ Fine \in Nat \ {0} /\ Scale * Fine \in Nat \ {0}
    /\ Mantissa \in Nat /\ MaxExponent \in Nat /\ MaxBatch \in Nat
    /\ Top \in Nat /\ Reach \in Nat /\ Slack \in Nat
    /\ Loss \in Nat /\ Loss = Fine + 5 * Slack
<1>1. Scale \in Nat \ {0} /\ Fine \in Nat \ {0}
  BY EncoderAssumption
<1>2. Scale * Fine \in Nat \ {0}
  BY <1>1
<1>3. /\ Mantissa \in Nat /\ MaxExponent \in Nat
      /\ Top \in Nat /\ Reach \in Nat /\ Slack \in Nat
  BY FloatAssumption
<1>4. Loss \in Nat /\ Loss = Fine + 5 * Slack
  BY <1>1, <1>3 DEF Loss
<1>5. MaxBatch \in Nat
  BY EncoderAssumption
<1> QED BY <1>1, <1>2, <1>3, <1>4, <1>5

\* Every number has a float64 near it.
LEMMA FloatType ==
    ASSUME NEW x \in Int
    PROVE  Float(x) \in Int
<1> DEFINE p == Powers(2, MaxExponent)
           wide == {e \in 0 .. MaxExponent : Distance(x, 0) <= Mantissa * Scale * p[e]}
           low == Min(wide \union {MaxExponent})
           g == Grain(x)
<1>1. Scale \in Nat \ {0} /\ MaxExponent \in Nat
  BY Scales
<1>2. p \in [0 .. MaxExponent -> Nat] /\ \A k \in 0 .. MaxExponent : p[k] >= k + 1
  <2>1. 2 \in Nat /\ 2 > 1
    OBVIOUS
  <2> QED BY <1>1, <2>1, PowersRecursion, PowersGrow
<1>3. g = Scale * p[low]
  BY DEF Grain
<1>4. low \in 0 .. MaxExponent
  <2> DEFINE W == wide \union {MaxExponent}
  <2>1. W \in SUBSET Nat /\ W # {}
    BY <1>1
  <2>2. W \subseteq 0 .. MaxExponent
    BY <1>1
  <2> HIDE DEF W
  <2>3. PICK n \in W : \A m \in W : n <= m
    BY <2>1, Least
  <2>4. Min(W) = n
    BY <2>1, <2>3, MinIs
  <2> QED BY <2>2, <2>3, <2>4 DEF W
<1> HIDE DEF p, low, g
<1>5. g \in Nat \ {0}
  <2>1. p[low] \in Nat \ {0}
    BY <1>2, <1>4
  <2> DEFINE w == p[low]
  <2> HIDE DEF w
  <2>2. Scale * w \in Nat \ {0}
    BY <1>1, <2>1 DEF w
  <2> QED BY <1>3, <2>2 DEF w
<1>6. Nearest(x, g) \in Int
  <2> DEFINE m == x \div g
             n == IF 2 * (x % g) < g \/ (2 * (x % g) = g /\ m % 2 = 0) THEN m ELSE m + 1
  <2>1. m \in Int
    BY <1>5, Division
  <2> HIDE DEF m
  <2>2. n \in Int
    BY <2>1
  <2>3. Nearest(x, g) = g * n
    BY DEF Nearest, m
  <2> HIDE DEF n
  <2> QED BY <1>5, <2>2, <2>3
<1> QED BY <1>6 DEF Float, g

\* A rounding within reach.
LEMMA FloatNear ==
    ASSUME NEW x \in Int, - Reach <= x, x <= Reach
    PROVE  /\ Float(x) - x \in - Slack .. Slack
           /\ Float(Scale * x) - Scale * x \in - (Scale * Slack) .. Scale * Slack
<1>1. x \in - Reach .. Reach
  BY Scales
<1>2. Distance(Float(x), x) <= Slack /\ Distance(Float(Scale * x), Scale * x) <= Scale * Slack
  BY <1>1, FloatAssumption
<1> DEFINE y == Scale * x
           t == Scale * Slack
<1>3. y \in Int /\ t \in Int
  BY Scales
<1> HIDE DEF y
<1>4. Float(x) \in Int /\ Float(y) \in Int
  BY <1>3, FloatType
<1> DEFINE a == Float(x)
           b == Float(y)
<1>5. a - x \in - Slack .. Slack
  <2> HIDE DEF a
  <2> QED BY <1>2, <1>4, Scales DEF Distance, a
<1>6. b - y \in - t .. t
  <2>1. Distance(b, y) <= t /\ b \in Int
    BY <1>2, <1>4 DEF y
  <2> HIDE DEF b, t
  <2> QED BY <1>3, <2>1 DEF Distance
<1> QED BY <1>5, <1>6 DEF y

\* Cancelling a factor.
LEMMA Cancel ==
    ASSUME NEW n \in Nat \ {0}, NEW x \in Int, NEW y \in Int, n * x < n * y + n
    PROVE  x <= y
<1> SUFFICES ASSUME ~ (x <= y) PROVE FALSE
  OBVIOUS
<1> DEFINE k == x - y - 1
<1>1. k \in Nat /\ x = y + 1 + k
  OBVIOUS
<1> HIDE DEF k
<1>2. n * x = n * y + n + n * k /\ n * k \in Nat /\ n * y \in Int
  BY <1>1
<1> DEFINE a == n * x
           b == n * y
           c == n * k
<1>3. a = b + n + c /\ c \in Nat /\ b \in Int /\ a < b + n
  BY <1>2
<1> HIDE DEF a, b, c
<1> QED BY <1>3

\* Dropping the rest of a division of either sign.
LEMMA Truncated ==
    ASSUME NEW e \in Int, NEW u \in Nat \ {0}
    PROVE  LET n == IF e >= 0 THEN e \div u ELSE - ((- e) \div u)
           IN  /\ n \in Int /\ u * n - e \in - (u - 1) .. u - 1
               /\ e >= 0 => 0 <= u * n /\ u * n <= e
               /\ e < 0 => e <= u * n /\ u * n <= 0
<1>1. CASE e >= 0
  <2> DEFINE n == e \div u
             r == e % u
  <2>1. n \in Int /\ r \in 0 .. u - 1 /\ r = e - u * n
    BY Division
  <2>2. n \in Nat
    BY <1>1
  <2> HIDE DEF n, r
  <2>3. u * n \in Nat
    BY <2>2
  <2> DEFINE w == u * n
  <2>4. w \in Nat /\ r = e - w
    BY <2>1, <2>3
  <2> HIDE DEF w
  <2>5. w - e \in - (u - 1) .. u - 1 /\ 0 <= w /\ w <= e
    BY <2>1, <2>4
  <2> QED BY <1>1, <2>1, <2>5 DEF n, w
<1>2. CASE e < 0
  <2> DEFINE f == - e
  <2>1. f \in Nat /\ e = - f
    BY <1>2
  <2> HIDE DEF f
  <2> DEFINE n == f \div u
             r == f % u
  <2>2. n \in Int /\ r \in 0 .. u - 1 /\ r = f - u * n
    BY <2>1, Division
  <2>n. n \in Nat
    BY <2>1
  <2> HIDE DEF n, r
  <2>3. u * n \in Nat /\ u * (- n) = - (u * n)
    BY <2>n
  <2> DEFINE w == u * n
  <2>4. w \in Nat /\ r = f - w /\ u * (- n) = - w
    BY <2>2, <2>3
  <2> HIDE DEF w
  <2>5. (- w) - e \in - (u - 1) .. u - 1 /\ e <= - w /\ - w <= 0 /\ - n \in Int
    BY <2>1, <2>2, <2>4
  <2> QED BY <1>2, <2>4, <2>5 DEF n, f
<1> QED BY <1>1, <1>2

\* The thousandths of a difference, and what they are decoded to, are numbers.
LEMMA ThousandthsType ==
    ASSUME NEW d \in Int
    PROVE  Thousandths(d) \in Int /\ FromThousandths(d) \in Int
<1>1. Scale * d \in Int /\ Scale * (Fine * d) \in Int
  BY Scales
<1>2. Float(Scale * d) \in Int /\ Float(Scale * (Fine * d)) \in Int
  BY <1>1, FloatType
<1>3. Thousandths(d) \in Int
  <2> DEFINE e == Float(Scale * d)
             u == Scale * Fine
  <2>1. e \in Int /\ u \in Nat \ {0}
    BY <1>2, Scales
  <2>2. Thousandths(d) = IF e >= 0 THEN e \div u ELSE - ((- e) \div u)
    BY DEF Thousandths
  <2> HIDE DEF e, u
  <2> QED BY <2>1, <2>2, Truncated
<1>4. FromThousandths(d) \in Int
  <2> DEFINE f == Float(Scale * (Fine * d))
  <2>1. f \div Scale \in Int
    <3> HIDE DEF f
    <3> QED BY <1>2, Scales, Division DEF f
  <2>2. FromThousandths(d) = Float(f \div Scale)
    BY DEF FromThousandths
  <2> HIDE DEF f
  <2> QED BY <2>1, <2>2, FloatType
<1> QED BY <1>3, <1>4

\* What comes back of a difference: less than a thousandth is dropped, and each of four
\* operations rounds.
LEMMA DifferenceRead ==
    ASSUME NEW x \in Int, - (2 * Top) <= x, x <= 2 * Top, MaxBatch >= 1
    PROVE  LET y == FromThousandths(Thousandths(Float(x)))
           IN  y \in Int /\ y - x \in - (Fine + 4 * Slack) .. Fine + 4 * Slack
<1>1. 2 * Top + 2 * Loss <= Reach
  <2>1. 2 * Top + (MaxBatch + 1) * Loss <= Reach
    BY FloatAssumption
  <2>2. (MaxBatch + 1) * Loss = 2 * Loss + (MaxBatch - 1) * Loss /\ (MaxBatch - 1) * Loss \in Nat
    BY Scales
  <2> QED BY <2>1, <2>2, Scales
<1> DEFINE d == Float(x)
           sd == Scale * d
           sx == Scale * x
           e == Float(sd)
           u == Scale * Fine
           n == Thousandths(d)
           m == Fine * n
           sm == Scale * m
           f == Float(sm)
           h == f \div Scale
           sh == Scale * h
           y == Float(h)
           t == Scale * Slack
<1>2. d \in Int /\ d - x \in - Slack .. Slack
  <2>1. - Reach <= x /\ x <= Reach
    BY <1>1, Scales
  <2> QED BY <2>1, FloatNear, FloatType
<1>3. e \in Int /\ e - sd \in - t .. t
  <2> HIDE DEF d
  <2>1. - Reach <= d /\ d <= Reach
    BY <1>1, <1>2, Scales
  <2>2. sd \in Int
    BY <1>2, Scales
  <2> QED BY <1>2, <2>1, <2>2, FloatNear, FloatType
<1>4. t \in Nat /\ u \in Nat \ {0} /\ sd \in Int /\ sx \in Int
  <2> HIDE DEF d
  <2> QED BY <1>2, Scales
<1>5. sd - sx \in - t .. t
  <2> HIDE DEF d
  <2> DEFINE k == d - x
  <2>1. k \in - Slack .. Slack /\ d = x + k
    BY <1>2
  <2> HIDE DEF k
  <2>2. sd = sx + Scale * k
    BY <2>1, Scales
  <2>3. Scale * k <= t /\ - t <= Scale * k /\ Scale * k \in Int
    <3>1. Scale * (Slack - k) \in Nat /\ Scale * (Slack + k) \in Nat
      <4>1. Slack - k \in Nat /\ Slack + k \in Nat
        BY <2>1, Scales
      <4> QED BY <4>1, Scales
    <3>2. Scale * (Slack - k) = t - Scale * k /\ Scale * (Slack + k) = t + Scale * k
      BY <2>1, Scales
    <3>3. Scale * k \in Int
      BY <2>1, Scales
    <3> DEFINE z == Scale * k
    <3>4. t - z \in Nat /\ t + z \in Nat /\ z \in Int
      BY <3>1, <3>2, <3>3
    <3> HIDE DEF z, t
    <3>5. z <= t /\ - t <= z
      BY <1>4, <3>4
    <3> QED BY <3>3, <3>5 DEF z
  <2> DEFINE z == Scale * k
  <2>4. z \in Int /\ z <= t /\ - t <= z /\ sd = sx + z
    BY <2>2, <2>3
  <2> HIDE DEF z, sd, sx, t
  <2> QED BY <1>4, <2>4
<1>6. /\ n \in Int /\ u * n - e \in - (u - 1) .. u - 1
      /\ e >= 0 => 0 <= u * n /\ u * n <= e
      /\ e < 0 => e <= u * n /\ u * n <= 0
  <2>1. n = IF e >= 0 THEN e \div u ELSE - ((- e) \div u)
    BY DEF Thousandths
  <2> HIDE DEF e, u, n
  <2> QED BY <1>3, <1>4, <2>1, Truncated
<1> HIDE DEF d, e, n
<1>7. u * n = sm /\ m \in Int /\ sm \in Int
  BY <1>6, Scales
<1>8. - Reach <= m /\ m <= Reach
  <2> DEFINE s == Slack
  <2>1. d <= Reach - Slack /\ - Reach + Slack <= d
    BY <1>1, <1>2, Scales
  <2>2. sm <= Scale * Reach /\ - (Scale * Reach) <= sm
    <3> DEFINE w == Scale * (Reach - Slack)
               v == Scale * Reach
    <3>1. w = v - t /\ w \in Int /\ v \in Int /\ v - t \in Nat
      <4>1. Reach - Slack \in Nat
        BY <1>1, Scales
      <4>2. w \in Nat
        BY <4>1, Scales
      <4>3. w = v - t /\ v \in Int
        BY Scales
      <4> QED BY <4>2, <4>3
    <3>2. sd <= w /\ - w <= sd
      <4>1. Scale * (Reach - Slack - d) \in Nat /\ Scale * (Reach - Slack + d) \in Nat
        <5>1. Reach - Slack - d \in Nat /\ Reach - Slack + d \in Nat
          BY <1>2, <2>1, Scales
        <5> QED BY <5>1, Scales
      <4>2. Scale * (Reach - Slack - d) = w - sd /\ Scale * (Reach - Slack + d) = w + sd
        BY <1>2, Scales
      <4>3. w - sd \in Nat /\ w + sd \in Nat
        BY <4>1, <4>2
      <4> HIDE DEF w, sd
      <4> QED BY <1>4, <3>1, <4>3
    <3> HIDE DEF w, v, t, sd, sm
    <3>3. - v <= e /\ e <= v
      BY <1>3, <1>4, <3>1, <3>2
    <3>4. 0 <= v
      BY <1>4, <3>1
    <3>5. sm <= v /\ - v <= sm
      <4>1. CASE e >= 0
        BY <1>3, <1>6, <1>7, <3>1, <3>3, <3>4, <4>1
      <4>2. CASE e < 0
        BY <1>3, <1>6, <1>7, <3>1, <3>3, <3>4, <4>2
      <4> QED BY <1>3, <4>1, <4>2
    <3> QED BY <3>5 DEF v
  <2> HIDE DEF m
  <2>3. Scale * m < Scale * Reach + Scale /\ Scale * (- m) < Scale * Reach + Scale
    <3>1. Scale * (- m) = - sm /\ Scale * Reach \in Int
      BY <1>7, Scales
    <3> DEFINE v == Scale * Reach
    <3> HIDE DEF v, sm
    <3> QED BY <1>7, <2>2, <3>1, Scales DEF v, sm
  <2>4. m <= Reach /\ - m <= Reach
    <3>1. - m \in Int
      BY <1>7
    <3> QED BY <1>7, <2>3, <3>1, Cancel, Scales
  <2> QED BY <1>7, <2>4, Scales
<1> HIDE DEF m
<1>9. f \in Int /\ f - sm \in - t .. t
  BY <1>7, <1>8, FloatNear, FloatType
<1> HIDE DEF f
<1>10. h \in Int /\ f - sh \in 0 .. Scale - 1
  BY <1>9, Scales, Division
<1> HIDE DEF h
<1>11. sh - sx <= 3 * t + u + Scale - 2 /\ sx - sh <= 3 * t + u + Scale - 2 /\ sh \in Int
  <2>1. sh \in Int
    BY <1>10, Scales
  <2>2. sm - e \in - (u - 1) .. u - 1
    BY <1>6, <1>7
  <2> HIDE DEF sh, sx, sd, sm, t, u
  <2> QED BY <1>3, <1>4, <1>5, <1>7, <1>9, <1>10, <2>1, <2>2, Scales
<1>12. h - x <= Fine + 3 * Slack /\ x - h <= Fine + 3 * Slack
  <2> DEFINE b == Fine + 3 * Slack
  <2>1. Scale * (h - x) = sh - sx /\ Scale * (x - h) = sx - sh /\ Scale * b = u + 3 * t
    BY <1>10, Scales
  <2>2. h - x \in Int /\ x - h \in Int /\ b \in Int
    BY <1>10, Scales
  <2> DEFINE sb == Scale * b
  <2>3. sh - sx < sb + Scale /\ sx - sh < sb + Scale
    <3>1. sb = u + 3 * t
      BY <2>1
    <3> HIDE DEF sh, sx, t, u, sb, b
    <3> QED BY <1>4, <1>11, <3>1, Scales
  <2>4. Scale * (h - x) < Scale * b + Scale /\ Scale * (x - h) < Scale * b + Scale
    BY <2>1, <2>3
  <2> HIDE DEF b
  <2>5. h - x <= b /\ x - h <= b
    BY <2>2, <2>4, Cancel, Scales
  <2> QED BY <2>5 DEF b
<1>13. y \in Int /\ y - h \in - Slack .. Slack
  <2>1. - Reach <= h /\ h <= Reach
    BY <1>1, <1>10, <1>12, Scales
  <2> QED BY <1>10, <2>1, FloatNear, FloatType
<1>14. FromThousandths(Thousandths(Float(x))) = y
  BY DEF FromThousandths, y, h, f, sm, m, n, d
<1> HIDE DEF y
<1>15. y - x \in - (Fine + 4 * Slack) .. Fine + 4 * Slack
  BY <1>10, <1>12, <1>13, Scales
<1> QED BY <1>13, <1>14, <1>15

-----------------------------------------------------------------------------
(* The buffer.                                                              *)

\* What is in the buffer stays at its start.
LEMMA JoinsStay ==
    ASSUME NEW T, NEW ss \in Seq(Seq(T)), NEW n \in 0 .. Len(ss)
    PROVE  \A i \in 0 .. n :
              /\ Joins(ss)[i] \in Seq(T)
              /\ Len(Joins(ss)[i]) <= Len(Joins(ss)[n])
              /\ \A j \in 1 .. Len(Joins(ss)[i]) : Joins(ss)[n][j] = Joins(ss)[i][j]
<1> DEFINE N == Len(ss)
           buf == Joins(ss)
           Stays(i, k) == /\ Len(buf[i]) <= Len(buf[k])
                          /\ \A j \in 1 .. Len(buf[i]) : buf[k][j] = buf[i][j]
           E == {k \in 0 .. N : \A i \in 0 .. k : Stays(i, k)}
<1>1. N \in Nat /\ \A k \in 1 .. N : ss[k] \in Seq(T)
  BY LenProperties
<1>2. /\ \A k \in 0 .. N : buf[k] \in Seq(T)
      /\ \A k \in 1 .. N : buf[k - 1] \in Seq(T) /\ buf[k] = buf[k - 1] \o ss[k]
  BY JoinsRecursion
<1> HIDE DEF buf, N
<1>3. 0 \in E
  <2>1. Len(buf[0]) \in Nat
    BY <1>1, <1>2, LenProperties
  <2> QED BY <1>1, <2>1
<1>4. ASSUME NEW k \in 0 .. N - 1, k \in E PROVE k + 1 \in E
  <2> DEFINE s == buf[k]
             t == ss[k + 1]
  <2>1. k + 1 \in 1 .. N /\ (k + 1) - 1 = k /\ k + 1 \in 0 .. N /\ k \in 0 .. N
    BY <1>1, <1>4
  <2>2. s \in Seq(T) /\ t \in Seq(T) /\ buf[k + 1] = s \o t
    BY <1>1, <1>2, <2>1
  <2>3. /\ Len(s) \in Nat /\ Len(t) \in Nat /\ Len(s \o t) = Len(s) + Len(t)
        /\ \A j \in 1 .. Len(s) : (s \o t)[j] = s[j]
    <3> HIDE DEF s, t
    <3>1. Joint(s \o t, s, t)
      BY <2>2, ConcatOf
    <3> DEFINE w == s \o t
    <3> HIDE DEF w
    <3> QED BY <3>1 DEF Joint, w
  <2>4. Stays(k, k + 1)
    <3> DEFINE w == s \o t
    <3>1. Len(s) <= Len(w) /\ \A j \in 1 .. Len(s) : w[j] = s[j]
      <4> HIDE DEF s, t
      <4> QED BY <2>3
    <3> HIDE DEF w
    <3>2. buf[k + 1] = w
      BY <2>2 DEF w
    <3> QED BY <3>1, <3>2
  <2>5. ASSUME NEW i \in 0 .. k PROVE Stays(i, k + 1)
    <3>1. Stays(i, k)
      BY <1>4
    <3>2. Len(buf[i]) \in Nat /\ Len(buf[k + 1]) \in Nat /\ Len(buf[k]) \in Nat
      BY <1>1, <1>2, <2>1, LenProperties
    <3> HIDE DEF s
    <3> QED BY <2>4, <3>1, <3>2
  <2>6. Stays(k + 1, k + 1)
    <3>1. Len(buf[k + 1]) \in Nat
      BY <1>1, <1>2, <2>1, LenProperties
    <3> QED BY <3>1
  <2> HIDE DEF Stays
  <2>7. \A i \in 0 .. k + 1 : Stays(i, k + 1)
    <3>1. \A i \in 0 .. k + 1 : i \in 0 .. k \/ i = k + 1
      BY <2>1
    <3> QED BY <2>5, <2>6, <3>1
  <2> QED BY <2>1, <2>7
<1> HIDE DEF E
<1>5. 0 .. N \subseteq E
  BY <1>1, <1>3, <1>4, UpToInduction
<1>6. n \in E /\ \A i \in 0 .. n : i \in 0 .. N
  BY <1>1, <1>5 DEF N
<1> QED BY <1>2, <1>6 DEF E, buf

\* Each byte string has its place in the buffer.
LEMMA JoinedAt ==
    ASSUME NEW T, NEW ss \in Seq(Seq(T)), NEW i \in 1 .. Len(ss)
    PROVE  /\ Joined(ss) \in Seq(T) /\ Joins(ss)[i - 1] \in Seq(T) /\ Joins(ss)[i] \in Seq(T)
           /\ ss[i] \in Seq(T)
           /\ Len(Joins(ss)[i]) = Len(Joins(ss)[i - 1]) + Len(ss[i])
           /\ Len(Joins(ss)[i]) <= Len(Joined(ss))
           /\ \A j \in 1 .. Len(ss[i]) : Joined(ss)[Len(Joins(ss)[i - 1]) + j] = ss[i][j]
<1> DEFINE N == Len(ss)
           s == Joins(ss)[i - 1]
           t == ss[i]
           b == Joined(ss)
<1>1. N \in Nat /\ N \in 0 .. N /\ i \in 0 .. N /\ ss[i] \in Seq(T)
  BY LenProperties
<1>2. s \in Seq(T) /\ Joins(ss)[i] = s \o t /\ Joins(ss) \in [0 .. N -> Seq(T)]
  BY JoinsRecursion
<1>3. /\ Len(s) \in Nat /\ Len(t) \in Nat
      /\ Len(s \o t) = Len(s) + Len(t) /\ s \o t \in Seq(T)
      /\ \A j \in 1 .. Len(t) : (s \o t)[Len(s) + j] = t[j]
  <2>0. s \in Seq(T) /\ t \in Seq(T)
    BY <1>1, <1>2
  <2> HIDE DEF s, t
  <2>1. s \o t \in Seq(T) /\ Joint(s \o t, s, t)
    BY <2>0, ConcatOf
  <2> DEFINE w == s \o t
  <2> HIDE DEF w
  <2> QED BY <2>1 DEF Joint, w
<1>4. b \in Seq(T)
  BY <1>1, <1>2 DEF Joined
<1>5. Len(s \o t) <= Len(b) /\ \A j \in 1 .. Len(s \o t) : b[j] = (s \o t)[j]
  <2> DEFINE w == Joins(ss)[i]
  <2>1. Len(w) <= Len(b) /\ \A j \in 1 .. Len(w) : b[j] = w[j]
    <3>1. b = Joins(ss)[N]
      BY DEF Joined
    <3> HIDE DEF b
    <3> QED BY <1>1, <3>1, JoinsStay
  <2>2. w = s \o t
    BY <1>2
  <2> HIDE DEF w, b, s, t
  <2> QED BY <2>1, <2>2
<1>6. ASSUME NEW j \in 1 .. Len(t) PROVE b[Len(s) + j] = t[j]
  <2> HIDE DEF s, t, b
  <2>1. Len(s) + j \in 1 .. Len(s \o t)
    BY <1>3
  <2>2. b[Len(s) + j] = (s \o t)[Len(s) + j]
    BY <1>5, <2>1, Zenon
  <2> QED BY <1>3, <2>2
<1> QED BY <1>1, <1>2, <1>3, <1>4, <1>5, <1>6

\* The buffer depends on what was appended only.
LEMMA JoinsSame ==
    ASSUME NEW T, NEW ss \in Seq(Seq(T)), NEW tt \in Seq(Seq(T)), NEW n \in Nat,
           n <= Len(ss), n <= Len(tt), \A i \in 1 .. n : ss[i] = tt[i]
    PROVE  Joins(ss)[n] = Joins(tt)[n]
<1> DEFINE a == Joins(ss)
           b == Joins(tt)
           E == {k \in 0 .. n : a[k] = b[k]}
<1>1. Len(ss) \in Nat /\ Len(tt) \in Nat
  BY LenProperties
<1>2. a[0] = <<>> /\ \A k \in 1 .. Len(ss) : a[k] = a[k - 1] \o ss[k]
  BY JoinsRecursion
<1>3. b[0] = <<>> /\ \A k \in 1 .. Len(tt) : b[k] = b[k - 1] \o tt[k]
  BY JoinsRecursion
<1> HIDE DEF a, b
<1>4. 0 \in E
  BY <1>2, <1>3
<1>5. ASSUME NEW k \in 0 .. n - 1, k \in E PROVE k + 1 \in E
  <2>1. /\ k + 1 \in 1 .. n /\ k + 1 \in 1 .. Len(ss) /\ k + 1 \in 1 .. Len(tt)
        /\ (k + 1) - 1 = k /\ k + 1 \in 0 .. n
    BY <1>1, <1>5
  <2>2. a[k + 1] = a[k] \o ss[k + 1] /\ b[k + 1] = b[k] \o tt[k + 1] /\ ss[k + 1] = tt[k + 1]
    BY <1>2, <1>3, <2>1
  <2> QED BY <1>5, <2>1, <2>2
<1> HIDE DEF E
<1>6. 0 .. n \subseteq E
  BY <1>4, <1>5, UpToInduction
<1>7. n \in E
  BY <1>6
<1> QED BY <1>7 DEF E, a, b

-----------------------------------------------------------------------------
(* What is appended for each point.                                         *)

Modes == {"raw", "delta", "deltadelta"}

\* A point of a batch.
LEMMA SampleIs ==
    ASSUME NEW p \in Samples
    PROVE  /\ p.time \in Int64 /\ p.value \in Int64 /\ p.time \in Int /\ p.value \in Int
           /\ p = [time |-> p.time, value |-> p.value]
<1>1. p \in [time : Int64, value : Int64]
  BY EncoderAssumption
<1>2. p.time \in Int64 /\ p.value \in Int64 /\ p = [time |-> p.time, value |-> p.value]
  BY <1>1
<1>3. p.time \in Int /\ p.value \in Int
  BY <1>2, WrapSame
<1> QED BY <1>2, <1>3

\* The words of a point.
LEMMA PointCodeIs ==
    ASSUME NEW p \in Samples
    PROVE  /\ PointCode(p) \in Seq(Nat) /\ Len(PointCode(p)) = PointBytes
           /\ \A j \in 1 .. WordBytes : /\ PointCode(p)[j] = FixedWord(p.time)[j]
                                        /\ PointCode(p)[WordBytes + j] = FixedWord(p.value)[j]
<1> DEFINE s == FixedWord(p.time)
           t == FixedWord(p.value)
<1>1. WordBytes \in Nat
  BY Widths
<1>2. s \in Seq(Nat) /\ t \in Seq(Nat) /\ Len(s) = WordBytes /\ Len(t) = WordBytes
  BY SampleIs, WordRead
<1>3. PointCode(p) = s \o t
  BY DEF PointCode
<1> HIDE DEF s, t
<1>4. /\ s \o t \in Seq(Nat) /\ Len(s \o t) = WordBytes + WordBytes
      /\ \A j \in 1 .. WordBytes : (s \o t)[j] = s[j]
      /\ \A j \in 1 .. WordBytes : (s \o t)[WordBytes + j] = t[j]
  <2>1. s \o t \in Seq(Nat) /\ Joint(s \o t, s, t)
    BY <1>2, ConcatOf
  <2> DEFINE w == s \o t
  <2> HIDE DEF w
  <2> QED BY <1>2, <2>1 DEF Joint, w
<1>5. PointBytes = WordBytes + WordBytes
  BY <1>1 DEF PointBytes
<1> QED BY <1>3, <1>4, <1>5 DEF s, t

\* The flags and the varints of an entry.
LEMMA EntryIs ==
    ASSUME NEW a \in Int, NEW b \in Int
    PROVE  LET t == encodeVarint(a)
               v == encodeVarint(Thousandths(b))
           IN
           /\ t \in Seq(Nat) /\ v \in Seq(Nat) /\ Entry(a, b) \in Seq(Nat)
           /\ Len(Entry(a, b)) = 1 + Len(t) + Len(v)
           /\ Entry(a, b)[1] \div Nibble = Len(t) /\ Entry(a, b)[1] % Nibble = Len(v)
           /\ \A j \in 1 .. Len(t) : Entry(a, b)[1 + j] = t[j]
           /\ \A j \in 1 .. Len(v) : Entry(a, b)[1 + Len(t) + j] = v[j]
<1> DEFINE t == encodeVarint(a)
           v == encodeVarint(Thousandths(b))
<1>1. /\ Nibble \in Nat \ {0} /\ MaxVarint \in Nat /\ MaxVarint < Nibble
  <2>1. 0 \in 0 .. Word - 1
    BY Widths
  <2>2. MaxVarint \in Nat
    BY <2>1, VarintLenBound
  <2> QED BY <2>2, Widths, EncoderAssumption
<1>2. t \in Seq(Nat) /\ Len(t) \in 1 .. MaxVarint
  BY VarintRead
<1>3. v \in Seq(Nat) /\ Len(v) \in 1 .. MaxVarint
  BY ThousandthsType, VarintRead
<1> DEFINE f == Len(t) * Nibble + Len(v)
           h == <<f>>
           e == Entry(a, b)
<1>4. e = h \o t \o v
  BY DEF Entry
<1> HIDE DEF e, t, v
<1>5. f \in Nat /\ f = Nibble * Len(t) + Len(v)
  <2>1. Len(t) \in Nat /\ Len(v) \in Nat
    BY <1>1, <1>2, <1>3
  <2>2. Len(t) * Nibble \in Nat /\ Len(t) * Nibble = Nibble * Len(t)
    BY <1>1, <2>1
  <2> QED BY <2>1, <2>2
<1>6. f \div Nibble = Len(t) /\ f % Nibble = Len(v)
  <2>1. Len(t) \in Int /\ Len(v) \in 0 .. Nibble - 1 /\ f \in Int
    BY <1>1, <1>2, <1>3, <1>5
  <2> HIDE DEF f
  <2> QED BY <1>1, <1>5, <2>1, Quotient, Zenon
<1> HIDE DEF f
<1>7. h \in Seq(Nat) /\ Len(h) = 1 /\ h[1] = f
  BY <1>5
<1> HIDE DEF h
<1> DEFINE g == h \o t
<1>8. /\ g \in Seq(Nat) /\ Len(g) = 1 + Len(t)
      /\ \A j \in 1 .. 1 : g[j] = h[j]
      /\ \A j \in 1 .. Len(t) : g[1 + j] = t[j]
  <2>1. g \in Seq(Nat) /\ Joint(g, h, t)
    BY <1>2, <1>7, ConcatOf
  <2> HIDE DEF g
  <2> QED BY <1>7, <2>1 DEF Joint
<1> HIDE DEF g
<1>9. e = g \o v
  BY <1>4 DEF g
<1>10. /\ e \in Seq(Nat) /\ Len(e) = 1 + Len(t) + Len(v)
       /\ \A j \in 1 .. 1 + Len(t) : e[j] = g[j]
       /\ \A j \in 1 .. Len(v) : e[1 + Len(t) + j] = v[j]
  <2>1. e \in Seq(Nat) /\ Joint(e, g, v)
    BY <1>3, <1>8, <1>9, ConcatOf
  <2> QED BY <1>8, <2>1 DEF Joint
<1>11. 1 \in 1 .. 1 + Len(t) /\ 1 \in 1 .. 1 /\ \A j \in 1 .. Len(t) : 1 + j \in 1 .. 1 + Len(t)
  BY <1>1, <1>2
<1>12. e[1] = f /\ \A j \in 1 .. Len(t) : e[1 + j] = t[j]
  <2>1. e[1] = g[1] /\ g[1] = h[1]
    BY <1>8, <1>10, <1>11, Zenon
  <2>2. ASSUME NEW j \in 1 .. Len(t) PROVE e[1 + j] = t[j]
    <3>1. e[1 + j] = g[1 + j] /\ g[1 + j] = t[j]
      BY <1>8, <1>10, <1>11, Zenon
    <3> QED BY <3>1
  <2> QED BY <1>7, <2>1, <2>2
<1> QED BY <1>2, <1>3, <1>6, <1>10, <1>12 DEF e, t, v

\* The differences between a point and the one before.
LEMMA Differences ==
    ASSUME NEW ps \in Seq(Samples), NEW i \in 2 .. Len(ps)
    PROVE  /\ ps[i - 1] \in Samples /\ ps[i] \in Samples
           /\ TimeDelta(ps, i) \in Int64 /\ TimeDelta(ps, i) \in Int /\ ValueDelta(ps, i) \in Int
           /\ Thousandths(ValueDelta(ps, i)) \in Int64
<1>1. Len(ps) \in Nat /\ \A j \in 1 .. Len(ps) : ps[j] \in Samples
  BY LenProperties
<1>2. i \in 1 .. Len(ps) /\ i - 1 \in 1 .. Len(ps)
  BY <1>1
<1> DEFINE p == ps[i]
           q == ps[i - 1]
<1>3. p \in Samples /\ q \in Samples
  BY <1>1, <1>2
<1>4. TimeDelta(ps, i) = Wrap(p.time - q.time) /\ ValueDelta(ps, i) = Float(p.value - q.value)
  BY DEF TimeDelta, ValueDelta
<1> HIDE DEF p, q
<1>5. p.time - q.time \in Int /\ p.value - q.value \in Int
  BY <1>3, SampleIs
<1>6. Thousandths(Float(p.value - q.value)) \in Int64
  BY <1>3, EncoderAssumption
<1>7. Float(p.value - q.value) \in Int
  BY <1>5, FloatType
<1> QED BY <1>3, <1>4, <1>5, <1>6, <1>7, WrapResult DEF p, q

\* What is appended for each point are bytes, at least one.
LEMMA CodesType ==
    ASSUME NEW m \in Modes, NEW ps \in Seq(Samples)
    PROVE  /\ Codes(m, ps) \in Seq(Seq(Nat)) /\ Len(Codes(m, ps)) = Len(ps)
           /\ \A i \in 1 .. Len(ps) : Codes(m, ps)[i] \in Seq(Nat) /\ Len(Codes(m, ps)[i]) >= 1
<1> DEFINE n == Len(ps)
           Bytes(s) == s \in Seq(Nat) /\ Len(s) >= 1
<1>1. n \in Nat /\ \A i \in 1 .. n : ps[i] \in Samples
  BY LenProperties
<1>2. \A p \in Samples : Bytes(PointCode(p))
  <2>1. PointBytes >= 1
    BY Widths DEF PointBytes
  <2> QED BY <2>1, PointCodeIs
<1>3. \A a, b \in Int : Bytes(Entry(a, b))
  <2> SUFFICES ASSUME NEW a \in Int, NEW b \in Int PROVE Bytes(Entry(a, b))
    OBVIOUS
  <2> DEFINE t == encodeVarint(a)
             v == encodeVarint(Thousandths(b))
  <2>1. /\ t \in Seq(Nat) /\ v \in Seq(Nat) /\ Entry(a, b) \in Seq(Nat)
        /\ Len(Entry(a, b)) = 1 + Len(t) + Len(v)
    <3> HIDE DEF Bytes
    <3> QED BY EntryIs
  <2> HIDE DEF t, v
  <2>2. Len(t) \in Nat /\ Len(v) \in Nat
    BY <2>1, LenProperties
  <2> QED BY <2>1, <2>2
<1>4. ASSUME NEW i \in 1 .. n PROVE Bytes(Code(m, ps, i))
  <2> HIDE DEF Bytes
  <2>1. CASE m = "raw"
    <3>1. Code(m, ps, i) = PointCode(ps[i])
      BY <2>1 DEF Code, RawCode
    <3> QED BY <1>1, <1>2, <3>1
  <2>2. CASE m = "delta"
    <3>1. Code(m, ps, i) = DeltaCode(ps, i)
      BY <2>2 DEF Code
    <3>2. CASE i = 1
      <4>1. Code(m, ps, i) = PointCode(ps[i])
        BY <3>1, <3>2 DEF DeltaCode
      <4> QED BY <1>1, <1>2, <4>1
    <3>3. CASE i # 1
      <4>1. i \in 2 .. Len(ps)
        BY <1>1, <3>3
      <4>2. Code(m, ps, i) = Entry(TimeDelta(ps, i), ValueDelta(ps, i))
        BY <3>1, <3>3 DEF DeltaCode
      <4> QED BY <1>3, <4>1, <4>2, Differences
    <3> QED BY <3>2, <3>3
  <2>3. CASE m = "deltadelta"
    <3>1. Code(m, ps, i) = DeltaDeltaCode(ps, i)
      BY <2>3 DEF Code
    <3>2. CASE i <= 2
      <4>1. Code(m, ps, i) = PointCode(ps[i])
        BY <3>1, <3>2 DEF DeltaDeltaCode
      <4> QED BY <1>1, <1>2, <4>1
    <3>3. CASE ~ (i <= 2)
      <4> DEFINE h == IF i = 3 THEN Bases(ps) ELSE <<>>
                 e == Entry(Wrap(TimeDelta(ps, i) - TimeDelta(ps, i - 1)),
                            Float(ValueDelta(ps, i) - ValueDelta(ps, i - 1)))
      <4>1. Code(m, ps, i) = h \o e
        BY <3>1, <3>3 DEF DeltaDeltaCode
      <4>2. i \in 2 .. Len(ps) /\ i - 1 \in 2 .. Len(ps) /\ 2 \in 2 .. Len(ps)
        BY <1>1, <3>3
      <4>3. TimeDelta(ps, i) \in Int /\ TimeDelta(ps, i - 1) \in Int
            /\ ValueDelta(ps, i) \in Int /\ ValueDelta(ps, i - 1) \in Int
        BY <4>2, Differences
      <4>4. Wrap(TimeDelta(ps, i) - TimeDelta(ps, i - 1)) \in Int
            /\ Float(ValueDelta(ps, i) - ValueDelta(ps, i - 1)) \in Int
        <5>1. ASSUME NEW x \in Int, NEW y \in Int PROVE Float(x - y) \in Int /\ Wrap(x - y) \in Int
          <6>1. x - y \in Int
            OBVIOUS
          <6> QED BY <6>1, WrapResult, FloatType
        <5> QED BY <4>3, <5>1
      <4>5. Bytes(e)
        BY <1>3, <4>4
      <4>6. Bases(ps) \in Seq(Nat)
        <5>1. TimeDelta(ps, 2) \in Int /\ ValueDelta(ps, 2) \in Int
          BY <4>2, Differences
        <5>2. Thousandths(ValueDelta(ps, 2)) \in Int
          BY <5>1, ThousandthsType
        <5>3. encodeVarint(TimeDelta(ps, 2)) \in Seq(Nat)
              /\ encodeVarint(Thousandths(ValueDelta(ps, 2))) \in Seq(Nat)
          BY <5>1, <5>2, VarintRead
        <5> QED BY <5>3, ConcatProperties DEF Bases
      <4>7. h \in Seq(Nat)
        BY <4>6, EmptySeq
      <4> HIDE DEF h, e
      <4>8. h \o e \in Seq(Nat) /\ Len(h \o e) = Len(h) + Len(e)
        BY <4>5, <4>7, ConcatProperties DEF Bytes
      <4>9. Len(h) \in Nat /\ Len(e) \in Nat /\ Len(e) >= 1
        BY <4>5, <4>7, LenProperties DEF Bytes
      <4>10. Len(h \o e) >= 1
        BY <4>8, <4>9
      <4> QED BY <4>1, <4>8, <4>10 DEF Bytes
    <3> QED BY <3>2, <3>3
  <2> QED BY <2>1, <2>2, <2>3 DEF Modes
<1>5. Codes(m, ps) = [i \in 1 .. n |-> Code(m, ps, i)]
  BY DEF Codes
<1>6. Codes(m, ps) \in [1 .. n -> Seq(Nat)] /\ \A i \in 1 .. n : Codes(m, ps)[i] = Code(m, ps, i)
  BY <1>4, <1>5
<1>7. Codes(m, ps) \in Seq(Seq(Nat)) /\ Len(Codes(m, ps)) = n
  <2> HIDE DEF n
  <2> QED BY <1>1, <1>6, SequenceOf
<1> QED BY <1>4, <1>6, <1>7

\* The first points are encoded alike, whatever points follow.
LEMMA EncodingPrefix ==
    ASSUME NEW m \in Modes, NEW ps \in Seq(Samples), NEW k \in 0 .. Len(ps)
    PROVE  Encoding(m, SubSeq(ps, 1, k)) = Joins(Codes(m, ps))[k]
<1> DEFINE qs == SubSeq(ps, 1, k)
<1>1. Len(ps) \in Nat /\ k \in Nat /\ k <= Len(ps) /\ \A i \in 1 .. Len(ps) : ps[i] \in Samples
  BY LenProperties
<1>2. qs \in Seq(Samples) /\ Len(qs) = k /\ \A i \in 1 .. k : qs[i] = ps[i]
  <2>1. /\ qs \in Seq(Samples)
        /\ Len(qs) = IF 1 <= k THEN k - 1 + 1 ELSE 0
        /\ \A i \in 1 .. k - 1 + 1 : qs[i] = ps[1 + i - 1]
    BY <1>1, SubSeqProperties
  <2> QED BY <1>1, <2>1
<1> HIDE DEF qs
<1>3. ASSUME NEW i \in 2 .. k
      PROVE  TimeDelta(qs, i) = TimeDelta(ps, i) /\ ValueDelta(qs, i) = ValueDelta(ps, i)
  <2>1. i \in 1 .. k /\ i - 1 \in 1 .. k
    BY <1>1
  <2>2. qs[i] = ps[i] /\ qs[i - 1] = ps[i - 1]
    BY <1>2, <2>1
  <2> QED BY <2>2 DEF TimeDelta, ValueDelta
<1>4. ASSUME NEW i \in 1 .. k PROVE Codes(m, qs)[i] = Codes(m, ps)[i]
  <2>1. Codes(m, qs)[i] = Code(m, qs, i) /\ Codes(m, ps)[i] = Code(m, ps, i)
    <3>1. i \in 1 .. Len(qs) /\ i \in 1 .. Len(ps)
      BY <1>1, <1>2
    <3> QED BY <3>1 DEF Codes
  <2>2. qs[i] = ps[i]
    BY <1>2
  <2>3. RawCode(qs, i) = RawCode(ps, i)
    BY <2>2 DEF RawCode
  <2>4. DeltaCode(qs, i) = DeltaCode(ps, i)
    <3>1. i # 1 => i \in 2 .. k
      BY <1>1
    <3> QED BY <1>3, <2>2, <3>1 DEF DeltaCode
  <2>5. DeltaDeltaCode(qs, i) = DeltaDeltaCode(ps, i)
    <3>1. CASE i <= 2
      BY <2>2, <3>1 DEF DeltaDeltaCode
    <3>2. CASE ~ (i <= 2)
      <4>1. i \in 2 .. k /\ i - 1 \in 2 .. k /\ 2 \in 2 .. k
        BY <1>1, <3>2
      <4>2. /\ TimeDelta(qs, i) = TimeDelta(ps, i) /\ ValueDelta(qs, i) = ValueDelta(ps, i)
            /\ TimeDelta(qs, i - 1) = TimeDelta(ps, i - 1)
            /\ ValueDelta(qs, i - 1) = ValueDelta(ps, i - 1)
            /\ TimeDelta(qs, 2) = TimeDelta(ps, 2) /\ ValueDelta(qs, 2) = ValueDelta(ps, 2)
        BY <1>3, <4>1
      <4>3. Bases(qs) = Bases(ps)
        BY <4>2 DEF Bases
      <4> QED BY <3>2, <4>2, <4>3 DEF DeltaDeltaCode
    <3> QED BY <3>1, <3>2
  <2> QED BY <2>1, <2>3, <2>4, <2>5 DEF Modes, Code
<1>5. /\ Codes(m, qs) \in Seq(Seq(Nat)) /\ Len(Codes(m, qs)) = k
      /\ Codes(m, ps) \in Seq(Seq(Nat)) /\ Len(Codes(m, ps)) = Len(ps)
  BY <1>2, CodesType
<1>6. Joins(Codes(m, qs))[k] = Joins(Codes(m, ps))[k]
  <2> DEFINE a == Codes(m, qs)
             b == Codes(m, ps)
  <2>1. /\ a \in Seq(Seq(Nat)) /\ b \in Seq(Seq(Nat)) /\ k <= Len(a) /\ k <= Len(b)
        /\ \A i \in 1 .. k : a[i] = b[i]
    BY <1>1, <1>4, <1>5
  <2> HIDE DEF a, b
  <2>2. Joins(a)[k] = Joins(b)[k]
    BY <1>1, <2>1, JoinsSame
  <2> QED BY <2>2 DEF a, b
<1> QED BY <1>5, <1>6 DEF Encoding, Joined, qs

\* The points that are written as they are fill places of the same length.
LEMMA PlainLengths ==
    ASSUME NEW m \in Modes, NEW ps \in Seq(Samples), NEW n \in 0 .. Len(ps),
           \A i \in 1 .. n : Codes(m, ps)[i] = PointCode(ps[i])
    PROVE  \A k \in 0 .. n : Len(Joins(Codes(m, ps))[k]) = k * PointBytes
<1> DEFINE ss == Codes(m, ps)
           E == {k \in 0 .. n : Len(Joins(ss)[k]) = k * PointBytes}
<1>1. Len(ps) \in Nat /\ n \in Nat /\ n <= Len(ps) /\ \A i \in 1 .. Len(ps) : ps[i] \in Samples
  BY LenProperties
<1>2. ss \in Seq(Seq(Nat)) /\ Len(ss) = Len(ps)
  BY CodesType
<1>3. PointBytes \in Nat
  BY Widths DEF PointBytes
<1>4. \A i \in 1 .. n : Len(ss[i]) = PointBytes
  <2>1. ASSUME NEW i \in 1 .. n PROVE Len(ss[i]) = PointBytes
    <3>1. ss[i] = PointCode(ps[i]) /\ ps[i] \in Samples
      BY <1>1
    <3> HIDE DEF ss
    <3> QED BY <3>1, PointCodeIs
  <2> QED BY <2>1
<1> HIDE DEF ss
<1>5. 0 \in E
  <2>1. Joins(ss)[0] = <<>>
    BY <1>2, JoinsRecursion
  <2> QED BY <1>1, <1>3, <2>1
<1>6. ASSUME NEW k \in 0 .. n - 1, k \in E PROVE k + 1 \in E
  <2>1. k + 1 \in 1 .. n /\ k + 1 \in 1 .. Len(ss) /\ (k + 1) - 1 = k /\ k + 1 \in 0 .. n /\ k \in Nat
    BY <1>1, <1>2
  <2>2. Len(Joins(ss)[k + 1]) = Len(Joins(ss)[k]) + Len(ss[k + 1])
    BY <1>2, <2>1, JoinedAt
  <2>3. Len(Joins(ss)[k + 1]) = k * PointBytes + PointBytes
    BY <1>4, <1>6, <2>1, <2>2
  <2>4. k * PointBytes + PointBytes = (k + 1) * PointBytes
    BY <1>3, <2>1
  <2> QED BY <2>1, <2>3, <2>4
<1> HIDE DEF E
<1>7. 0 .. n \subseteq E
  BY <1>1, <1>5, <1>6, UpToInduction
<1> QED BY <1>7 DEF E, ss

-----------------------------------------------------------------------------
(* The invariant.                                                           *)

Point == [time : Int, value : Int]

\* The buffer after the first k points.
Buffer(k) == Joins(Codes(mode, points))[k]

\* Types: what the decoder has are points, whatever bytes it read.
CodecTypes ==
    /\ mode \in Modes /\ points \in Seq(Samples) /\ Len(points) <= MaxBatch
    /\ decoded \in Seq(Point) /\ lastDelta \in Point

\* The bytes that are there are the first of the encoding.
BytesKept ==
    /\ cut \in Nat /\ data \in Seq(Nat)
    /\ Len(data) = Len(Encoding(mode, points)) - cut
    /\ \A j \in 1 .. Len(data) : data[j] = Encoding(mode, points)[j]

\* The decoder of deltas stands behind the entry of its last point.
DecoderAt ==
    /\ codecPc = "idle" => cut = 0
    /\ codecPc \in {"idle", "encoded"} => decoded = <<>>
    /\ codecPc = "decoding" =>
        /\ mode \in {"delta", "deltadelta"} /\ offset \in Nat
        /\ mode = "delta" => /\ Len(decoded) \in 1 .. Len(points)
                             /\ offset = Len(Buffer(Len(decoded))) /\ offset <= Len(data)
        /\ mode = "deltadelta" => Len(decoded) >= 2 /\ Len(points) >= 3

CodecInv == CodecTypes /\ BytesKept /\ DecoderAt /\ DecodingFaithful

\* A slice has as many bytes as it was asked for.
LEMMA SliceType ==
    ASSUME data \in Seq(Nat), NEW at \in Nat, NEW n \in Nat
    PROVE  Slice(at, n) \in Seq(Nat)
<1>1. Len(data) \in Nat /\ \A i \in 1 .. Len(data) : data[i] \in Nat
  BY LenProperties
<1>2. ASSUME NEW i \in 1 .. n PROVE (IF at + i <= Len(data) THEN data[at + i] ELSE 0) \in Nat
  <2>1. at + i <= Len(data) => at + i \in 1 .. Len(data)
    BY <1>1
  <2> QED BY <1>1, <2>1
<1>3. Slice(at, n) \in [1 .. n -> Nat]
  BY <1>2 DEF Slice
<1> QED BY <1>3, SequenceOf

\* The bytes of s where they are.
LEMMA SliceIs ==
    ASSUME data \in Seq(Nat), NEW at \in Nat, NEW s \in Seq(Nat), at + Len(s) <= Len(data),
           \A j \in 1 .. Len(s) : data[at + j] = s[j]
    PROVE  Slice(at, Len(s)) = s
<1>1. Len(data) \in Nat /\ Len(s) \in Nat /\ s = [i \in 1 .. Len(s) |-> s[i]]
  BY LenProperties
<1>2. \A i \in 1 .. Len(s) : (IF at + i <= Len(data) THEN data[at + i] ELSE 0) = s[i]
  BY <1>1
<1>3. Slice(at, Len(s)) = [i \in 1 .. Len(s) |-> s[i]]
  BY <1>2 DEF Slice
<1> QED BY <1>1, <1>3

\* Whatever bytes there are, a point is read from them.
LEMMA PointAtType ==
    ASSUME data \in Seq(Nat), NEW at \in Nat
    PROVE  PointAt(at) \in Point
<1>1. WordBytes \in Nat /\ at + WordBytes \in Nat
  BY Widths
<1>2. Slice(at, WordBytes) \in Seq(Nat) /\ Slice(at + WordBytes, WordBytes) \in Seq(Nat)
  BY <1>1, SliceType
<1>3. ReadWord(Slice(at, WordBytes)) \in Int /\ ReadWord(Slice(at + WordBytes, WordBytes)) \in Int
  BY <1>2, WordType
<1> QED BY <1>3 DEF PointAt, Point

\* The point whose words are there.
LEMMA PointAtIs ==
    ASSUME data \in Seq(Nat), NEW at \in Nat, NEW p \in Samples, at + PointBytes <= Len(data),
           \A j \in 1 .. PointBytes : data[at + j] = PointCode(p)[j]
    PROVE  PointAt(at) = p
<1> DEFINE s == FixedWord(p.time)
           t == FixedWord(p.value)
           w == PointCode(p)
<1>1. WordBytes \in Nat /\ PointBytes = WordBytes + WordBytes
  BY Widths DEF PointBytes
<1>2. /\ s \in Seq(Nat) /\ t \in Seq(Nat) /\ Len(s) = WordBytes /\ Len(t) = WordBytes
      /\ ReadWord(s) = p.time /\ ReadWord(t) = p.value
  BY SampleIs, WordRead, WrapSame
<1>3. \A j \in 1 .. WordBytes : w[j] = s[j] /\ w[WordBytes + j] = t[j]
  BY PointCodeIs
<1>4. Len(data) \in Nat
  BY LenProperties
<1>5. \A j \in 1 .. PointBytes : data[at + j] = w[j]
  OBVIOUS
<1> HIDE DEF s, t, w
<1>6. Slice(at, WordBytes) = s
  <2>1. at + WordBytes <= Len(data)
    BY <1>1, <1>4
  <2>2. \A j \in 1 .. WordBytes : data[at + j] = s[j]
    <3>1. \A j \in 1 .. WordBytes : j \in 1 .. PointBytes
      BY <1>1
    <3> QED BY <1>3, <1>5, <3>1
  <2>3. Slice(at, Len(s)) = s
    BY <1>2, <2>1, <2>2, SliceIs
  <2> QED BY <1>2, <2>3
<1>7. Slice(at + WordBytes, WordBytes) = t
  <2> DEFINE b == at + WordBytes
  <2>1. b \in Nat /\ b + WordBytes <= Len(data)
    BY <1>1, <1>4
  <2>2. \A j \in 1 .. WordBytes : data[b + j] = t[j]
    <3>1. ASSUME NEW j \in 1 .. WordBytes
          PROVE  WordBytes + j \in 1 .. PointBytes /\ b + j = at + (WordBytes + j)
      <4>1. WordBytes + j \in 1 .. WordBytes + WordBytes
        BY <1>1
      <4>2. (at + WordBytes) + j = at + (WordBytes + j)
        BY <1>1
      <4> QED BY <1>1, <4>1, <4>2
    <3> QED BY <1>3, <1>5, <3>1
  <2> HIDE DEF b
  <2>3. Slice(b, Len(t)) = t
    BY <1>2, <2>1, <2>2, SliceIs
  <2> QED BY <1>2, <2>3 DEF b
<1>8. PointAt(at) = [time |-> p.time, value |-> p.value]
  BY <1>2, <1>6, <1>7 DEF PointAt
<1> QED BY <1>8, SampleIs

\* The code of the point i has its place in the data, as far as it is there.
LEMMA PlaceOf ==
    ASSUME CodecTypes, BytesKept, NEW i \in 1 .. Len(points)
    PROVE  LET code == Code(mode, points, i)
               at == Len(Buffer(i - 1))
           IN  /\ points[i] \in Samples /\ code \in Seq(Nat) /\ Len(code) \in Nat /\ Len(code) >= 1
               /\ at \in Nat /\ Len(Buffer(i)) = at + Len(code) /\ Len(Buffer(i)) \in Nat
               /\ Len(Buffer(i)) <= Len(Encoding(mode, points))
               /\ \A j \in 1 .. Len(code) : at + j <= Len(data) => data[at + j] = code[j]
<1> DEFINE ss == Codes(mode, points)
           code == Code(mode, points, i)
           at == Len(Buffer(i - 1))
           whole == Encoding(mode, points)
<1>1. mode \in Modes /\ points \in Seq(Samples) /\ data \in Seq(Nat) /\ points[i] \in Samples
  BY LenProperties DEF CodecTypes, BytesKept
<1>2. ss \in Seq(Seq(Nat)) /\ Len(ss) = Len(points) /\ ss[i] \in Seq(Nat) /\ Len(ss[i]) >= 1
  BY <1>1, CodesType
<1>3. ss[i] = code
  BY DEF Codes
<1>4. whole = Joined(ss) /\ at = Len(Joins(ss)[i - 1]) /\ Buffer(i) = Joins(ss)[i]
  BY DEF Encoding, Buffer
<1>5. \A j \in 1 .. Len(data) : data[j] = whole[j]
  BY DEF BytesKept
<1> HIDE DEF ss, code, at, whole
<1>6. i \in 1 .. Len(ss)
  BY <1>2
<1>7. /\ Joins(ss)[i - 1] \in Seq(Nat) /\ Joins(ss)[i] \in Seq(Nat)
      /\ Len(Joins(ss)[i]) = Len(Joins(ss)[i - 1]) + Len(ss[i])
      /\ Len(Joins(ss)[i]) <= Len(Joined(ss))
      /\ \A j \in 1 .. Len(ss[i]) : Joined(ss)[Len(Joins(ss)[i - 1]) + j] = ss[i][j]
  BY <1>2, <1>6, JoinedAt
<1>8. /\ at \in Nat /\ Len(code) \in Nat /\ Len(Buffer(i)) \in Nat /\ Len(data) \in Nat
      /\ Len(Buffer(i)) = at + Len(code) /\ Len(Buffer(i)) <= Len(whole)
      /\ \A j \in 1 .. Len(code) : whole[at + j] = code[j]
  BY <1>1, <1>2, <1>3, <1>4, <1>7, LenProperties
<1>9. \A j \in 1 .. Len(code) : at + j <= Len(data) => at + j \in 1 .. Len(data)
  BY <1>8
<1>10. \A j \in 1 .. Len(code) : at + j <= Len(data) => data[at + j] = code[j]
  BY <1>5, <1>8, <1>9
<1> QED BY <1>1, <1>2, <1>3, <1>8, <1>10 DEF code, at, whole

\* The first n points, when they are written as they are.
LEMMA PlainPoints ==
    ASSUME CodecTypes, BytesKept, NEW n \in 0 .. Len(points),
           \A i \in 1 .. n : Code(mode, points, i) = PointCode(points[i])
    PROVE  /\ \A k \in 0 .. n : Len(Buffer(k)) = k * PointBytes
           /\ \A i \in 1 .. n : i * PointBytes <= Len(data) => PointAt((i - 1) * PointBytes) = points[i]
<1>1. Len(points) \in Nat /\ mode \in Modes /\ points \in Seq(Samples) /\ data \in Seq(Nat)
  BY LenProperties DEF CodecTypes, BytesKept
<1>2. PointBytes \in Nat
  BY Widths DEF PointBytes
<1>3. \A k \in 0 .. n : Len(Buffer(k)) = k * PointBytes
  <2>1. \A i \in 1 .. n : Codes(mode, points)[i] = PointCode(points[i])
    BY <1>1 DEF Codes
  <2> QED BY <1>1, <2>1, PlainLengths DEF Buffer
<1>4. ASSUME NEW i \in 1 .. n, i * PointBytes <= Len(data)
      PROVE  PointAt((i - 1) * PointBytes) = points[i]
  <2> DEFINE code == PointCode(points[i])
             at == (i - 1) * PointBytes
  <2>1. i \in 1 .. Len(points) /\ i - 1 \in 0 .. n /\ i - 1 \in Nat
    BY <1>1
  <2>2. Code(mode, points, i) = code /\ Len(Buffer(i - 1)) = at
    BY <1>3, <2>1
  <2>3. /\ points[i] \in Samples
        /\ \A j \in 1 .. Len(code) : at + j <= Len(data) => data[at + j] = code[j]
    BY <2>1, <2>2, PlaceOf
  <2>4. Len(code) = PointBytes
    BY <2>3, PointCodeIs
  <2>5. at \in Nat /\ at + PointBytes = i * PointBytes
    BY <1>2, <2>1
  <2> HIDE DEF at, code
  <2>6. \A j \in 1 .. PointBytes : data[at + j] = code[j]
    <3>1. ASSUME NEW j \in 1 .. PointBytes PROVE at + j <= Len(data)
      <4>1. Len(data) \in Nat
        BY <1>1, LenProperties
      <4>2. at + PointBytes <= Len(data)
        BY <1>4, <2>5
      <4> QED BY <1>2, <2>5, <4>1, <4>2
    <3> QED BY <2>3, <2>4, <3>1
  <2>7. at + PointBytes <= Len(data)
    BY <1>4, <2>5
  <2>8. PointAt(at) = points[i]
    BY <1>1, <2>3, <2>5, <2>6, <2>7, PointAtIs DEF code
  <2> QED BY <2>8 DEF at
<1> QED BY <1>3, <1>4

\* The whole encoding is the buffer after the last point.
LEMMA WholeLength ==
    ASSUME CodecTypes, BytesKept
    PROVE  /\ Len(points) \in Nat /\ Len(data) \in Nat
           /\ Len(Encoding(mode, points)) = Len(Buffer(Len(points)))
           /\ Len(Buffer(Len(points))) \in Nat /\ Len(data) <= Len(Buffer(Len(points)))
           /\ cut = 0 => Len(data) = Len(Buffer(Len(points)))
<1>1. Len(points) \in Nat /\ mode \in Modes /\ points \in Seq(Samples) /\ data \in Seq(Nat)
  BY LenProperties DEF CodecTypes, BytesKept
<1>2. Codes(mode, points) \in Seq(Seq(Nat)) /\ Len(Codes(mode, points)) = Len(points)
  BY <1>1, CodesType
<1>3. Encoding(mode, points) = Buffer(Len(points))
  BY <1>2 DEF Encoding, Joined, Buffer
<1>4. Buffer(Len(points)) \in Seq(Nat)
  <2>1. Len(points) \in 0 .. Len(Codes(mode, points))
    BY <1>1, <1>2
  <2> QED BY <1>2, <2>1, JoinsRecursion DEF Buffer
<1>5. Len(Buffer(Len(points))) \in Nat /\ Len(data) \in Nat
  BY <1>1, <1>4, LenProperties
<1>6. cut \in Nat /\ Len(data) = Len(Encoding(mode, points)) - cut
  BY DEF BytesKept
<1> QED BY <1>1, <1>3, <1>5, <1>6

\* A point whose bytes are not all there was cut off.
LEMMA Missing ==
    ASSUME CodecTypes, BytesKept, NEW k \in 0 .. Len(points) - 1, Len(data) < Len(Buffer(k + 1))
    PROVE  cut > 0 /\ Len(data) < Len(Encoding(mode, SubSeq(points, 1, k + 1)))
<1>1. Len(points) \in Nat /\ mode \in Modes /\ points \in Seq(Samples)
  BY WholeLength DEF CodecTypes
<1>2. k + 1 \in 1 .. Len(points) /\ k + 1 \in 0 .. Len(points)
  BY <1>1
<1>3. Encoding(mode, SubSeq(points, 1, k + 1)) = Buffer(k + 1)
  BY <1>1, <1>2, EncodingPrefix DEF Buffer
<1>4. Len(Buffer(k + 1)) \in Nat /\ Len(Buffer(k + 1)) <= Len(Encoding(mode, points))
  BY <1>2, PlaceOf
<1>5. cut \in Nat /\ Len(data) = Len(Encoding(mode, points)) - cut
  BY DEF BytesKept
<1>6. Len(Encoding(mode, points)) \in Nat
  BY WholeLength
<1> QED BY <1>3, <1>4, <1>5, <1>6

\* The bytes of the entry after the last point decoded.
LEMMA EntryAhead ==
    ASSUME CodecInv, mode = "delta", codecPc = "decoding", offset < Len(data)
    PROVE  LET k == Len(decoded)
               t == encodeVarint(TimeDelta(points, k + 1))
               v == encodeVarint(Thousandths(ValueDelta(points, k + 1)))
           IN  /\ k \in Nat /\ k >= 1 /\ k < Len(points) /\ Len(points) \in Nat /\ offset \in Nat
               /\ TimeLen = Len(t) /\ ValueLen = Len(v)
               /\ Len(t) \in Nat /\ Len(v) \in Nat /\ t \in Seq(Nat) /\ v \in Seq(Nat)
               /\ Len(Buffer(k + 1)) = offset + 1 + Len(t) + Len(v)
               /\ Whole => Slice(offset + 1, Len(t)) = t /\ Slice(offset + 1 + Len(t), Len(v)) = v
<1> DEFINE k == Len(decoded)
           a == TimeDelta(points, k + 1)
           b == ValueDelta(points, k + 1)
           t == encodeVarint(a)
           v == encodeVarint(Thousandths(b))
           e == Entry(a, b)
<1>1. CodecTypes /\ BytesKept /\ data \in Seq(Nat) /\ points \in Seq(Samples)
  BY DEF CodecInv, CodecTypes, BytesKept
<1>2. k \in 1 .. Len(points) /\ offset = Len(Buffer(k)) /\ offset \in Nat
  BY DEF CodecInv, DecoderAt
<1>3. Len(points) \in Nat /\ Len(data) \in Nat /\ Len(data) <= Len(Buffer(Len(points)))
      /\ Len(Buffer(Len(points))) \in Nat
  BY <1>1, WholeLength
<1>4. k \in Nat /\ k >= 1 /\ k < Len(points)
  <2>1. k # Len(points)
    <3> HIDE DEF k
    <3> QED BY <1>2, <1>3
  <2> QED BY <1>2, <1>3, <2>1
<1> HIDE DEF k
<1>5. k + 1 \in 2 .. Len(points) /\ k + 1 \in 1 .. Len(points) /\ k + 1 # 1 /\ (k + 1) - 1 = k
  BY <1>3, <1>4
<1>6. Code(mode, points, k + 1) = e
  BY <1>5 DEF Code, DeltaCode
<1>7. /\ Len(Buffer(k + 1)) = offset + Len(e) /\ Len(e) \in Nat
      /\ \A j \in 1 .. Len(e) : offset + j <= Len(data) => data[offset + j] = e[j]
  <2>1. /\ Len(Buffer(k + 1)) = Len(Buffer(k)) + Len(Code(mode, points, k + 1))
        /\ Len(Code(mode, points, k + 1)) \in Nat
        /\ \A j \in 1 .. Len(Code(mode, points, k + 1)) : Len(Buffer(k)) + j <= Len(data) =>
                data[Len(Buffer(k)) + j] = Code(mode, points, k + 1)[j]
    BY <1>1, <1>5, PlaceOf
  <2> HIDE DEF e
  <2> QED BY <1>2, <1>6, <2>1
<1>8. a \in Int /\ b \in Int
  BY <1>1, <1>5, Differences
<1>9. /\ t \in Seq(Nat) /\ v \in Seq(Nat) /\ Len(e) = 1 + Len(t) + Len(v)
      /\ e[1] \div Nibble = Len(t) /\ e[1] % Nibble = Len(v)
      /\ \A j \in 1 .. Len(t) : e[1 + j] = t[j]
      /\ \A j \in 1 .. Len(v) : e[1 + Len(t) + j] = v[j]
  <2> HIDE DEF a, b
  <2> QED BY <1>8, EntryIs
<1> HIDE DEF a, b, t, v, e
<1>10. Len(t) \in Nat /\ Len(v) \in Nat
  BY <1>9, LenProperties
<1>11. data[offset + 1] = e[1]
  <2>1. 1 \in 1 .. Len(e) /\ offset + 1 <= Len(data)
    BY <1>2, <1>3, <1>9, <1>10
  <2> QED BY <1>7, <2>1
<1>12. TimeLen = Len(t) /\ ValueLen = Len(v)
  BY <1>9, <1>11 DEF TimeLen, ValueLen
<1>13. ASSUME Whole PROVE Slice(offset + 1, Len(t)) = t /\ Slice(offset + 1 + Len(t), Len(v)) = v
  <2>1. offset + 1 + Len(t) + Len(v) <= Len(data)
    BY <1>12, <1>13 DEF Whole
  <2>2. \A j \in 1 .. Len(e) : data[offset + j] = e[j]
    <3>1. \A j \in 1 .. Len(e) : offset + j <= Len(data)
      BY <1>2, <1>3, <1>9, <1>10, <2>1
    <3> QED BY <1>7, <3>1
  <2>3. \A j \in 1 .. Len(t) : data[(offset + 1) + j] = t[j]
    <3>1. ASSUME NEW j \in 1 .. Len(t) PROVE 1 + j \in 1 .. Len(e) /\ offset + (1 + j) = (offset + 1) + j
      BY <1>2, <1>9, <1>10
    <3> QED BY <1>9, <2>2, <3>1
  <2>4. \A j \in 1 .. Len(v) : data[(offset + 1 + Len(t)) + j] = v[j]
    <3>1. ASSUME NEW j \in 1 .. Len(v)
          PROVE  1 + Len(t) + j \in 1 .. Len(e) /\ offset + (1 + Len(t) + j) = (offset + 1 + Len(t)) + j
      BY <1>2, <1>9, <1>10
    <3> QED BY <1>9, <2>2, <3>1
  <2>5. /\ offset + 1 \in Nat /\ (offset + 1) + Len(t) <= Len(data)
        /\ offset + 1 + Len(t) \in Nat /\ (offset + 1 + Len(t)) + Len(v) <= Len(data)
    BY <1>2, <1>3, <1>10, <2>1
  <2>6. Slice(offset + 1, Len(t)) = t
    BY <1>1, <1>9, <2>3, <2>5, SliceIs
  <2>7. Slice(offset + 1 + Len(t), Len(v)) = v
    BY <1>1, <1>9, <2>4, <2>5, SliceIs
  <2> QED BY <2>6, <2>7
<1>14. Len(Buffer(k + 1)) = offset + 1 + Len(t) + Len(v)
  BY <1>2, <1>7, <1>9, <1>10
<1> QED BY <1>2, <1>3, <1>4, <1>9, <1>10, <1>12, <1>13, <1>14 DEF a, b, t, v, k

-----------------------------------------------------------------------------
(* The steps.                                                               *)

\* The invariant holds at the start.
LEMMA CodecInitInv == CodecInit => CodecInv
<1> SUFFICES ASSUME CodecInit PROVE CodecInv
  OBVIOUS
<1>1. /\ mode = "raw" /\ points = <<>> /\ data = <<>> /\ cut = 0 /\ codecPc = "idle"
      /\ decoded = <<>> /\ lastDelta = [time |-> 0, value |-> 0]
  BY DEF CodecInit
<1>2. CodecTypes
  <2>1. Len(points) <= MaxBatch
    BY <1>1, Scales
  <2> QED BY <1>1, <2>1 DEF CodecTypes, Modes, Point
<1>3. Encoding(mode, points) = <<>>
  <2>1. mode \in Modes /\ points \in Seq(Samples)
    BY <1>2 DEF CodecTypes
  <2>2. Codes(mode, points) \in Seq(Seq(Nat)) /\ Len(Codes(mode, points)) = Len(points)
    BY <2>1, CodesType
  <2>3. Len(points) = 0
    BY <1>1
  <2>4. Joins(Codes(mode, points))[0] = <<>>
    BY <2>2, JoinsRecursion
  <2> QED BY <2>2, <2>3, <2>4 DEF Encoding, Joined
<1>4. BytesKept
  BY <1>1, <1>3 DEF BytesKept
<1>5. DecoderAt
  BY <1>1 DEF DecoderAt
<1>6. DecodingFaithful
  BY <1>1 DEF DecodingFaithful, DecodedPointsAreBatch, NoPointLost
<1> QED BY <1>2, <1>4, <1>5, <1>6 DEF CodecInv

\* A batch is encoded.
LEMMA EncodeInv == CodecInv /\ EncodeBatch => CodecInv'
<1> SUFFICES ASSUME CodecInv, EncodeBatch PROVE CodecInv'
  OBVIOUS
<1>1. PICK m \in Modes, ps \in SeqOf(Samples, MaxBatch), s \in 0 .. MaxSpare :
            mode' = m /\ points' = ps /\ data' = Encoding(m, ps) /\ spare' = s
  BY DEF EncodeBatch, Modes
<1>2. /\ codecPc = "idle" /\ codecPc' = "encoded" /\ cut' = cut /\ decoded' = decoded
      /\ lastDelta' = lastDelta
  BY DEF EncodeBatch
<1>3. CodecTypes /\ cut = 0 /\ decoded = <<>>
  BY <1>2 DEF CodecInv, DecoderAt
<1>4. ps \in Seq(Samples) /\ Len(ps) <= MaxBatch
  <2>1. PICK k \in 0 .. MaxBatch : ps \in [1 .. k -> Samples]
    BY <1>1 DEF SeqOf
  <2>2. k \in Nat /\ k <= MaxBatch
    BY <2>1, EncoderAssumption
  <2>3. ps \in Seq(Samples) /\ Len(ps) = k
    BY <2>1, <2>2, SequenceOf
  <2> QED BY <2>2, <2>3
<1>5. CodecTypes'
  BY <1>1, <1>2, <1>3, <1>4 DEF CodecTypes
<1>6. Encoding(m, ps) \in Seq(Nat)
  <2>1. Codes(m, ps) \in Seq(Seq(Nat)) /\ Len(Codes(m, ps)) \in 0 .. Len(Codes(m, ps))
    BY <1>4, CodesType, LenProperties
  <2> QED BY <2>1, JoinsRecursion DEF Encoding, Joined
<1>7. BytesKept'
  <2> DEFINE w == Encoding(m, ps)
  <2>1. data' = w /\ Encoding(mode', points') = w /\ w \in Seq(Nat) /\ Len(w) \in Nat /\ cut' = 0
    BY <1>1, <1>2, <1>3, <1>6, LenProperties
  <2> HIDE DEF w
  <2> QED BY <2>1 DEF BytesKept
<1>8. DecoderAt' /\ DecodingFaithful'
  BY <1>2, <1>3, <1>4, <1>1, LenProperties
     DEF DecoderAt, DecodingFaithful, DecodedPointsAreBatch, NoPointLost
<1> QED BY <1>5, <1>7, <1>8 DEF CodecInv

\* The last bytes go.
LEMMA TruncateInv == CodecInv /\ Truncate => CodecInv'
<1> SUFFICES ASSUME CodecInv, Truncate PROVE CodecInv'
  OBVIOUS
<1>1. /\ codecPc = "encoded" /\ cut = 0 /\ cut' \in 1 .. Len(data)
      /\ data' = SubSeq(data, 1, Len(data) - cut')
      /\ UNCHANGED <<mode, points, codecPc, decoded, offset, lastDelta>>
  BY DEF Truncate
<1>2. CodecTypes /\ BytesKept /\ decoded = <<>>
  BY <1>1 DEF CodecInv, DecoderAt
<1>3. data \in Seq(Nat) /\ Len(data) \in Nat /\ cut' \in Nat
  BY <1>1, <1>2, LenProperties DEF BytesKept
<1> DEFINE n == Len(data) - cut'
<1>4. n \in Nat /\ n <= Len(data)
  BY <1>1, <1>3
<1>5. data' \in Seq(Nat) /\ Len(data') = n /\ \A j \in 1 .. n : data'[j] = data[j]
  <2> HIDE DEF n
  <2>1. data' = SubSeq(data, 1, n)
    BY <1>1 DEF n
  <2>2. \A i \in 1 .. Len(data) : data[i] \in Nat
    BY <1>3, LenProperties
  <2>3. 1 \in 1 .. Len(data) + 1 /\ n \in 0 .. Len(data)
    BY <1>3, <1>4
  <2>4. /\ SubSeq(data, 1, n) \in Seq(Nat)
        /\ Len(SubSeq(data, 1, n)) = IF 1 <= n THEN n - 1 + 1 ELSE 0
        /\ \A i \in 1 .. n - 1 + 1 : SubSeq(data, 1, n)[i] = data[1 + i - 1]
    BY <1>3, <1>4, <2>2, <2>3, SubSeqProperties
  <2> QED BY <1>4, <2>1, <2>4
<1>6. CodecTypes'
  BY <1>1, <1>2 DEF CodecTypes
<1>7. BytesKept'
  <2>1. /\ Len(data) = Len(Encoding(mode, points)) - cut
        /\ \A j \in 1 .. Len(data) : data[j] = Encoding(mode, points)[j]
    BY <1>2 DEF BytesKept
  <2>2. Len(Encoding(mode, points)) = Len(data)
    <3>1. Len(Encoding(mode, points)) \in Nat
      BY <1>2, WholeLength
    <3> QED BY <1>1, <2>1, <3>1
  <2>3. Encoding(mode', points') = Encoding(mode, points)
    BY <1>1
  <2>4. \A j \in 1 .. n : data'[j] = Encoding(mode, points)[j]
    BY <1>3, <1>4, <1>5, <2>1
  <2> QED BY <1>3, <1>5, <2>2, <2>3, <2>4 DEF BytesKept
<1>8. DecoderAt' /\ DecodingFaithful'
  <2>1. Len(points) \in Nat
    BY <1>2, WholeLength
  <2> QED BY <1>1, <1>2, <2>1 DEF DecoderAt, DecodingFaithful, DecodedPointsAreBatch, NoPointLost
<1> QED BY <1>6, <1>7, <1>8 DEF CodecInv

\* Points that are the first of the batch are as they are to be.
LEMMA SamePoints ==
    ASSUME CodecTypes, NEW ps \in Seq(Point), Len(ps) <= Len(points),
           \A i \in 1 .. Len(ps) : ps[i] = points[i]
    PROVE  \A i \in DOMAIN ps :
              /\ ps[i].time = points[i].time
              /\ Distance(ps[i].value, points[i].value)
                    <= (IF mode = "delta" THEN (i - 1) * Loss ELSE 0)
<1> SUFFICES ASSUME NEW i \in DOMAIN ps
             PROVE  /\ ps[i].time = points[i].time
                    /\ Distance(ps[i].value, points[i].value)
                          <= (IF mode = "delta" THEN (i - 1) * Loss ELSE 0)
  OBVIOUS
<1>1. Loss \in Nat
  BY Scales
<1>2. i \in 1 .. Len(ps) /\ Len(ps) \in Nat /\ Len(points) \in Nat /\ ps[i] = points[i]
  BY LenProperties DEF CodecTypes
<1>3. points[i] \in Samples
  BY <1>2, LenProperties DEF CodecTypes
<1>4. Distance(points[i].value, points[i].value) = 0
  BY <1>3, SampleIs DEF Distance
<1>5. (i - 1) * Loss >= 0
  <2>1. i - 1 \in Nat
    BY <1>2
  <2> DEFINE m == i - 1
  <2> HIDE DEF m
  <2>2. m * Loss \in Nat
    BY <1>1, <2>1 DEF m
  <2> QED BY <2>2 DEF m
<1> QED BY <1>2, <1>4, <1>5

\* The batch and its bytes stay as they are while they are decoded.
LEMMA BatchStays ==
    ASSUME CodecTypes, BytesKept, UNCHANGED <<mode, points, data, cut>>,
           decoded' \in Seq(Point), lastDelta' \in Point
    PROVE  CodecTypes' /\ BytesKept'
<1>1. CodecTypes'
  BY DEF CodecTypes
<1>2. Encoding(mode', points') = Encoding(mode, points)
  OBVIOUS
<1>3. BytesKept'
  BY <1>2 DEF BytesKept
<1> QED BY <1>1, <1>3

\* Points that are the first of the batch are what a decoder may return.
LEMMA FirstPoints ==
    ASSUME CodecTypes, UNCHANGED <<mode, points>>, decoded' \in Seq(Point),
           Len(decoded') <= Len(points), \A i \in 1 .. Len(decoded') : decoded'[i] = points[i]
    PROVE  DecodedPointsAreBatch'
<1>1. \A i \in DOMAIN decoded' :
         /\ decoded'[i].time = points[i].time
         /\ Distance(decoded'[i].value, points[i].value)
               <= (IF mode = "delta" THEN (i - 1) * Loss ELSE 0)
  <2> DEFINE ps == decoded'
  <2>1. ps \in Seq(Point) /\ Len(ps) <= Len(points) /\ \A i \in 1 .. Len(ps) : ps[i] = points[i]
    OBVIOUS
  <2> HIDE DEF ps
  <2>2. \A i \in DOMAIN ps :
          /\ ps[i].time = points[i].time
          /\ Distance(ps[i].value, points[i].value)
                <= (IF mode = "delta" THEN (i - 1) * Loss ELSE 0)
    BY <2>1, SamePoints, Zenon
  <2> QED BY <2>2 DEF ps
<1> QED BY <1>1 DEF DecodedPointsAreBatch

\* The first points of a batch, as far as its format writes them as they are.
LEMMA PlainModes ==
    ASSUME CodecTypes, BytesKept, NEW n \in 0 .. Len(points),
           mode = "raw" \/ (mode = "delta" /\ n <= 1) \/ (mode = "deltadelta" /\ n <= 2)
    PROVE  /\ \A k \in 0 .. n : Len(Buffer(k)) = k * PointBytes
           /\ \A i \in 1 .. n : i * PointBytes <= Len(data) => PointAt((i - 1) * PointBytes) = points[i]
<1>1. Len(points) \in Nat
  BY WholeLength
<1>2. \A i \in 1 .. n : Code(mode, points, i) = PointCode(points[i])
  <2> SUFFICES ASSUME NEW i \in 1 .. n PROVE Code(mode, points, i) = PointCode(points[i])
    OBVIOUS
  <2>1. CASE mode = "raw"
    BY <2>1 DEF Code, RawCode
  <2>2. CASE mode = "delta" /\ n <= 1
    BY <1>1, <2>2 DEF Code, DeltaCode
  <2>3. CASE mode = "deltadelta" /\ n <= 2
    BY <1>1, <2>3 DEF Code, DeltaDeltaCode
  <2> QED BY <2>1, <2>2, <2>3
<1> QED BY <1>2, PlainPoints

\* How many whole points the bytes of raw points hold.
LEMMA WholePoints ==
    ASSUME NEW l \in Nat
    PROVE  /\ PointBytes \in Nat \ {0} /\ l \div PointBytes \in Nat
           /\ (l \div PointBytes) * PointBytes <= l /\ l < (l \div PointBytes + 1) * PointBytes
           /\ \A i \in 1 .. l \div PointBytes : i * PointBytes <= l
<1> DEFINE m == PointBytes
           q == l \div m
           r == l % m
<1>1. m \in Nat \ {0}
  BY Widths DEF PointBytes
<1> HIDE DEF m
<1>2. q \in Int /\ r \in 0 .. m - 1 /\ r = l - m * q
  BY <1>1, Division
<1>3. q \in Nat
  BY <1>1
<1> HIDE DEF q, r
<1>4. q * m = m * q /\ (q + 1) * m = m * q + m /\ m * q \in Nat
  BY <1>1, <1>3
<1>5. q * m <= l /\ l < (q + 1) * m
  BY <1>1, <1>2, <1>4
<1>6. ASSUME NEW i \in 1 .. q PROVE i * m <= l
  <2>1. q * m = i * m + (q - i) * m
    BY <1>1, <1>3
  <2>2. (q - i) * m \in Nat /\ i * m \in Nat
    BY <1>1, <1>3
  <2>3. q * m \in Nat
    BY <1>4
  <2> QED BY <1>5, <2>1, <2>2, <2>3
<1> QED BY <1>1, <1>3, <1>5, <1>6 DEF q, m

\* A longer batch of points has more bytes.
LEMMA FewerPoints ==
    ASSUME NEW q \in Nat, NEW n \in Nat, q * PointBytes <= n * PointBytes
    PROVE  q <= n
<1> DEFINE m == PointBytes
<1>1. m \in Nat \ {0} /\ q * m <= n * m
  BY Widths DEF PointBytes
<1> HIDE DEF m
<1>2. ASSUME q > n PROVE FALSE
  <2>1. q * m = n * m + m + (q - n - 1) * m
    BY <1>1
  <2>2. q - n - 1 \in Nat
    BY <1>2
  <2>3. (q - n - 1) * m \in Nat /\ n * m \in Nat
    BY <1>1, <2>2
  <2> QED BY <1>1, <2>1, <2>3
<1> QED BY <1>2

\* What is decoded of raw points.
LEMMA DecodeRaw ==
    ASSUME CodecInv, DecodeAtOnce, mode = "raw"
    PROVE  decoded' \in Seq(Point) /\ DecodingFaithful'
<1> DEFINE q == Len(data) \div PointBytes
           N == Len(points)
           L == Len(data)
<1>1. /\ CodecTypes /\ BytesKept /\ data \in Seq(Nat)
      /\ UNCHANGED <<mode, points, data, cut, lastDelta>>
      /\ decoded' = [i \in 1 .. q |-> PointAt((i - 1) * PointBytes)]
  BY DEF CodecInv, BytesKept, DecodeAtOnce
<1>2. N \in Nat /\ L \in Nat /\ L <= Len(Buffer(N)) /\ Len(Buffer(N)) \in Nat
  BY <1>1, WholeLength
<1>3. /\ PointBytes \in Nat \ {0} /\ q \in Nat
      /\ q * PointBytes <= L /\ L < (q + 1) * PointBytes
      /\ \A i \in 1 .. q : i * PointBytes <= L
  BY <1>2, WholePoints
<1>4. /\ \A k \in 0 .. N : Len(Buffer(k)) = k * PointBytes
      /\ \A i \in 1 .. N : i * PointBytes <= L => PointAt((i - 1) * PointBytes) = points[i]
  <2>1. N \in 0 .. N
    BY <1>2
  <2> QED BY <1>1, <2>1, PlainModes
<1> HIDE DEF q, N, L
<1>5. q <= N
  <2>1. Len(Buffer(N)) = N * PointBytes
    BY <1>2, <1>4
  <2>2. q * PointBytes <= N * PointBytes
    <3>1. q * PointBytes \in Nat /\ N * PointBytes \in Nat
      BY <1>2, <1>3
    <3> QED BY <1>2, <1>3, <2>1, <3>1
  <2> QED BY <1>2, <1>3, <2>2, FewerPoints
<1>6. decoded' \in Seq(Point) /\ Len(decoded') = q
  <2>1. \A i \in 1 .. q : PointAt((i - 1) * PointBytes) \in Point
    <3> SUFFICES ASSUME NEW i \in 1 .. q PROVE PointAt((i - 1) * PointBytes) \in Point
      OBVIOUS
    <3>1. i - 1 \in Nat /\ PointBytes \in Nat
      BY <1>3
    <3>2. (i - 1) * PointBytes \in Nat
      BY <3>1
    <3> QED BY <1>1, <3>2, PointAtType
  <2>2. decoded' \in [1 .. q -> Point]
    BY <1>1, <2>1
  <2> QED BY <1>3, <2>2, SequenceOf
<1>7. \A i \in 1 .. q : decoded'[i] = points[i]
  <2> SUFFICES ASSUME NEW i \in 1 .. q PROVE decoded'[i] = points[i]
    OBVIOUS
  <2>1. i \in 1 .. N /\ i * PointBytes <= L
    BY <1>2, <1>3, <1>5
  <2>2. PointAt((i - 1) * PointBytes) = points[i]
    BY <1>4, <2>1
  <2> QED BY <1>1, <2>2
<1>8. DecodedPointsAreBatch'
  BY <1>1, <1>5, <1>6, <1>7, FirstPoints DEF N
<1>9. ASSUME q # N
      PROVE  cut' > 0 /\ Len(data') < Len(Encoding(mode', SubSeq(points', 1, q + 1)))
  <2>1. q \in 0 .. N - 1 /\ q + 1 \in 0 .. N
    BY <1>2, <1>3, <1>5, <1>9
  <2>2. L < Len(Buffer(q + 1))
    BY <1>3, <1>4, <2>1
  <2>3. cut > 0 /\ L < Len(Encoding(mode, SubSeq(points, 1, q + 1)))
    BY <1>1, <2>1, <2>2, Missing DEF N, L
  <2> QED BY <1>1, <2>3 DEF L
<1>10. NoPointLost'
  BY <1>1, <1>6, <1>9 DEF NoPointLost, N
<1> QED BY <1>6, <1>8, <1>10 DEF DecodingFaithful

\* Nothing is decoded of too few bytes.
LEMMA DecodeNothing ==
    ASSUME CodecInv, DecodeAtOnce, mode # "raw", Len(data) # 2 * PointBytes \/ mode # "deltadelta"
    PROVE  decoded' \in Seq(Point) /\ DecodingFaithful'
<1> DEFINE N == Len(points)
           L == Len(data)
<1>1. /\ CodecTypes /\ BytesKept
      /\ UNCHANGED <<mode, points, data, cut, lastDelta>>
      /\ decoded' = <<>>
      /\ \/ mode = "delta" /\ L < PointBytes
         \/ mode = "deltadelta" /\ L <= 2 * PointBytes /\ L # 2 * PointBytes
  BY DEF CodecInv, DecodeAtOnce
<1>2. /\ N \in Nat /\ L \in Nat /\ L <= Len(Buffer(N)) /\ Len(Buffer(N)) \in Nat
      /\ cut = 0 => L = Len(Buffer(N))
  BY <1>1, WholeLength
<1>3. PointBytes \in Nat
  BY Widths DEF PointBytes
<1> HIDE DEF N, L
<1>4. decoded' \in Seq(Point) /\ Len(decoded') = 0
  BY <1>1
<1>5. DecodedPointsAreBatch'
  <2>1. \A i \in 1 .. Len(decoded') : decoded'[i] = points[i]
    BY <1>4
  <2> QED BY <1>1, <1>2, <1>4, <2>1, FirstPoints DEF N
<1>6. ASSUME mode = "delta", N # 0
      PROVE  cut' > 0 /\ Len(data') < Len(Encoding(mode', SubSeq(points', 1, 0 + 1)))
  <2>1. 1 \in 0 .. N /\ 0 \in 0 .. N - 1
    BY <1>2, <1>6
  <2>2. Len(Buffer(1)) = 1 * PointBytes
    BY <1>1, <1>6, <2>1, PlainModes DEF N
  <2>3. L < Len(Buffer(0 + 1))
    BY <1>1, <1>3, <1>6, <2>2
  <2>4. cut > 0 /\ L < Len(Encoding(mode, SubSeq(points, 1, 0 + 1)))
    BY <1>1, <2>1, <2>3, Missing DEF N, L
  <2> QED BY <1>1, <2>4 DEF L
<1>7. ASSUME mode = "deltadelta", cut = 0 PROVE N # 2
  <2>1. SUFFICES ASSUME N = 2 PROVE FALSE
    OBVIOUS
  <2>2. 2 \in 0 .. N
    BY <2>1
  <2>3. Len(Buffer(2)) = 2 * PointBytes
    BY <1>1, <1>7, <2>2, PlainModes DEF N
  <2> QED BY <1>1, <1>2, <1>3, <1>7, <2>1, <2>3
<1>8. NoPointLost'
  BY <1>1, <1>4, <1>6, <1>7 DEF NoPointLost, N
<1> QED BY <1>4, <1>5, <1>8 DEF DecodingFaithful

\* Two points are decoded of a batch of two in delta of delta, or of the two first of a
\* longer one.
LEMMA DecodeTwo ==
    ASSUME CodecTypes, BytesKept, mode = "deltadelta", Len(data) >= 2 * PointBytes,
           UNCHANGED <<mode, points, data, cut>>,
           decoded' = <<PointAt(0), PointAt(PointBytes)>>
    PROVE  /\ decoded' \in Seq(Point) /\ Len(decoded') = 2
           /\ Len(data) > 2 * PointBytes => Len(points) >= 3
           /\ DecodingFaithful'
<1> DEFINE N == Len(points)
           L == Len(data)
<1>1. N \in Nat /\ L \in Nat /\ L <= Len(Buffer(N)) /\ Len(Buffer(N)) \in Nat /\ data \in Seq(Nat)
  BY WholeLength DEF BytesKept
<1>2. PointBytes \in Nat \ {0} /\ L >= 2 * PointBytes
  BY Widths DEF PointBytes
<1> HIDE DEF L, N
<1>3. N >= 2
  <2>1. SUFFICES ASSUME N < 2 PROVE FALSE
    BY <1>1
  <2>2. N \in 0 .. N /\ N <= 2
    BY <1>1, <2>1
  <2>3. Len(Buffer(N)) = N * PointBytes
    BY <2>2, PlainModes DEF N
  <2>4. N = 0 \/ N = 1
    BY <1>1, <2>1
  <2>5. CASE N = 0
    BY <1>1, <1>2, <2>3, <2>5
  <2>6. CASE N = 1
    BY <1>1, <1>2, <2>3, <2>6
  <2> QED BY <2>4, <2>5, <2>6
<1>4. 2 \in 0 .. N
  BY <1>1, <1>3
<1>5. /\ Len(Buffer(2)) = 2 * PointBytes
      /\ \A i \in 1 .. 2 : i * PointBytes <= L => PointAt((i - 1) * PointBytes) = points[i]
  BY <1>4, PlainModes DEF N, L
<1>6. L > 2 * PointBytes => N >= 3
  BY <1>1, <1>2, <1>3, <1>5
<1>7. decoded' \in Seq(Point) /\ Len(decoded') = 2
  <2>1. PointAt(0) \in Point /\ PointAt(PointBytes) \in Point
    BY <1>1, <1>2, PointAtType
  <2> QED BY <2>1
<1>8. \A i \in 1 .. 2 : decoded'[i] = points[i]
  <2>1. 1 * PointBytes <= L /\ 2 * PointBytes <= L /\ (1 - 1) * PointBytes = 0 /\ (2 - 1) * PointBytes = PointBytes
    BY <1>1, <1>2
  <2>2. PointAt(0) = points[1] /\ PointAt(PointBytes) = points[2]
    BY <1>5, <2>1
  <2> QED BY <2>2
<1>9. DecodedPointsAreBatch'
  BY <1>1, <1>3, <1>7, <1>8, FirstPoints DEF N
<1>10. NoPointLost'
  BY <1>1, <1>3, <1>7 DEF NoPointLost, N
<1> QED BY <1>6, <1>7, <1>9, <1>10 DEF DecodingFaithful, N, L

\* The decoders that return at once.
LEMMA DecodeAtOnceInv == CodecInv /\ DecodeAtOnce => CodecInv'
<1> SUFFICES ASSUME CodecInv, DecodeAtOnce PROVE CodecInv'
  OBVIOUS
<1>1. /\ CodecTypes /\ BytesKept /\ codecPc' = "returned" /\ lastDelta' \in Point
      /\ UNCHANGED <<mode, points, data, cut>>
  BY DEF CodecInv, CodecTypes, DecodeAtOnce
<1>2. decoded' \in Seq(Point) /\ DecodingFaithful'
  <2>1. CASE mode = "raw"
    BY <2>1, DecodeRaw
  <2>2. CASE mode # "raw" /\ (Len(data) # 2 * PointBytes \/ mode # "deltadelta")
    BY <2>2, DecodeNothing
  <2>3. CASE mode = "deltadelta" /\ Len(data) = 2 * PointBytes
    <3>1. Len(data) \in Nat /\ PointBytes \in Nat \ {0}
      BY <1>1, WholeLength, Widths DEF PointBytes
    <3>2. Len(data) \div PointBytes = 2
      BY <2>3, <3>1, Quotient
    <3>3. decoded' = [i \in 1 .. 2 |-> PointAt((i - 1) * PointBytes)]
      BY <2>3, <3>2 DEF DecodeAtOnce
    <3>4. (1 - 1) * PointBytes = 0 /\ (2 - 1) * PointBytes = PointBytes
      BY <3>1
    <3>5. decoded' = <<PointAt(0), PointAt(PointBytes)>>
      BY <3>3, <3>4
    <3> QED BY <1>1, <2>3, <3>1, <3>5, DecodeTwo
  <2> QED BY <2>1, <2>2, <2>3
<1>3. DecoderAt'
  BY <1>1 DEF DecoderAt
<1> QED BY <1>1, <1>2, <1>3, BatchStays DEF CodecInv

\* The first point of a batch in delta coding.
LEMMA DecodeFirstInv == CodecInv /\ DecodeFirst => CodecInv'
<1> SUFFICES ASSUME CodecInv, DecodeFirst PROVE CodecInv'
  OBVIOUS
<1> DEFINE N == Len(points)
           L == Len(data)
<1>1. /\ CodecTypes /\ BytesKept /\ data \in Seq(Nat)
      /\ codecPc' = "decoding" /\ lastDelta' \in Point
      /\ UNCHANGED <<mode, points, data, cut>>
      /\ mode = "delta" /\ L >= PointBytes /\ decoded' = <<PointAt(0)>> /\ offset' = PointBytes
  BY DEF CodecInv, CodecTypes, BytesKept, DecodeFirst
<1>2. N \in Nat /\ L \in Nat /\ L <= Len(Buffer(N)) /\ Len(Buffer(N)) \in Nat
  BY <1>1, WholeLength
<1>3. PointBytes \in Nat \ {0}
  BY Widths DEF PointBytes
<1> HIDE DEF L, N
<1>4. N >= 1
  <2>1. SUFFICES ASSUME N = 0 PROVE FALSE
    BY <1>2
  <2>2. 0 \in 0 .. N
    BY <1>2
  <2>3. Len(Buffer(0)) = 0 * PointBytes
    BY <1>1, <2>2, PlainModes DEF N
  <2> QED BY <1>1, <1>2, <1>3, <2>1, <2>3
<1>5. /\ Len(Buffer(1)) = 1 * PointBytes
      /\ 1 * PointBytes <= L => PointAt((1 - 1) * PointBytes) = points[1]
  <2>1. 1 \in 0 .. N
    BY <1>2, <1>4
  <2> QED BY <1>1, <2>1, PlainModes DEF N, L
<1>6. decoded' \in Seq(Point) /\ Len(decoded') = 1
  <2>1. PointAt(0) \in Point
    BY <1>1, PointAtType
  <2> QED BY <1>1, <2>1
<1>7. PointAt(0) = points[1]
  <2>1. 1 * PointBytes <= L /\ (1 - 1) * PointBytes = 0
    BY <1>1, <1>3
  <2> QED BY <1>5, <2>1
<1>8. DecodedPointsAreBatch'
  <2>1. \A i \in 1 .. Len(decoded') : decoded'[i] = points[i]
    BY <1>1, <1>6, <1>7
  <2> QED BY <1>1, <1>2, <1>4, <1>6, <2>1, FirstPoints DEF N
<1>9. DecoderAt'
  <2>1. offset' = Len(Buffer(1))
    BY <1>1, <1>3, <1>5
  <2>2. Len(decoded') \in 1 .. N /\ offset' \in Nat /\ offset' <= L
    BY <1>1, <1>2, <1>3, <1>4, <1>6
  <2> QED BY <1>1, <1>6, <2>1, <2>2 DEF DecoderAt, Buffer, N, L
<1>10. NoPointLost'
  BY <1>1 DEF NoPointLost
<1> QED BY <1>1, <1>6, <1>8, <1>9, <1>10, BatchStays DEF CodecInv, DecodingFaithful

\* The two first points of a batch in delta of delta.
LEMMA DecodeBasesInv == CodecInv /\ DecodeBases => CodecInv'
<1> SUFFICES ASSUME CodecInv, DecodeBases PROVE CodecInv'
  OBVIOUS
<1>1. /\ CodecTypes /\ BytesKept /\ data \in Seq(Nat)
      /\ UNCHANGED <<mode, points, data, cut>>
      /\ mode = "deltadelta" /\ Len(data) > 2 * PointBytes
      /\ decoded' = <<PointAt(0), PointAt(PointBytes)>>
  BY DEF CodecInv, BytesKept, DecodeBases
<1>2. WordBytes \in Nat /\ PointBytes \in Nat /\ Fine \in Nat /\ Len(data) \in Nat
  BY <1>1, WholeLength, Widths DEF PointBytes
<1>3. /\ decoded' \in Seq(Point) /\ Len(decoded') = 2 /\ Len(points) >= 3
      /\ DecodingFaithful'
  <2>1. Len(data) >= 2 * PointBytes
    BY <1>1, <1>2
  <2> QED BY <1>1, <2>1, DecodeTwo
<1>4. CASE codecPc' = "decoding" /\ offset' = 3 * PointBytes
           /\ lastDelta' = [time  |-> decodeVarint(Slice(2 * PointBytes, WordBytes)),
                            value |-> FromThousandths(decodeVarint(Slice(2 * PointBytes + WordBytes, WordBytes)))]
  <2> DEFINE t == decodeVarint(Slice(2 * PointBytes, WordBytes))
             v == decodeVarint(Slice(2 * PointBytes + WordBytes, WordBytes))
  <2>1. 2 * PointBytes \in Nat /\ 2 * PointBytes + WordBytes \in Nat /\ 3 * PointBytes \in Nat
    BY <1>2
  <2>2. t \in Int /\ v \in Int
    <3>1. Slice(2 * PointBytes, WordBytes) \in Seq(Nat)
      BY <1>1, <1>2, <2>1, SliceType
    <3>2. Slice(2 * PointBytes + WordBytes, WordBytes) \in Seq(Nat)
      BY <1>1, <1>2, <2>1, SliceType
    <3> QED BY <3>1, <3>2, VarintType
  <2> HIDE DEF t, v
  <2>3. FromThousandths(v) \in Int
    BY <2>2, ThousandthsType
  <2>4. lastDelta' = [time |-> t, value |-> FromThousandths(v)]
    BY <1>4 DEF t, v
  <2>5. lastDelta' \in Point
    BY <2>2, <2>3, <2>4 DEF Point
  <2>6. DecoderAt'
    BY <1>1, <1>3, <1>4, <2>1 DEF DecoderAt
  <2> QED BY <1>1, <1>3, <2>5, <2>6, BatchStays DEF CodecInv
<1>5. CASE codecPc' = "panic" /\ lastDelta' = lastDelta
  <2>1. lastDelta' \in Point
    BY <1>1, <1>5 DEF CodecTypes
  <2>2. DecoderAt'
    BY <1>5 DEF DecoderAt
  <2> QED BY <1>1, <1>3, <2>1, <2>2, BatchStays DEF CodecInv
<1> QED BY <1>4, <1>5 DEF DecodeBases

\* The decoder has an entry ahead of it whose lengths are numbers.
LEMMA EntryLengths ==
    ASSUME data \in Seq(Nat), offset \in Nat, offset < Len(data)
    PROVE  /\ TimeLen \in Nat /\ ValueLen \in Nat
           /\ decodeVarint(Slice(offset + 1, TimeLen)) \in Int
           /\ decodeVarint(Slice(offset + 1 + TimeLen, ValueLen)) \in Int
<1>1. Nibble \in Nat \ {0}
  BY Widths
<1>2. data[offset + 1] \in Nat
  <2>1. Len(data) \in Nat
    BY LenProperties
  <2>2. offset + 1 \in 1 .. Len(data)
    BY <2>1
  <2> QED BY <2>2, LenProperties
<1> DEFINE b == data[offset + 1]
<1>3. b \div Nibble \in Nat /\ b % Nibble \in Nat
  <2> HIDE DEF b
  <2>1. b \in Nat
    BY <1>2 DEF b
  <2> QED BY <1>1, <2>1
<1>4. TimeLen \in Nat /\ ValueLen \in Nat
  BY <1>3 DEF TimeLen, ValueLen
<1>5. offset + 1 \in Nat /\ offset + 1 + TimeLen \in Nat
  BY <1>4
<1>6. Slice(offset + 1, TimeLen) \in Seq(Nat) /\ Slice(offset + 1 + TimeLen, ValueLen) \in Seq(Nat)
  BY <1>4, <1>5, SliceType
<1> QED BY <1>4, <1>6, VarintType

\* The next point of a batch in delta coding: the time is exact, and the value as far off
\* as that of the point before it, by a thousandth more and by five roundings.
LEMMA NextPoint ==
    ASSUME NEW last \in Point, NEW p \in Samples, NEW q \in Samples, NEW k \in Nat \ {0},
           k < MaxBatch, last.time = p.time, Distance(last.value, p.value) <= (k - 1) * Loss
    PROVE  /\ Wrap(last.time + Wrap(q.time - p.time)) = q.time
           /\ Distance(Float(last.value + FromThousandths(Thousandths(Float(q.value - p.value)))),
                        q.value)
                 <= ((k + 1) - 1) * Loss
<1>1. p.time \in Int /\ q.time \in Int64 /\ p.value \in Int /\ q.value \in Int
  BY SampleIs
<1>2. Wrap(last.time + Wrap(q.time - p.time)) = q.time
  BY <1>1, WrapDifference
<1> DEFINE d == q.value - p.value
           e == FromThousandths(Thousandths(Float(d)))
           a == last.value
           b == p.value
           c == q.value
           w == (k - 1) * Loss
           y == Float(a + e)
<1>3. a \in Int /\ d \in Int /\ b \in Int /\ c \in Int /\ d = c - b /\ Distance(a, b) <= w
  BY <1>1 DEF Point
<1>4. - Top <= b /\ b <= Top /\ - Top <= c /\ c <= Top
  <2>1. Distance(b, 0) <= Top /\ Distance(c, 0) <= Top
    BY FloatAssumption
  <2> HIDE DEF b, c
  <2> QED BY <1>3, <2>1, Scales DEF Distance
<1> HIDE DEF a, b, c, d
<1>5. e \in Int /\ e - d \in - (Fine + 4 * Slack) .. Fine + 4 * Slack
  <2>1. - (2 * Top) <= d /\ d <= 2 * Top /\ MaxBatch >= 1
    BY <1>3, <1>4, Scales
  <2> QED BY <1>3, <2>1, DifferenceRead
<1> HIDE DEF e
<1>6. /\ w \in Nat /\ ((k + 1) - 1) * Loss = w + Loss
      /\ Top + w + Loss <= Reach
  <2> DEFINE r == (MaxBatch - k) * Loss
             n == (MaxBatch + 1) * Loss
  <2>1. MaxBatch - k \in Nat /\ k - 1 \in Nat
    BY Scales
  <2>2. w \in Nat /\ r \in Nat /\ ((k + 1) - 1) * Loss = w + Loss /\ n = w + r + 2 * Loss
    BY <2>1, Scales
  <2>3. 2 * Top + n <= Reach
    BY FloatAssumption
  <2> HIDE DEF w, r, n
  <2>4. Top + w + Loss <= Reach
    BY <2>2, <2>3, Scales
  <2> QED BY <2>2, <2>4
<1> HIDE DEF w
<1>f. a - b <= w /\ b - a <= w
  BY <1>3, <1>6 DEF Distance
<1>7. (a + e) - c <= w + Fine + 4 * Slack /\ c - (a + e) <= w + Fine + 4 * Slack /\ a + e \in Int
  BY <1>3, <1>5, <1>6, <1>f, Scales
<1>8. y \in Int /\ y - (a + e) \in - Slack .. Slack
  <2>1. - Reach <= a + e /\ a + e <= Reach
    <3> DEFINE n == a + e
    <3>1. n \in Int /\ n - c <= w + Loss /\ c - n <= w + Loss
      <4>1. n \in Int /\ n - c <= w + Fine + 4 * Slack /\ c - n <= w + Fine + 4 * Slack
        BY <1>7
      <4> HIDE DEF n
      <4> QED BY <1>3, <1>6, <4>1, Scales
    <3> HIDE DEF n
    <3>2. - Reach <= n /\ n <= Reach
      BY <1>3, <1>4, <1>6, <3>1, Scales
    <3> QED BY <3>2 DEF n
  <2> QED BY <1>7, <2>1, FloatNear, FloatType
<1> HIDE DEF y
<1>9. Distance(y, c) <= w + Loss
  <2> DEFINE n == a + e
  <2>1. n \in Int /\ n - c <= w + Fine + 4 * Slack /\ c - n <= w + Fine + 4 * Slack
        /\ y \in Int /\ y - n \in - Slack .. Slack
    <3>1. n \in Int /\ n - c <= w + Fine + 4 * Slack /\ c - n <= w + Fine + 4 * Slack
      BY <1>7
    <3>2. y \in Int /\ y - n \in - Slack .. Slack
      BY <1>8
    <3> QED BY <3>1, <3>2
  <2> HIDE DEF n
  <2>2. y - c <= w + Loss /\ c - y <= w + Loss
    BY <1>3, <1>6, <2>1, Scales
  <2> QED BY <1>3, <2>1, <2>2 DEF Distance
<1> QED BY <1>2, <1>6, <1>9 DEF a, c, d, e, y

\* A point in delta coding, from its entry.
LEMMA DeltaEntryInv == CodecInv /\ DecodeEntry /\ mode = "delta" => CodecInv'
<1> SUFFICES ASSUME CodecInv, DecodeEntry, mode = "delta" PROVE CodecInv'
  OBVIOUS
<1> DEFINE k == Len(decoded)
           N == Len(points)
           a == TimeDelta(points, k + 1)
           b == Thousandths(ValueDelta(points, k + 1))
           t == decodeVarint(Slice(offset + 1, TimeLen))
           v == decodeVarint(Slice(offset + 1 + TimeLen, ValueLen))
           last == decoded[k]
           next == [time |-> Wrap(last.time + t), value |-> Float(last.value + FromThousandths(v))]
<1>1. /\ CodecTypes /\ BytesKept /\ decoded \in Seq(Point) /\ points \in Seq(Samples)
      /\ codecPc = "decoding" /\ codecPc' = codecPc /\ Whole
      /\ UNCHANGED <<mode, points, data, cut>>
      /\ offset' = offset + 1 + TimeLen + ValueLen
      /\ lastDelta' = lastDelta /\ lastDelta' \in Point
      /\ DecodedPointsAreBatch
  BY DEF CodecInv, CodecTypes, DecodingFaithful, DecodeEntry
<1>2. decoded' = Append(decoded, next)
  BY DEF DecodeEntry, Last
<1>3. /\ k \in Nat /\ k >= 1 /\ k < N /\ N \in Nat /\ offset \in Nat
      /\ TimeLen = Len(encodeVarint(a)) /\ ValueLen = Len(encodeVarint(b))
      /\ TimeLen \in Nat /\ ValueLen \in Nat
      /\ Len(Buffer(k + 1)) = offset + 1 + TimeLen + ValueLen
      /\ Slice(offset + 1, TimeLen) = encodeVarint(a)
      /\ Slice(offset + 1 + TimeLen, ValueLen) = encodeVarint(b)
  <2>1. offset < Len(data)
    BY <1>1 DEF Whole
  <2> QED BY <1>1, <2>1, EntryAhead
<1> HIDE DEF k, N
<1>4. k + 1 \in 2 .. N /\ (k + 1) - 1 = k /\ k \in 1 .. N /\ k + 1 \in 1 .. N
  BY <1>3
<1>5. /\ points[k] \in Samples /\ points[k + 1] \in Samples
      /\ a \in Int64 /\ a \in Int /\ b \in Int64
  BY <1>1, <1>4, Differences DEF N
<1>6. a = Wrap(points[k + 1].time - points[k].time)
      /\ b = Thousandths(Float(points[k + 1].value - points[k].value))
  BY <1>4 DEF TimeDelta, ValueDelta
<1>7. t = a /\ v = b
  <2> HIDE DEF a, b
  <2>1. b \in Int
    BY <1>5, WrapSame
  <2> QED BY <1>3, <1>5, <2>1, VarintRead, WrapSame
<1> HIDE DEF a, b, t, v
<1>8. last \in Point
  <2>1. k \in 1 .. Len(decoded)
    BY <1>3 DEF k
  <2> QED BY <1>1, <2>1, LenProperties
<1>9. last.time = points[k].time /\ Distance(last.value, points[k].value) <= (k - 1) * Loss
  <2>1. k \in DOMAIN decoded
    BY <1>1, <1>3, LenProperties DEF k
  <2> QED BY <1>1, <2>1 DEF DecodedPointsAreBatch
<1> HIDE DEF last
<1>10. /\ next.time = points[k + 1].time
       /\ Distance(next.value, points[k + 1].value) <= ((k + 1) - 1) * Loss
  <2>1. k \in Nat \ {0} /\ k < MaxBatch
    <3>1. N <= MaxBatch
      BY <1>1 DEF CodecTypes, N
    <3> QED BY <1>3, <3>1, Scales
  <2>2. /\ Wrap(last.time + a) = points[k + 1].time
        /\ Distance(Float(last.value + FromThousandths(b)), points[k + 1].value)
              <= ((k + 1) - 1) * Loss
    BY <1>5, <1>6, <1>8, <1>9, <2>1, NextPoint
  <2> QED BY <1>7, <2>2
<1>11. next \in Point
  <2>1. v \in Int /\ a \in Int /\ FromThousandths(v) \in Int
    BY <1>5, <1>7, WrapSame, ThousandthsType
  <2>2. last.time \in Int /\ last.value \in Int
    BY <1>8 DEF Point
  <2>3. last.time + a \in Int /\ last.value + FromThousandths(v) \in Int
    BY <2>1, <2>2
  <2>4. Wrap(last.time + a) \in Int /\ Float(last.value + FromThousandths(v)) \in Int
    BY <2>3, WrapResult, FloatType
  <2> QED BY <1>7, <2>4 DEF Point
<1> HIDE DEF next
<1>12. /\ decoded' \in Seq(Point) /\ Len(decoded') = k + 1
       /\ decoded'[k + 1] = next /\ \A i \in 1 .. k : decoded'[i] = decoded[i]
  BY <1>1, <1>2, <1>11, AppendProperties DEF k
<1>13. DecodedPointsAreBatch'
  <2>1. ASSUME NEW i \in DOMAIN decoded'
        PROVE  /\ decoded'[i].time = points[i].time
               /\ Distance(decoded'[i].value, points[i].value) <= (i - 1) * Loss
    <3>1. i \in 1 .. k + 1
      BY <1>12, <2>1, LenProperties
    <3>2. CASE i = k + 1
      BY <1>10, <1>12, <3>2
    <3>3. CASE i \in 1 .. k
      <4>1. i \in DOMAIN decoded
        BY <1>1, <3>3, LenProperties DEF k
      <4> QED BY <1>1, <1>12, <3>3, <4>1 DEF DecodedPointsAreBatch
    <3> QED BY <1>3, <3>1, <3>2, <3>3
  <2>2. Len(decoded') <= Len(points)
    BY <1>3, <1>12 DEF N
  <2> QED BY <1>1, <2>1, <2>2 DEF DecodedPointsAreBatch
<1>14. DecoderAt'
  <2>1. offset' = Len(Buffer(k + 1)) /\ offset' \in Nat /\ offset' <= Len(data)
    BY <1>1, <1>3 DEF Whole
  <2>2. Len(decoded') \in 1 .. N
    BY <1>4, <1>12
  <2> QED BY <1>1, <1>12, <2>1, <2>2 DEF DecoderAt, Buffer, N
<1>15. NoPointLost'
  BY <1>1 DEF NoPointLost
<1> QED BY <1>1, <1>12, <1>13, <1>14, <1>15, BatchStays DEF CodecInv, DecodingFaithful

\* A point in delta of delta, whatever it comes to: the two first stay as they are.
LEMMA DeltaDeltaEntryInv == CodecInv /\ DecodeEntry /\ mode # "delta" => CodecInv'
<1> SUFFICES ASSUME CodecInv, DecodeEntry, mode # "delta" PROVE CodecInv'
  OBVIOUS
<1> DEFINE k == Len(decoded)
           t == decodeVarint(Slice(offset + 1, TimeLen))
           v == decodeVarint(Slice(offset + 1 + TimeLen, ValueLen))
           delta == [time |-> Wrap(lastDelta.time + t),
                     value |-> Float(lastDelta.value + FromThousandths(v))]
           last == decoded[k]
           next == [time |-> Wrap(last.time + delta.time), value |-> Float(last.value + delta.value)]
<1>1. /\ CodecTypes /\ BytesKept /\ decoded \in Seq(Point) /\ lastDelta \in Point
      /\ data \in Seq(Nat)
      /\ codecPc = "decoding" /\ codecPc' = codecPc /\ Whole
      /\ UNCHANGED <<mode, points, data, cut>>
      /\ offset' = offset + 1 + TimeLen + ValueLen
      /\ DecodedPointsAreBatch
  BY DEF CodecInv, CodecTypes, BytesKept, DecodingFaithful, DecodeEntry
<1>2. mode = "deltadelta" /\ offset \in Nat /\ k >= 2 /\ Len(points) >= 3 /\ k \in Nat
  BY <1>1, LenProperties DEF CodecInv, DecoderAt
<1>3. decoded' = Append(decoded, next) /\ lastDelta' = delta
  BY <1>2 DEF DecodeEntry, Last
<1>4. TimeLen \in Nat /\ ValueLen \in Nat /\ t \in Int /\ v \in Int
  <2>1. offset < Len(data)
    BY <1>1 DEF Whole
  <2> QED BY <1>1, <1>2, <2>1, EntryLengths
<1> HIDE DEF t, v
<1>5. delta \in Point
  <2>1. FromThousandths(v) \in Int /\ lastDelta.time \in Int /\ lastDelta.value \in Int
    BY <1>1, <1>4, ThousandthsType DEF Point
  <2>2. lastDelta.time + t \in Int /\ lastDelta.value + FromThousandths(v) \in Int
    BY <1>4, <2>1
  <2>3. Wrap(lastDelta.time + t) \in Int /\ Float(lastDelta.value + FromThousandths(v)) \in Int
    BY <2>2, WrapResult, FloatType
  <2> QED BY <2>3 DEF Point
<1>6. last \in Point
  <2>1. k \in 1 .. Len(decoded)
    BY <1>2
  <2> QED BY <1>1, <2>1, LenProperties
<1> HIDE DEF delta, last, k
<1>7. next \in Point
  <2>1. last.time + delta.time \in Int /\ last.value + delta.value \in Int
    BY <1>5, <1>6 DEF Point
  <2>2. Wrap(last.time + delta.time) \in Int /\ Float(last.value + delta.value) \in Int
    BY <2>1, WrapResult, FloatType
  <2> QED BY <2>2 DEF Point
<1> HIDE DEF next
<1>8. /\ decoded' \in Seq(Point) /\ Len(decoded') = k + 1
      /\ \A i \in 1 .. k : decoded'[i] = decoded[i]
  BY <1>1, <1>3, <1>7, AppendProperties DEF k
<1>9. DecodedPointsAreBatch'
  <2>1. ASSUME NEW i \in DOMAIN decoded', i <= 2
        PROVE  /\ decoded'[i].time = points[i].time
               /\ Distance(decoded'[i].value, points[i].value) <= 0
    <3>1. i \in 1 .. k
      BY <1>2, <1>8, <2>1, LenProperties
    <3>2. i \in DOMAIN decoded
      BY <1>1, <3>1, LenProperties DEF k
    <3> QED BY <1>1, <1>2, <1>8, <2>1, <3>1, <3>2 DEF DecodedPointsAreBatch
  <2> QED BY <1>1, <1>2, <2>1 DEF DecodedPointsAreBatch
<1>10. DecoderAt'
  BY <1>1, <1>2, <1>4, <1>8 DEF DecoderAt
<1>11. NoPointLost'
  BY <1>1 DEF NoPointLost
<1>12. lastDelta' \in Point
  BY <1>3, <1>5
<1> QED BY <1>1, <1>8, <1>9, <1>10, <1>11, <1>12, BatchStays DEF CodecInv, DecodingFaithful

\* The decoder ends.
LEMMA DecodeEndInv == CodecInv /\ DecodeEnd => CodecInv'
<1> SUFFICES ASSUME CodecInv, DecodeEnd PROVE CodecInv'
  OBVIOUS
<1> DEFINE k == Len(decoded)
           N == Len(points)
           L == Len(data)
<1>1. /\ CodecTypes /\ BytesKept /\ codecPc = "decoding" /\ codecPc' = "returned" /\ ~ Whole
      /\ UNCHANGED <<mode, points, data, cut, decoded, lastDelta>>
      /\ decoded' \in Seq(Point) /\ lastDelta' \in Point
      /\ DecodedPointsAreBatch
  BY DEF CodecInv, CodecTypes, DecodingFaithful, DecodeEnd
<1>2. N \in Nat /\ L \in Nat /\ L <= Len(Buffer(N)) /\ Len(Buffer(N)) \in Nat
  BY <1>1, WholeLength
<1>3. DecodedPointsAreBatch'
  BY <1>1 DEF DecodedPointsAreBatch
<1>4. CASE mode = "deltadelta"
  <2>1. N >= 3
    BY <1>1, <1>4 DEF CodecInv, DecoderAt
  <2>2. ~ (N \in {0, 2})
    <3> HIDE DEF N
    <3> QED BY <1>2, <2>1
  <2>3. NoPointLost'
    BY <1>1, <1>4, <2>2 DEF NoPointLost
  <2>4. DecoderAt'
    BY <1>1 DEF DecoderAt
  <2> QED BY <1>1, <1>3, <2>3, <2>4, BatchStays DEF CodecInv, DecodingFaithful
<1>5. CASE mode = "delta"
  <2>1. /\ k \in 1 .. N /\ offset = Len(Buffer(k)) /\ offset \in Nat /\ offset <= L
    BY <1>1, <1>5 DEF CodecInv, DecoderAt
  <2>2. ASSUME k # N
        PROVE  cut > 0 /\ L < Len(Encoding(mode, SubSeq(points, 1, k + 1)))
    <3>1. k \in 0 .. N - 1 /\ k + 1 \in 1 .. N
      BY <1>2, <2>1, <2>2
    <3>2. L < Len(Buffer(k + 1))
      <4>1. CASE offset < L
        <5>1. /\ Len(Buffer(k + 1)) = offset + 1 + TimeLen + ValueLen
              /\ TimeLen \in Nat /\ ValueLen \in Nat
          BY <1>1, <1>5, <4>1, EntryAhead
        <5> QED BY <1>1, <1>2, <2>1, <4>1, <5>1 DEF Whole
      <4>2. CASE offset = L
        <5>1. /\ Len(Buffer(k + 1)) = Len(Buffer((k + 1) - 1)) + Len(Code(mode, points, k + 1))
              /\ Len(Code(mode, points, k + 1)) \in Nat /\ Len(Code(mode, points, k + 1)) >= 1
          BY <1>1, <3>1, PlaceOf
        <5>2. (k + 1) - 1 = k
          BY <3>1
        <5> DEFINE b == Len(Buffer(k + 1))
                   c == Len(Code(mode, points, k + 1))
        <5>3. b = offset + c /\ c \in Nat /\ c >= 1
          BY <2>1, <5>1, <5>2
        <5> HIDE DEF b, c, k, L
        <5>4. L < b
          BY <1>2, <4>2, <5>3
        <5> QED BY <5>4 DEF b
      <4> QED BY <1>2, <2>1, <4>1, <4>2
    <3> QED BY <1>1, <3>1, <3>2, Missing
  <2>3. NoPointLost'
    BY <1>1, <2>2 DEF NoPointLost
  <2>4. DecoderAt'
    BY <1>1 DEF DecoderAt
  <2> QED BY <1>1, <1>3, <2>3, <2>4, BatchStays DEF CodecInv, DecodingFaithful
<1> QED BY <1>1, <1>4, <1>5 DEF CodecInv, DecoderAt

\* Every step of the coders keeps the invariant.
LEMMA CodecStepInv == CodecInv /\ [CodecNext]_codecVars => CodecInv'
<1> SUFFICES ASSUME CodecInv, [CodecNext]_codecVars PROVE CodecInv'
  OBVIOUS
<1>1. CASE EncodeBatch
  BY <1>1, EncodeInv
<1>2. CASE Truncate
  BY <1>2, TruncateInv
<1>3. CASE DecodeAtOnce
  BY <1>3, DecodeAtOnceInv
<1>4. CASE DecodeFirst
  BY <1>4, DecodeFirstInv
<1>5. CASE DecodeBases
  BY <1>5, DecodeBasesInv
<1>6. CASE DecodeEntry
  BY <1>6, DeltaEntryInv, DeltaDeltaEntryInv
<1>7. CASE DecodeEnd
  BY <1>7, DecodeEndInv
<1>8. CASE UNCHANGED codecVars
  <2>1. UNCHANGED <<mode, points, data, cut, codecPc, decoded, offset, lastDelta>>
    BY <1>8 DEF codecVars
  <2>2. CodecTypes' /\ BytesKept'
    BY <2>1, BatchStays DEF CodecInv, CodecTypes
  <2>3. DecoderAt'
    BY <2>1 DEF CodecInv, DecoderAt, Buffer
  <2>4. DecodingFaithful'
    BY <2>1 DEF CodecInv, DecodingFaithful, DecodedPointsAreBatch, NoPointLost
  <2> QED BY <2>2, <2>3, <2>4 DEF CodecInv
<1> QED BY <1>1, <1>2, <1>3, <1>4, <1>5, <1>6, <1>7, <1>8 DEF CodecNext

\* What the decoders of encoder.go give back is the batch, whole or up to the bytes that
\* are missing: raw points as they were, the times of delta coding exactly although their
\* differences wrap around, its values off by less than a thousandth for each point before,
\* and of delta of delta the batches of two points.
THEOREM DecodingIsFaithful == CodecSpec => []DecodingFaithful
<1>1. CodecInv => DecodingFaithful
  BY DEF CodecInv
<1> QED BY <1>1, CodecInitInv, CodecStepInv, PTL DEF CodecSpec

=============================================================================
