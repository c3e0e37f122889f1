------------------------------ MODULE ProofFacts ------------------------------
(***************************************************************************)
(* Facts that the proofs of several modules need and the library does not  *)
(* state: induction, which it has only for operators as parameters, is     *)
(* done here over sets of naturals; then division, what FlattenSeq and     *)
(* FoldLeft make of one element more, and concatenations, prefixes and the *)
(* parts of a sequence.                                                    *)
(***************************************************************************)
EXTENDS Integers, SequencesExt, SequenceTheorems, TLAPS

WellFounded == INSTANCE WellFoundedInduction

----------------------------------------------------------------------------
(* Induction *)

LEMMA Ordered ==
  ASSUME NEW x \in Nat, NEW y \in Nat, x < y
  PROVE  <<x, y>> \in WellFounded!OpToRel(<, Nat)
<1> DEFINE R == {p \in Nat \X Nat : p[1] < p[2]}
<1>1. R = WellFounded!OpToRel(<, Nat)
  BY Zenon DEF WellFounded!OpToRel
<1> HIDE DEF R
<1>2. <<x, y>> \in R
  BY DEF R
<1> QED BY <1>1, <1>2, Zenon

\* A set of naturals that is not empty has a least element.
LEMMA LeastElement ==
  ASSUME NEW T, T \subseteq Nat, T # {}
  PROVE  \E x \in T : \A y \in T : x <= y
<1> DEFINE R == WellFounded!OpToRel(<, Nat)
<1>1. WellFounded!IsWellFoundedOn(R, Nat)
  BY WellFounded!NatLessThanWellFounded
<1>2. \A x, y \in Nat : x < y => <<x, y>> \in R
  BY Ordered
<1> HIDE DEF R
<1>3. PICK x \in T : \A y \in T : <<y, x>> \notin R
  BY <1>1, WellFounded!WFMin
<1>4. ASSUME NEW y \in T PROVE x <= y
  <2>1. x \in Nat /\ y \in Nat
    OBVIOUS
  <2>2. <<y, x>> \notin R
    BY <1>3
  <2>3. ~(y < x)
    BY <1>2, <2>1, <2>2
  <2> QED BY <2>1, <2>3
<1> QED BY <1>4

\* A set with 0 and the successor of each of its naturals has all of them.
LEMMA Induction ==
  ASSUME NEW S, 0 \in S, \A n \in Nat : n \in S => n + 1 \in S
  PROVE  Nat \subseteq S
<1> DEFINE T == {n \in Nat : n \notin S}
<1> SUFFICES ASSUME T # {} PROVE FALSE
  OBVIOUS
<1>1. PICK x \in T : \A y \in T : x <= y
  BY LeastElement
<1>2. x # 0 /\ x - 1 \in Nat /\ x \in Nat
  BY <1>1
<1> QED BY <1>1, <1>2

----------------------------------------------------------------------------
(* Division *)

LEMMA DivMod ==
  ASSUME NEW n \in Int, NEW d \in Nat \ {0}
  PROVE  n \div d \in Int /\ n % d \in 0 .. d - 1 /\ n = d * (n \div d) + (n % d)
OBVIOUS

\* A product of a quotient, without the quotient.
LEMMA QuotientFacts ==
  ASSUME NEW n \in Nat, NEW d \in Nat \ {0}
  PROVE  /\ n \div d \in Nat
         /\ (n \div d) * d <= n
         /\ n < ((n \div d) + 1) * d
<1> DEFINE q == n \div d
           r == n % d
<1>1. q \in Int /\ r \in 0 .. d - 1 /\ n = d * q + r
  OBVIOUS
<1>2. q >= 0
  OBVIOUS
<1>3. d * q = q * d /\ (q + 1) * d = q * d + d
  BY <1>1
<1> HIDE DEF q, r
<1> QED BY <1>1, <1>2, <1>3 DEF q

\* The quotient is the only number with that property.
LEMMA QuotientIs ==
  ASSUME NEW n \in Int, NEW d \in Nat \ {0}, NEW q \in Int, q * d <= n, n < (q + 1) * d
  PROVE  n \div d = q
<1> DEFINE k == n \div d
           r == n % d
<1>1. k \in Int /\ r \in 0 .. d - 1 /\ n = d * k + r
  OBVIOUS
<1>2. d * k = k * d /\ (q + 1) * d = q * d + d /\ (k + 1) * d = k * d + d
      /\ k * d \in Int /\ q * d \in Int
  BY <1>1
<1> HIDE DEF k, r
<1>3. k * d <= n /\ n < k * d + d
  BY <1>1, <1>2
<1>4. ~(k < q)
  <2> SUFFICES ASSUME k < q PROVE FALSE
    OBVIOUS
  <2>1. k + 1 <= q
    BY <1>1
  <2>2. (k + 1) * d <= q * d
    BY <1>1, <2>1
  <2> QED BY <1>2, <1>3, <2>2
<1>5. ~(q < k)
  <2> SUFFICES ASSUME q < k PROVE FALSE
    OBVIOUS
  <2>1. q + 1 <= k
    BY <1>1
  <2>2. (q + 1) * d <= k * d
    BY <1>1, <2>1
  <2> QED BY <1>2, <1>3, <2>2
<1> QED BY <1>1, <1>4, <1>5 DEF k

\* What lies between two multiples of d has its quotient between the factors.
LEMMA QuotientBetween ==
  ASSUME NEW n \in Nat, NEW d \in Nat \ {0}, NEW from \in Nat, NEW end \in Nat,
         n >= from * d, n < end * d
  PROVE  n \div d >= from /\ n \div d < end
<1> DEFINE q == n \div d
<1>1. q \in Nat /\ q * d <= n /\ n < (q + 1) * d
  BY QuotientFacts
<1> HIDE DEF q
<1>2. q * d \in Int /\ (q + 1) * d \in Int /\ from * d \in Int /\ end * d \in Int
  BY <1>1
<1>3. ~(q < from)
  <2> SUFFICES ASSUME q < from PROVE FALSE
    OBVIOUS
  <2>1. (q + 1) * d <= from * d
    BY <1>1
  <2> QED BY <1>1, <1>2, <2>1
<1>4. ~(end <= q)
  <2> SUFFICES ASSUME end <= q PROVE FALSE
    OBVIOUS
  <2>1. end * d <= q * d
    BY <1>1
  <2> QED BY <1>1, <1>2, <2>1
<1> QED BY <1>1, <1>3, <1>4 DEF q

\* A word of two digits to the base b gives them back.
LEMMA TwoDigits ==
  ASSUME NEW b \in Nat \ {0}, NEW x \in 0 .. b - 1, NEW y \in 0 .. b - 1
  PROVE  /\ x + b * y \in 0 .. b * b - 1
         /\ (x + b * y) % b = x
         /\ (x + b * y) \div b = y
<1> DEFINE w == x + b * y
<1>1. b * y \in Nat /\ y * b = b * y /\ (y + 1) * b = b * y + b /\ b * b \in Nat
  OBVIOUS
<1>2. b * y <= b * (b - 1) /\ b * (b - 1) = b * b - b
  OBVIOUS
<1>3. w \in 0 .. b * b - 1
  BY <1>1, <1>2
<1>4. w \div b = y
  <2>1. y * b <= w /\ w < (y + 1) * b /\ w \in Int /\ y \in Int
    BY <1>1
  <2> HIDE DEF w
  <2> QED BY <2>1, QuotientIs
<1>5. w % b = x
  <2>1. w \in Int
    BY <1>1
  <2>2. w = b * (w \div b) + (w % b) /\ w % b \in Int
    <3> HIDE DEF w
    <3> QED BY <2>1, DivMod
  <2>3. w = b * y + x
    BY <1>1
  <2>4. w = b * y + (w % b)
    BY <1>4, <2>2
  <2> HIDE DEF w
  <2> QED BY <1>1, <2>2, <2>3, <2>4
<1> QED BY <1>3, <1>4, <1>5

LEMMA OneDigit ==
  ASSUME NEW b \in Nat \ {0}, NEW x \in 0 .. b - 1
  PROVE  x % b = x /\ x \div b = 0
<1>1. 0 \in 0 .. b - 1 /\ x + b * 0 = x
  OBVIOUS
<1>2. (x + b * 0) % b = x /\ (x + b * 0) \div b = 0
  BY <1>1, TwoDigits
<1> QED BY <1>1, <1>2

\* The digits of a word are digits, and make up the word.
LEMMA DigitsOf ==
  ASSUME NEW b \in Nat \ {0}, NEW w \in 0 .. b * b - 1
  PROVE  /\ w % b \in 0 .. b - 1
         /\ w \div b \in 0 .. b - 1
         /\ (w % b) + b * (w \div b) = w
<1> DEFINE q == w \div b
<1>1. b * b \in Nat /\ w \in Nat
  OBVIOUS
<1>2. w % b \in 0 .. b - 1 /\ w = b * q + (w % b)
  BY <1>1, DivMod
<1>3. q \in Nat /\ q * b <= w
  BY <1>1, QuotientFacts
<1> HIDE DEF q
<1>4. ~(q >= b)
  <2> SUFFICES ASSUME q >= b PROVE FALSE
    OBVIOUS
  <2>1. q * b >= b * b
    BY <1>3
  <2> QED BY <1>1, <1>3, <2>1
<1>5. q \in 0 .. b - 1
  BY <1>3, <1>4
<1>6. b * q \in Int
  BY <1>3
<1>7. (w % b) + b * q = w
  BY <1>2, <1>6
<1> QED BY <1>2, <1>5, <1>7 DEF q

----------------------------------------------------------------------------
(* FlattenSeq *)

\* A name for the concatenation: the provers match what has a name of its own.
Cat(a, b) == a \o b

LEMMA CatInSeq ==
  ASSUME NEW S, NEW a \in Seq(S), NEW b \in Seq(S)
  PROVE  Cat(a, b) \in Seq(S) /\ Len(Cat(a, b)) = Len(a) + Len(b)
BY ConcatProperties DEF Cat

LEMMA CatAssociative ==
  ASSUME NEW S, NEW a \in Seq(S), NEW b \in Seq(S), NEW c \in Seq(S)
  PROVE  Cat(Cat(a, b), c) = Cat(a, Cat(b, c))
BY ConcatAssociative DEF Cat

\* What the recursive function inside FlattenSeq is
Flattens(f, s, m) == f = [i \in 1 .. m |-> IF i = 1 THEN s[i] ELSE Cat(f[i - 1], s[i])]

LEMMA FlattensStep ==
  ASSUME NEW s, NEW m \in Nat, NEW f, Flattens(f, s, m), NEW i \in 1 .. m
  PROVE  f[i] = IF i = 1 THEN s[i] ELSE Cat(f[i - 1], s[i])
<1> DEFINE body(j) == IF j = 1 THEN s[j] ELSE Cat(f[j - 1], s[j])
<1>1. f = [j \in 1 .. m |-> body(j)]
  BY DEF Flattens
<1> HIDE DEF body
<1>2. f[i] = body(i)
  BY <1>1
<1> QED BY <1>2 DEF body

LEMMA FlattensExists ==
  ASSUME NEW s
  PROVE  \A m \in Nat : \E f : Flattens(f, s, m)
<1> DEFINE S == {m \in Nat : \E f : Flattens(f, s, m)}
<1>1. 0 \in S
  <2>1. Flattens([i \in {} |-> 0], s, 0)
    BY DEF Flattens
  <2> QED BY <2>1
<1>2. ASSUME NEW m \in Nat, m \in S PROVE m + 1 \in S
  <2>1. PICK f : Flattens(f, s, m)
    BY <1>2
  <2> DEFINE g == [i \in 1 .. m + 1 |->
                     IF i <= m THEN f[i] ELSE IF i = 1 THEN s[i] ELSE Cat(f[i - 1], s[i])]
  <2>2. ASSUME NEW i \in 1 .. m + 1
        PROVE  g[i] = IF i = 1 THEN s[i] ELSE Cat(g[i - 1], s[i])
    <3>1. i <= m => g[i] = IF i = 1 THEN s[i] ELSE Cat(f[i - 1], s[i])
      BY <2>1, FlattensStep
    <3>2. i # 1 => g[i - 1] = f[i - 1]
      OBVIOUS
    <3> QED BY <3>1, <3>2
  <2>3. g = [i \in 1 .. m + 1 |-> g[i]]
    OBVIOUS
  <2>4. g = [i \in 1 .. m + 1 |-> IF i = 1 THEN s[i] ELSE Cat(g[i - 1], s[i])]
    <3> HIDE DEF g
    <3> QED BY <2>2, <2>3
  <2>5. Flattens(g, s, m + 1)
    BY <2>4 DEF Flattens
  <2> QED BY <2>5
<1> HIDE DEF S
<1>3. Nat \subseteq S
  BY <1>1, <1>2, Induction
<1> QED BY <1>3 DEF S

SameUpTo(s, t, n) == \A i \in 1 .. n : s[i] = t[i]

\* It depends on the part of s it has gone through only.
LEMMA FlattensAgree ==
  ASSUME NEW s, NEW t, NEW m \in Nat, NEW k \in Nat, NEW f, NEW g,
         Flattens(f, s, m), Flattens(g, t, k), m <= k, SameUpTo(s, t, m)
  PROVE  SameUpTo(f, g, m)
<1> USE DEF SameUpTo
<1> DEFINE S == {i \in Nat : i \in 1 .. m => f[i] = g[i]}
<1>1. 0 \in S
  OBVIOUS
<1>2. ASSUME NEW i \in Nat, i \in S PROVE i + 1 \in S
  <2> SUFFICES ASSUME i + 1 \in 1 .. m PROVE f[i + 1] = g[i + 1]
    OBVIOUS
  <2>1. f[i + 1] = IF i + 1 = 1 THEN s[i + 1] ELSE Cat(f[i + 1 - 1], s[i + 1])
    BY FlattensStep
  <2>2. g[i + 1] = IF i + 1 = 1 THEN t[i + 1] ELSE Cat(g[i + 1 - 1], t[i + 1])
    <3>1. i + 1 \in 1 .. k
      OBVIOUS
    <3> QED BY <3>1, FlattensStep
  <2>3. i + 1 - 1 = i /\ (i + 1 # 1 => i \in 1 .. m)
    OBVIOUS
  <2> QED BY <1>2, <2>1, <2>2, <2>3
<1> HIDE DEF S
<1>3. Nat \subseteq S
  BY <1>1, <1>2, Induction
<1> QED BY <1>3 DEF S

LEMMA FlattenIs ==
  ASSUME NEW s, Len(s) \in Nat, Len(s) # 0
  PROVE  \E f : Flattens(f, s, Len(s)) /\ FlattenSeq(s) = f[Len(s)]
<1> DEFINE f == CHOOSE g : Flattens(g, s, Len(s))
<1>1. FlattenSeq(s) = f[Len(s)]
  BY Zenon DEF FlattenSeq, Flattens, Cat
<1>2. Flattens(f, s, Len(s))
  BY FlattensExists, Zenon
<1> QED BY <1>1, <1>2

\* The last of the values, for a sequence that is one longer
LEMMA FlattensLast ==
  ASSUME NEW s, NEW t, NEW n \in Nat, NEW k, k = n + 1, NEW f, NEW g,
         Flattens(f, s, n), Flattens(g, t, k), SameUpTo(s, t, n)
  PROVE  g[k] = IF n = 0 THEN t[k] ELSE Cat(f[n], t[k])
<1>1. k \in Nat /\ k \in 1 .. k /\ n <= k /\ k - 1 = n /\ (k = 1 <=> n = 0)
  OBVIOUS
<1>2. g[k] = IF k = 1 THEN t[k] ELSE Cat(g[k - 1], t[k])
  BY <1>1, FlattensStep
<1>3. SameUpTo(f, g, n)
  BY <1>1, FlattensAgree
<1>4. n # 0 => n \in 1 .. n
  OBVIOUS
<1> QED BY <1>1, <1>2, <1>3, <1>4 DEF SameUpTo

\* Nothing flattens to nothing, and one more sequence is put at the end.
LEMMA FlattenEmpty == FlattenSeq(<<>>) = <<>>
BY DEF FlattenSeq

LEMMA FlattenAppend ==
  ASSUME NEW S, NEW s \in Seq(S), NEW e \in S
  PROVE  FlattenSeq(Append(s, e)) = IF s = <<>> THEN e ELSE FlattenSeq(s) \o e
<1>1. PICK n \in Nat : n = Len(s)
  BY LenProperties
<1>2. PICK t : t = Append(s, e)
  OBVIOUS
<1>3. PICK k \in Nat : k = Len(t) /\ k = n + 1
  BY <1>1, <1>2, AppendProperties
<1>4. t[k] = e /\ SameUpTo(s, t, n) /\ (s = <<>> <=> n = 0)
  BY <1>1, <1>2, <1>3, AppendProperties, EmptySeq DEF SameUpTo
<1>5. PICK g : Flattens(g, t, k) /\ FlattenSeq(t) = g[k]
  <2>1. Len(t) \in Nat /\ Len(t) # 0
    BY <1>3
  <2>2. \E g : Flattens(g, t, Len(t)) /\ FlattenSeq(t) = g[Len(t)]
    BY <2>1, FlattenIs
  <2> QED BY <1>3, <2>2
<1>6. PICK f : Flattens(f, s, n) /\ (n # 0 => FlattenSeq(s) = f[n])
  BY <1>1, FlattenIs, FlattensExists
<1>7. g[k] = IF n = 0 THEN t[k] ELSE Cat(f[n], t[k])
  <2>1. k = n + 1 /\ SameUpTo(s, t, n)
    BY <1>3, <1>4
  <2>2. Flattens(f, s, n) /\ Flattens(g, t, k)
    BY <1>5, <1>6
  <2> QED BY <2>1, <2>2, FlattensLast
<1> QED BY <1>2, <1>4, <1>5, <1>6, <1>7 DEF Cat

----------------------------------------------------------------------------
(* FoldLeft *)

LEMMA MaxIs ==
  ASSUME NEW T, T \subseteq Nat, NEW x \in T, \A y \in T : y <= x
  PROVE  Max(T) = x
<1>1. \A y \in T : x >= y
  OBVIOUS
<1>2. ASSUME NEW z \in T, \A y \in T : z >= y PROVE z = x
  BY <1>2
<1> QED BY <1>1, <1>2 DEF Max

LEMMA MaxIn ==
  ASSUME NEW n \in Nat, NEW T, T \subseteq 1 .. n, T # {}
  PROVE  Max(T) \in T
<1> DEFINE U == {x \in 0 .. n : n - x \in T}
<1>1. U \subseteq Nat /\ U # {}
  <2>1. PICK y \in T : TRUE
    OBVIOUS
  <2>2. y \in 1 .. n
    BY <2>1
  <2>3. PICK z \in 0 .. n : n - z = y
    <3>1. n - y \in 0 .. n /\ n - (n - y) = y
      BY <2>2
    <3> QED BY <3>1
  <2>4. z \in U
    BY <2>1, <2>3
  <2> QED BY <2>4
<1>2. PICK u \in U : \A y \in U : u <= y
  BY <1>1, LeastElement
<1>3. n - u \in T
  BY <1>2
<1>4. \A y \in T : y <= n - u
  <2>1. ASSUME NEW y \in T PROVE n - y \in U
    <3>1. y \in Int /\ n - (n - y) = y /\ n - y \in 0 .. n
      OBVIOUS
    <3> QED BY <3>1
  <2>2. ASSUME NEW y \in T PROVE y <= n - u
    <3>1. u <= n - y
      BY <1>2, <2>1
    <3> QED BY <3>1, <1>2
  <2> QED BY <2>2
<1>5. T \subseteq Nat
  OBVIOUS
<1>6. Max(T) = n - u
  BY <1>3, <1>4, <1>5, MaxIs
<1> QED BY <1>3, <1>6

LEMMA UpTo ==
  ASSUME NEW k \in Nat
  PROVE  /\ 1 .. k + 1 # {}
         /\ Max(1 .. k + 1) = k + 1
         /\ (1 .. k + 1) \ {k + 1} = 1 .. k
<1>1. 1 .. k + 1 \subseteq Nat /\ k + 1 \in 1 .. k + 1 /\ \A y \in 1 .. k + 1 : y <= k + 1
  OBVIOUS
<1>2. Max(1 .. k + 1) = k + 1
  BY <1>1, MaxIs
<1> QED BY <1>1, <1>2

\* The recursive function inside FoldLeft, when its operator is a function:
\* op[x] is what the x-th element does to a value.
Iterates(it, op, base, n) ==
  \A T \in SUBSET (1 .. n) :
    it[T] = IF T = {} THEN base ELSE op[Max(T)][it[T \ {Max(T)}]]

HasIteration(V, op, base, n) ==
  \E it \in [SUBSET (1 .. n) -> V] : Iterates(it, op, base, n)

LEMMA IterationExists ==
  ASSUME NEW V, NEW base \in V, NEW n \in Nat, NEW op \in [1 .. n -> [V -> V]]
  PROVE  HasIteration(V, op, base, n)
<1> DEFINE S == {m \in Nat : m <= n => HasIteration(V, op, base, m)}
<1>1. 0 \in S
  <2> DEFINE it == [T \in SUBSET (1 .. 0) |-> base]
  <2>1. it \in [SUBSET (1 .. 0) -> V]
    OBVIOUS
  <2>2. \A T \in SUBSET (1 .. 0) : T = {}
    OBVIOUS
  <2>3. Iterates(it, op, base, 0)
    BY <2>2 DEF Iterates
  <2> QED BY <2>1, <2>3 DEF HasIteration
<1>2. ASSUME NEW m \in Nat, m \in S PROVE m + 1 \in S
  <2> SUFFICES ASSUME m + 1 <= n PROVE HasIteration(V, op, base, m + 1)
    OBVIOUS
  <2>1. PICK f \in [SUBSET (1 .. m) -> V] : Iterates(f, op, base, m)
    <3>1. HasIteration(V, op, base, m)
      BY <1>2
    <3> QED BY <3>1 DEF HasIteration
  <2> DEFINE g == [T \in SUBSET (1 .. m + 1) |->
                     IF m + 1 \in T THEN op[m + 1][f[T \ {m + 1}]] ELSE f[T]]
  <2>2. ASSUME NEW T \in SUBSET (1 .. m + 1) PROVE T \ {m + 1} \in SUBSET (1 .. m)
    OBVIOUS
  <2>3. ASSUME NEW T \in SUBSET (1 .. m + 1), m + 1 \notin T PROVE T \in SUBSET (1 .. m)
    BY <2>3
  <2>4. op[m + 1] \in [V -> V]
    <3>1. m + 1 \in 1 .. n
      OBVIOUS
    <3> QED BY <3>1
  <2>5. g \in [SUBSET (1 .. m + 1) -> V]
    BY <2>1, <2>2, <2>3, <2>4
  <2>6. ASSUME NEW T \in SUBSET (1 .. m + 1)
        PROVE  g[T] = IF T = {} THEN base ELSE op[Max(T)][g[T \ {Max(T)}]]
    <3>1. CASE m + 1 \in T
      <4>1. T \subseteq Nat /\ \A y \in T : y <= m + 1
        OBVIOUS
      <4>2. Max(T) = m + 1
        BY <3>1, <4>1, MaxIs
      <4>3. T \ {m + 1} \in SUBSET (1 .. m + 1) /\ m + 1 \notin T \ {m + 1}
        OBVIOUS
      <4>4. g[T \ {m + 1}] = f[T \ {m + 1}]
        BY <4>3
      <4>5. g[T] = op[m + 1][f[T \ {m + 1}]]
        BY <3>1
      <4> HIDE DEF g
      <4> QED BY <3>1, <4>2, <4>4, <4>5
    <3>2. CASE m + 1 \notin T
      <4>1. T \in SUBSET (1 .. m)
        BY <2>3, <3>2
      <4>2. f[T] = IF T = {} THEN base ELSE op[Max(T)][f[T \ {Max(T)}]]
        BY <2>1, <4>1 DEF Iterates
      <4>3. g[T] = f[T]
        BY <3>2
      <4>4. T \ {Max(T)} \in SUBSET (1 .. m + 1) /\ m + 1 \notin T \ {Max(T)}
        BY <3>2
      <4>5. g[T \ {Max(T)}] = f[T \ {Max(T)}]
        BY <4>4
      <4> HIDE DEF g
      <4> QED BY <4>2, <4>3, <4>5
    <3> QED BY <3>1, <3>2
  <2> HIDE DEF g
  <2>7. Iterates(g, op, base, m + 1)
    BY <2>6 DEF Iterates
  <2> QED BY <2>5, <2>7 DEF HasIteration
<1> HIDE DEF S
<1>3. Nat \subseteq S
  BY <1>1, <1>2, Induction
<1>4. n \in S
  BY <1>3
<1> QED BY <1>4 DEF S

\* The length of the elements of a sequence of sequences taken together
TotalLength(s) == FoldLeft(LAMBDA sum, e : sum + Len(e), 0, s)

\* What the recursive function inside it is
Totals(it, s) ==
  it = [T \in SUBSET DOMAIN s |->
          IF T = {} THEN 0 ELSE it[T \ {Max(T)}] + Len(s[Max(T)])]

LEMMA TotalsExist ==
  ASSUME NEW S, NEW s \in Seq(Seq(S))
  PROVE  \E it : Totals(it, s)
<1> DEFINE n == Len(s)
           op == [x \in 1 .. n |-> [v \in Nat |-> v + Len(s[x])]]
<1>1. n \in Nat /\ DOMAIN s = 1 .. n
  BY LenProperties
<1>2. ASSUME NEW x \in 1 .. n PROVE Len(s[x]) \in Nat
  <2>1. s[x] \in Seq(S)
    BY ElementOfSeq
  <2> QED BY <2>1, LenProperties
<1>3. op \in [1 .. n -> [Nat -> Nat]]
  BY <1>2
<1>4. \A x \in 1 .. n : \A v \in Nat : op[x][v] = v + Len(s[x])
  OBVIOUS
<1> HIDE DEF n, op
<1>5. PICK it \in [SUBSET (1 .. n) -> Nat] : Iterates(it, op, 0, n)
  BY <1>1, <1>3, IterationExists DEF HasIteration
<1>6. ASSUME NEW T \in SUBSET (1 .. n)
      PROVE  it[T] = IF T = {} THEN 0 ELSE it[T \ {Max(T)}] + Len(s[Max(T)])
  <2>1. it[T] = IF T = {} THEN 0 ELSE op[Max(T)][it[T \ {Max(T)}]]
    BY <1>5 DEF Iterates
  <2>2. T # {} => Max(T) \in 1 .. n
    BY <1>1, MaxIn
  <2>3. it[T \ {Max(T)}] \in Nat
    BY <1>5
  <2> QED BY <1>4, <2>1, <2>2, <2>3
<1>7. it = [T \in SUBSET (1 .. n) |-> it[T]]
  BY <1>5
<1>8. it = [T \in SUBSET (1 .. n) |->
              IF T = {} THEN 0 ELSE it[T \ {Max(T)}] + Len(s[Max(T)])]
  BY <1>6, <1>7
<1> QED BY <1>1, <1>8 DEF Totals

LEMMA TotalsStep ==
  ASSUME NEW S, NEW s \in Seq(Seq(S)), NEW it, Totals(it, s)
  PROVE  /\ it[{}] = 0
         /\ \A k \in Nat : k + 1 <= Len(s) => it[1 .. k + 1] = it[1 .. k] + Len(s[k + 1])
<1> DEFINE body(T) == IF T = {} THEN 0 ELSE it[T \ {Max(T)}] + Len(s[Max(T)])
<1>1. it = [T \in SUBSET DOMAIN s |-> body(T)]
  BY DEF Totals
<1>2. DOMAIN s = 1 .. Len(s)
  BY LenProperties
<1> HIDE DEF body
<1>3. \A T \in SUBSET (1 .. Len(s)) : it[T] = body(T)
  BY <1>1, <1>2
<1>4. it[{}] = 0
  <2>1. {} \in SUBSET (1 .. Len(s))
    OBVIOUS
  <2> QED BY <1>3, <2>1 DEF body
<1>5. ASSUME NEW k \in Nat, k + 1 <= Len(s)
      PROVE  it[1 .. k + 1] = it[1 .. k] + Len(s[k + 1])
  <2>1. Len(s) \in Nat
    BY LenProperties
  <2>2. 1 .. k + 1 \in SUBSET (1 .. Len(s))
    BY <2>1, <1>5
  <2>3. it[1 .. k + 1] = body(1 .. k + 1)
    BY <1>3, <2>2
  <2> QED BY <2>3, UpTo DEF body
<1> QED BY <1>4, <1>5

LEMMA TotalLengthIs ==
  ASSUME NEW S, NEW s \in Seq(Seq(S))
  PROVE  \E it : Totals(it, s) /\ TotalLength(s) = it[1 .. Len(s)]
<1> DEFINE it == CHOOSE f : Totals(f, s)
<1>1. TotalLength(s) = it[DOMAIN s]
  BY Zenon DEF TotalLength, FoldLeft, MapThenFoldSet, Totals
<1>2. Totals(it, s)
  BY TotalsExist, Zenon
<1>3. DOMAIN s = 1 .. Len(s)
  BY LenProperties
<1> QED BY <1>1, <1>2, <1>3

LEMMA TotalsAgree ==
  ASSUME NEW S, NEW s \in Seq(Seq(S)), NEW t \in Seq(Seq(S)), NEW f, NEW g,
         Totals(f, s), Totals(g, t),
         NEW m \in Nat, m <= Len(s), m <= Len(t), SameUpTo(s, t, m)
  PROVE  f[1 .. m] = g[1 .. m]
<1> DEFINE U == {j \in Nat : j <= m => f[1 .. j] = g[1 .. j]}
<1>1. Len(s) \in Nat /\ Len(t) \in Nat
  BY LenProperties
<1>2. 0 \in U
  <2>1. 1 .. 0 = {}
    OBVIOUS
  <2>2. f[{}] = 0 /\ g[{}] = 0
    BY TotalsStep
  <2> QED BY <2>1, <2>2
<1>3. ASSUME NEW j \in Nat, j \in U PROVE j + 1 \in U
  <2> SUFFICES ASSUME j + 1 <= m PROVE f[1 .. j + 1] = g[1 .. j + 1]
    OBVIOUS
  <2>1. f[1 .. j + 1] = f[1 .. j] + Len(s[j + 1])
    BY <1>1, TotalsStep
  <2>2. g[1 .. j + 1] = g[1 .. j] + Len(t[j + 1])
    BY <1>1, TotalsStep
  <2>3. s[j + 1] = t[j + 1]
    BY DEF SameUpTo
  <2> QED BY <1>3, <2>1, <2>2, <2>3
<1> HIDE DEF U
<1>4. Nat \subseteq U
  BY <1>2, <1>3, Induction
<1> QED BY <1>4 DEF U

LEMMA TotalLengthEmpty == TotalLength(<<>>) = 0
<1>1. <<>> \in Seq(Seq(Nat)) /\ Len(<<>>) = 0
  BY EmptySeq
<1>2. PICK it : Totals(it, <<>>) /\ TotalLength(<<>>) = it[1 .. Len(<<>>)]
  BY <1>1, TotalLengthIs
<1>3. it[{}] = 0
  BY <1>1, <1>2, TotalsStep
<1>4. 1 .. Len(<<>>) = {}
  BY <1>1
<1> QED BY <1>2, <1>3, <1>4

LEMMA TotalLengthAppend ==
  ASSUME NEW S, NEW s \in Seq(Seq(S)), NEW e \in Seq(S)
  PROVE  TotalLength(Append(s, e)) = TotalLength(s) + Len(e)
<1>1. PICK n \in Nat : n = Len(s)
  BY LenProperties
<1>2. PICK t \in Seq(Seq(S)) : t = Append(s, e)
  BY AppendProperties
<1>3. /\ Len(t) = n + 1 /\ t[n + 1] = e /\ SameUpTo(s, t, n)
  BY <1>1, <1>2, AppendProperties DEF SameUpTo
<1>4. PICK f : Totals(f, s) /\ TotalLength(s) = f[1 .. n]
  BY <1>1, TotalLengthIs
<1>5. PICK g : Totals(g, t) /\ TotalLength(t) = g[1 .. n + 1]
  <2>1. PICK g : Totals(g, t) /\ TotalLength(t) = g[1 .. Len(t)]
    BY TotalLengthIs
  <2> QED BY <1>3, <2>1
<1>6. g[1 .. n + 1] = g[1 .. n] + Len(e)
  <2>1. n + 1 <= Len(t)
    BY <1>3
  <2> QED BY <1>3, <1>5, <2>1, TotalsStep
<1>7. f[1 .. n] = g[1 .. n]
  <2>1. n <= Len(s) /\ n <= Len(t)
    BY <1>1, <1>3
  <2> QED BY <1>3, <1>4, <1>5, <2>1, TotalsAgree
<1> QED BY <1>2, <1>4, <1>5, <1>6, <1>7

----------------------------------------------------------------------------
(* Prefixes *)

LEMMA PrefixStep ==
  ASSUME NEW S, NEW s \in Seq(S), NEW k \in Nat, k + 1 <= Len(s)
  PROVE  /\ SubSeq(s, 1, k) \in Seq(S) /\ Len(SubSeq(s, 1, k)) = k
         /\ s[k + 1] \in S
         /\ SubSeq(s, 1, k + 1) = Append(SubSeq(s, 1, k), s[k + 1])
<1>1. Len(s) \in Nat
  BY LenProperties
<1>2. k + 1 \in 1 .. Len(s) /\ k + 1 - 1 = k
  BY <1>1
<1>3. s[k + 1] \in S
  BY <1>2, ElementOfSeq
<1>4. \A i \in 1 .. k : s[i] \in S
  BY <1>1, ElementOfSeq
<1>5. SubSeq(s, 1, k) \in Seq(S) /\ Len(SubSeq(s, 1, k)) = k
  BY <1>4, SubSeqProperties
<1>6. SubSeq(s, 1, k + 1) = SubSeq(s, 1, k) \o <<s[k + 1]>>
  <2>1. 1 \in 1 .. Len(s) /\ k + 1 \in 1 .. Len(s)
    BY <1>1, <1>2
  <2>2. SubSeq(s, 1, k + 1) = SubSeq(s, 1, k + 1 - 1) \o <<s[k + 1]>>
    BY <2>1, SubSeqRecursiveSecond
  <2> QED BY <1>2, <2>2
<1> QED BY <1>3, <1>5, <1>6, AppendIsConcat

LEMMA FlattenInSeq ==
  ASSUME NEW S, NEW s \in Seq(Seq(S))
  PROVE  FlattenSeq(s) \in Seq(S)
<1> DEFINE U == {k \in Nat : k <= Len(s) => FlattenSeq(SubSeq(s, 1, k)) \in Seq(S)}
<1>1. Len(s) \in Nat
  BY LenProperties
<1>2. 0 \in U
  <2>1. SubSeq(s, 1, 0) = <<>>
    BY SubSeqEmpty
  <2> QED BY <2>1, FlattenEmpty, EmptySeq
<1>3. ASSUME NEW k \in Nat, k \in U PROVE k + 1 \in U
  <2> SUFFICES ASSUME k + 1 <= Len(s) PROVE FlattenSeq(SubSeq(s, 1, k + 1)) \in Seq(S)
    OBVIOUS
  <2> DEFINE p == SubSeq(s, 1, k)
  <2>1. p \in Seq(Seq(S)) /\ s[k + 1] \in Seq(S) /\ SubSeq(s, 1, k + 1) = Append(p, s[k + 1])
    BY PrefixStep
  <2>2. FlattenSeq(p) \in Seq(S)
    BY <1>1, <1>3
  <2> HIDE DEF p
  <2>3. FlattenSeq(Append(p, s[k + 1])) = IF p = <<>> THEN s[k + 1] ELSE FlattenSeq(p) \o s[k + 1]
    BY <2>1, FlattenAppend
  <2>4. FlattenSeq(p) \o s[k + 1] \in Seq(S)
    BY <2>1, <2>2, ConcatProperties
  <2> QED BY <2>1, <2>3, <2>4
<1> HIDE DEF U
<1>4. Len(s) \in U
  BY <1>1, <1>2, <1>3, Induction
<1>5. FlattenSeq(SubSeq(s, 1, Len(s))) \in Seq(S)
  BY <1>1, <1>4 DEF U
<1> QED BY <1>5, SubSeqFull

\* FlattenAppend without the case of nothing, which is none
LEMMA FlattenOneMore ==
  ASSUME NEW S, NEW s \in Seq(Seq(S)), NEW e \in Seq(S)
  PROVE  FlattenSeq(Append(s, e)) = FlattenSeq(s) \o e
<1>1. FlattenSeq(Append(s, e)) = IF s = <<>> THEN e ELSE FlattenSeq(s) \o e
  BY FlattenAppend
<1>2. s = <<>> => FlattenSeq(s) \o e = e
  BY FlattenEmpty, ConcatEmptySeq
<1> QED BY <1>1, <1>2

BeginsWith(S, s, p) == \E rest \in Seq(S) : s = p \o rest

LEMMA FlattenPrefix ==
  ASSUME NEW S, NEW s \in Seq(Seq(S)), NEW k \in Nat, k <= Len(s)
  PROVE  BeginsWith(S, FlattenSeq(s), FlattenSeq(SubSeq(s, 1, k)))
<1> DEFINE F(m) == FlattenSeq(SubSeq(s, 1, m))
           U == {m \in Nat : k <= m /\ m <= Len(s) => BeginsWith(S, F(m), F(k))}
<1>1. Len(s) \in Nat
  BY LenProperties
<1>2. ASSUME NEW m \in Nat, m <= Len(s) PROVE F(m) \in Seq(S)
  <2>1. \A i \in 1 .. m : s[i] \in Seq(S)
    BY <1>1, <1>2, ElementOfSeq
  <2>2. SubSeq(s, 1, m) \in Seq(Seq(S))
    BY <2>1, SubSeqProperties
  <2> QED BY <2>2, FlattenInSeq
<1>3. BeginsWith(S, F(k), F(k))
  BY <1>2, ConcatEmptySeq, EmptySeq DEF BeginsWith
<1>4. ASSUME NEW m \in Nat, m + 1 <= Len(s)
      PROVE  s[m + 1] \in Seq(S) /\ F(m + 1) = F(m) \o s[m + 1]
  <2> DEFINE p == SubSeq(s, 1, m)
  <2>1. p \in Seq(Seq(S)) /\ s[m + 1] \in Seq(S) /\ SubSeq(s, 1, m + 1) = Append(p, s[m + 1])
    BY <1>4, PrefixStep
  <2> HIDE DEF p
  <2>2. FlattenSeq(Append(p, s[m + 1])) = FlattenSeq(p) \o s[m + 1]
    BY <2>1, FlattenOneMore
  <2> QED BY <2>1, <2>2 DEF p
<1> HIDE DEF F
<1>5. 0 \in U
  <2> SUFFICES ASSUME k <= 0 PROVE BeginsWith(S, F(0), F(k))
    OBVIOUS
  <2>1. k = 0
    OBVIOUS
  <2> QED BY <1>3, <2>1
<1>6. ASSUME NEW m \in Nat, m \in U PROVE m + 1 \in U
  <2> SUFFICES ASSUME k <= m + 1, m + 1 <= Len(s)
               PROVE  BeginsWith(S, F(m + 1), F(k))
    OBVIOUS
  <2>1. CASE k = m + 1
    BY <1>3, <2>1
  <2>2. CASE k # m + 1
    <3>1. k <= m /\ m <= Len(s)
      BY <1>1, <2>2
    <3>2. PICK rest \in Seq(S) : F(m) = F(k) \o rest
      BY <1>6, <3>1 DEF BeginsWith
    <3>3. F(m + 1) = (F(k) \o rest) \o s[m + 1]
      BY <1>4, <3>2
    <3>4. s[m + 1] \in Seq(S) /\ F(k) \in Seq(S)
      BY <1>2, <1>4
    <3>5. F(m + 1) = F(k) \o (rest \o s[m + 1])
      <4>1. PICK a \in Seq(S) : a = F(k)
        BY <3>4
      <4>2. PICK c \in Seq(S) : c = s[m + 1]
        BY <3>4
      <4>3. (a \o rest) \o c = a \o (rest \o c)
        <5>1. Cat(Cat(a, rest), c) = Cat(a, Cat(rest, c))
          BY CatAssociative
        <5> QED BY <5>1 DEF Cat
      <4> QED BY <3>3, <4>1, <4>2, <4>3
    <3>6. rest \o s[m + 1] \in Seq(S)
      BY <3>4, ConcatProperties
    <3> QED BY <3>5, <3>6 DEF BeginsWith
  <2> QED BY <2>1, <2>2
<1> HIDE DEF U
<1>7. Len(s) \in U
  BY <1>1, <1>5, <1>6, Induction
<1>8. BeginsWith(S, F(Len(s)), F(k))
  BY <1>1, <1>7 DEF U
<1>9. F(Len(s)) = FlattenSeq(s)
  BY SubSeqFull DEF F
<1> QED BY <1>8, <1>9 DEF F

LEMMA TotalLengthPrefix ==
  ASSUME NEW S, NEW s \in Seq(Seq(S)), NEW k \in Nat, k <= Len(s)
  PROVE  /\ TotalLength(s) \in Nat
         /\ TotalLength(SubSeq(s, 1, k)) \in Nat
         /\ TotalLength(SubSeq(s, 1, k)) <= TotalLength(s)
<1> DEFINE F(m) == TotalLength(SubSeq(s, 1, m))
           U == {m \in Nat : m <= Len(s) => F(m) \in Nat /\ (k <= m => F(k) \in Nat /\ F(k) <= F(m))}
<1>1. Len(s) \in Nat
  BY LenProperties
<1>2. F(0) = 0
  <2>1. SubSeq(s, 1, 0) = <<>>
    BY SubSeqEmpty
  <2> QED BY <2>1, TotalLengthEmpty
<1>3. ASSUME NEW m \in Nat, m + 1 <= Len(s)
      PROVE  Len(s[m + 1]) \in Nat /\ F(m + 1) = F(m) + Len(s[m + 1])
  <2> DEFINE p == SubSeq(s, 1, m)
  <2>1. p \in Seq(Seq(S)) /\ s[m + 1] \in Seq(S) /\ SubSeq(s, 1, m + 1) = Append(p, s[m + 1])
    BY <1>3, PrefixStep
  <2> HIDE DEF p
  <2>2. TotalLength(Append(p, s[m + 1])) = TotalLength(p) + Len(s[m + 1])
    BY <2>1, TotalLengthAppend
  <2>3. Len(s[m + 1]) \in Nat
    BY <2>1, LenProperties
  <2> QED BY <2>1, <2>2, <2>3 DEF p
<1> HIDE DEF F
<1>4. 0 \in U
  BY <1>2
<1>5. ASSUME NEW m \in Nat, m \in U PROVE m + 1 \in U
  <2> SUFFICES ASSUME m + 1 <= Len(s)
               PROVE  F(m + 1) \in Nat /\ (k <= m + 1 => F(k) \in Nat /\ F(k) <= F(m + 1))
    OBVIOUS
  <2>1. F(m) \in Nat /\ (k <= m => F(k) \in Nat /\ F(k) <= F(m))
    BY <1>1, <1>5
  <2>2. F(m + 1) \in Nat /\ F(m) <= F(m + 1)
    BY <1>3, <2>1, SMTT(30)
  <2>3. CASE k = m + 1
    BY <2>2, <2>3
  <2>4. CASE k <= m
    <3>1. F(k) \in Nat /\ F(k) <= F(m)
      BY <2>1, <2>4
    <3> QED BY <2>1, <2>2, <3>1
  <2>5. CASE m + 1 < k
    BY <2>2, <2>5
  <2> QED BY <2>3, <2>4, <2>5
<1> HIDE DEF U
<1>6. Nat \subseteq U
  BY <1>4, <1>5, Induction
<1>7. k \in U /\ Len(s) \in U
  BY <1>1, <1>6
<1>8. F(k) \in Nat /\ F(Len(s)) \in Nat /\ F(k) <= F(Len(s))
  BY <1>1, <1>7 DEF U
<1>9. F(Len(s)) = TotalLength(s)
  BY SubSeqFull DEF F
<1> QED BY <1>8, <1>9 DEF F

\* A longer prefix is the shorter one and what lies between them.
LEMMA LongerPrefix ==
  ASSUME NEW S, NEW b \in Seq(S), NEW p \in Nat, NEW n \in Nat, p + n <= Len(b)
  PROVE  SubSeq(b, 1, p + n) = SubSeq(b, 1, p) \o SubSeq(b, p + 1, p + n)
<1>1. Len(b) \in Nat
  BY LenProperties
<1>2. 1 \in 1 .. Len(b) + 1 /\ p \in 1 - 1 .. Len(b) /\ p + n \in p .. Len(b)
  BY <1>1
<1> QED BY <1>2, ConcatAdjacentSubSeq

\* What comes after x, when it is known to begin with y
Parts(b, x, y, z) == b = (x \o y) \o z

LEMMA PartAfter ==
  ASSUME NEW S, NEW x \in Seq(S), NEW y \in Seq(S), NEW z \in Seq(S),
         NEW b, Parts(b, x, y, z)
  PROVE  /\ b \in Seq(S)
         /\ Len(b) >= Len(x) + Len(y)
         /\ SubSeq(b, Len(x) + 1, Len(x) + Len(y)) = y
         /\ \A i \in 1 .. Len(y) : b[Len(x) + i] = y[i]
<1>1. Len(x) \in Nat /\ Len(y) \in Nat /\ Len(z) \in Nat
  BY LenProperties
<1>2. x \o y \in Seq(S) /\ Len(x \o y) = Len(x) + Len(y)
  BY ConcatProperties
<1>3. b \in Seq(S) /\ Len(b) = Len(x) + Len(y) + Len(z)
  BY <1>2, ConcatProperties DEF Parts
<1>4. ASSUME NEW i \in 1 .. Len(y) PROVE b[Len(x) + i] = y[i]
  <2>1. b[Len(x) + i] = (x \o y)[Len(x) + i]
    <3>1. Len(x) + i \in 1 .. Len(x \o y) + Len(z) /\ Len(x) + i <= Len(x \o y)
      BY <1>1, <1>2
    <3> QED BY <1>2, <3>1, ConcatProperties DEF Parts
  <2>2. (x \o y)[Len(x) + i] = y[Len(x) + i - Len(x)]
    <3>1. Len(x) + i \in 1 .. Len(x) + Len(y) /\ ~(Len(x) + i <= Len(x))
      BY <1>1
    <3> QED BY <3>1, ConcatProperties
  <2>3. Len(x) + i - Len(x) = i
    BY <1>1
  <2> QED BY <2>1, <2>2, <2>3
<1>5. SubSeq(b, Len(x) + 1, Len(x) + Len(y)) = y
  <2> DEFINE m == Len(x) + 1
             n == Len(x) + Len(y)
             u == SubSeq(b, m, n)
  <2>1. \A i \in m .. n : b[i] \in S
    <3>1. \A i \in m .. n : i \in 1 .. Len(b)
      BY <1>1, <1>3
    <3> QED BY <1>3, <3>1, ElementOfSeq
  <2>2. m \in Int /\ n \in Int
    BY <1>1
  <2>3. /\ u \in Seq(S)
        /\ Len(u) = IF m <= n THEN n - m + 1 ELSE 0
        /\ \A i \in 1 .. n - m + 1 : u[i] = b[m + i - 1]
    BY <2>1, <2>2, SubSeqProperties
  <2> HIDE DEF u
  <2>4. n - m + 1 = Len(y) /\ Len(u) = Len(y) /\ \A i \in Int : m + i - 1 = Len(x) + i
    BY <1>1, <2>3
  <2>5. \A i \in 1 .. Len(u) : u[i] = y[i]
    BY <1>4, <2>3, <2>4
  <2>6. u = y
    BY <2>3, <2>4, <2>5, SeqEqual
  <2> QED BY <2>6 DEF u
<1> QED BY <1>1, <1>3, <1>4, <1>5

LEMMA CancelLeft ==
  ASSUME NEW S, NEW a \in Seq(S), NEW b \in Seq(S), NEW c \in Seq(S), Cat(a, b) = Cat(a, c)
  PROVE  b = c
BY ConcatSimplifications, Zenon DEF Cat

\* What a and b make is known to begin with e: so does a, if it is long enough.
LEMMA FrontOf ==
  ASSUME NEW S, NEW a \in Seq(S), NEW b \in Seq(S), NEW e \in Seq(S), NEW z \in Seq(S),
         Cat(a, b) = Cat(e, z)
  PROVE  /\ \A i \in 1 .. Len(e) : i <= Len(a) => a[i] = e[i]
         /\ Len(e) <= Len(a) =>
              \E rest \in Seq(S) : /\ rest = SubSeq(a, Len(e) + 1, Len(a))
                                   /\ a = Cat(e, rest)
                                   /\ Cat(rest, b) = z
<1>1. PICK n \in Nat, m \in Nat : n = Len(e) /\ m = Len(a)
  BY LenProperties
<1>2. Len(b) \in Nat /\ Len(z) \in Nat
  BY LenProperties
<1>3. ASSUME NEW i \in 1 .. n, i <= m PROVE a[i] = e[i]
  <2>1. (a \o b)[i] = a[i]
    <3>1. i \in 1 .. Len(a) + Len(b)
      BY <1>1, <1>2, <1>3
    <3> QED BY <1>1, <1>3, <3>1, ConcatProperties
  <2>2. (e \o z)[i] = e[i]
    <3>1. i \in 1 .. Len(e) + Len(z) /\ i <= Len(e)
      BY <1>1, <1>2
    <3> QED BY <3>1, ConcatProperties
  <2> QED BY <2>1, <2>2 DEF Cat
<1>4. ASSUME n <= m
      PROVE  \E rest \in Seq(S) : /\ rest = SubSeq(a, n + 1, m)
                                  /\ a = Cat(e, rest) /\ Cat(rest, b) = z
  <2>1. PICK rest : rest = SubSeq(a, n + 1, m)
    OBVIOUS
  <2>2. rest \in Seq(S)
    <3>1. \A i \in n + 1 .. m : a[i] \in S
      BY <1>1, ElementOfSeq
    <3> QED BY <2>1, <3>1, SubSeqProperties
  <2>3. SubSeq(a, 1, n) = e
    <3>1. PICK p : p = SubSeq(a, 1, n)
      OBVIOUS
    <3>2. \A i \in 1 .. n : a[i] \in S
      BY <1>1, <1>4, ElementOfSeq
    <3>3. p \in Seq(S) /\ Len(p) = n /\ \A i \in 1 .. n : p[i] = a[i]
      <4>1. Len(SubSeq(a, 1, n)) = IF 1 <= n THEN n - 1 + 1 ELSE 0
        BY <3>2, SubSeqProperties
      <4>2. \A i \in 1 .. n - 1 + 1 : SubSeq(a, 1, n)[i] = a[1 + i - 1]
        BY <3>2, SubSeqProperties
      <4>3. n - 1 + 1 = n /\ \A i \in 1 .. n : 1 + i - 1 = i
        OBVIOUS
      <4>4. SubSeq(a, 1, n) \in Seq(S)
        BY <3>2, SubSeqProperties
      <4>5. Len(p) = n
        BY <3>1, <4>1
      <4>6. \A i \in 1 .. n : p[i] = a[i]
        BY <3>1, <4>2, <4>3
      <4> QED BY <3>1, <4>4, <4>5, <4>6
    <3>4. \A i \in 1 .. Len(p) : p[i] = e[i]
      BY <1>3, <1>4, <3>3
    <3>5. p = e
      BY <1>1, <3>3, <3>4, SeqEqual
    <3> QED BY <3>1, <3>5
  <2>4. a = e \o rest
    <3>1. SubSeq(a, 1, m) = SubSeq(a, 1, n) \o SubSeq(a, n + 1, m)
      <4>1. 1 \in 1 .. Len(a) + 1 /\ n \in 1 - 1 .. Len(a) /\ m \in n .. Len(a)
        BY <1>1, <1>4
      <4> QED BY <4>1, ConcatAdjacentSubSeq
    <3>2. SubSeq(a, 1, m) = a
      BY <1>1, SubSeqFull
    <3> QED BY <2>1, <2>3, <3>1, <3>2
  <2>5. Cat(e, Cat(rest, b)) = Cat(e, z)
    <3>1. Cat(Cat(e, rest), b) = Cat(e, Cat(rest, b))
      BY <2>2, CatAssociative
    <3> QED BY <2>4, <3>1 DEF Cat
  <2>6. Cat(rest, b) \in Seq(S)
    BY <2>2, CatInSeq
  <2>7. Cat(rest, b) = z
    BY <2>5, <2>6, CancelLeft
  <2> QED BY <2>1, <2>2, <2>4, <2>7 DEF Cat
<1> QED BY <1>1, <1>3, <1>4

LEMMA FlattenConcat ==
  ASSUME NEW S, NEW a \in Seq(Seq(S)), NEW b \in Seq(Seq(S))
  PROVE  FlattenSeq(a \o b) = Cat(FlattenSeq(a), FlattenSeq(b))
<1> DEFINE F(k) == FlattenSeq(a \o SubSeq(b, 1, k))
           G(k) == Cat(FlattenSeq(a), FlattenSeq(SubSeq(b, 1, k)))
           U == {k \in Nat : k <= Len(b) => F(k) = G(k)}
<1>1. Len(b) \in Nat
  BY LenProperties
<1>2. F(0) = G(0)
  <2>1. SubSeq(b, 1, 0) = <<>>
    BY SubSeqEmpty
  <2>2. a \o <<>> = a
    BY ConcatEmptySeq
  <2>3. Cat(FlattenSeq(a), <<>>) = FlattenSeq(a)
    BY FlattenInSeq, ConcatEmptySeq DEF Cat
  <2> QED BY <2>1, <2>2, <2>3, FlattenEmpty
<1>3. ASSUME NEW k \in Nat, k + 1 <= Len(b), F(k) = G(k)
      PROVE  F(k + 1) = G(k + 1)
  <2>1. PICK p \in Seq(Seq(S)), e \in Seq(S) :
          p = SubSeq(b, 1, k) /\ SubSeq(b, 1, k + 1) = Append(p, e)
    <3>1. /\ SubSeq(b, 1, k) \in Seq(Seq(S)) /\ b[k + 1] \in Seq(S)
          /\ SubSeq(b, 1, k + 1) = Append(SubSeq(b, 1, k), b[k + 1])
      BY <1>3, PrefixStep
    <3> QED BY <3>1
  <2>2. PICK q \in Seq(Seq(S)) : q = a \o p
    BY ConcatProperties
  <2>3. a \o Append(p, e) = Append(q, e)
    <3>1. PICK one \in Seq(Seq(S)) : one = <<e>>
      <4>1. <<>> \in Seq(Seq(S)) /\ Append(<<>>, e) = <<e>>
        BY EmptySeq
      <4> QED BY <4>1, AppendProperties
    <3>2. Append(p, e) = p \o one /\ Append(q, e) = q \o one
      BY <3>1, AppendIsConcat
    <3>3. (a \o p) \o one = a \o (p \o one)
      <4>1. Cat(Cat(a, p), one) = Cat(a, Cat(p, one))
        BY CatAssociative
      <4> QED BY <4>1 DEF Cat
    <3> QED BY <2>2, <3>2, <3>3
  <2>4. FlattenSeq(Append(q, e)) = FlattenSeq(q) \o e /\ FlattenSeq(Append(p, e)) = FlattenSeq(p) \o e
    BY FlattenOneMore
  <2>5. FlattenSeq(q) = Cat(FlattenSeq(a), FlattenSeq(p))
    BY <1>3, <2>1, <2>2
  <2>6. FlattenSeq(a) \in Seq(S) /\ FlattenSeq(p) \in Seq(S)
    BY FlattenInSeq
  <2>7. Cat(Cat(FlattenSeq(a), FlattenSeq(p)), e) = Cat(FlattenSeq(a), Cat(FlattenSeq(p), e))
    BY <2>6, CatAssociative
  <2>8. F(k + 1) = Cat(FlattenSeq(q), e)
    BY <2>1, <2>3, <2>4 DEF Cat
  <2>9. G(k + 1) = Cat(FlattenSeq(a), Cat(FlattenSeq(p), e))
    BY <2>1, <2>4 DEF Cat
  <2> QED BY <2>5, <2>7, <2>8, <2>9
<1> HIDE DEF F, G
<1>4. 0 \in U
  BY <1>2
<1>5. ASSUME NEW k \in Nat, k \in U PROVE k + 1 \in U
  BY <1>1, <1>3, <1>5
<1> HIDE DEF U
<1>6. Len(b) \in U
  BY <1>1, <1>4, <1>5, Induction
<1>7. F(Len(b)) = G(Len(b))
  BY <1>1, <1>6 DEF U
<1>8. SubSeq(b, 1, Len(b)) = b
  BY SubSeqFull
<1> QED BY <1>7, <1>8 DEF F, G

\* What comes after x, and before w, is y.
LEMMA PartBefore ==
  ASSUME NEW S, NEW x \in Seq(S), NEW y \in Seq(S), NEW w \in Seq(S), NEW z \in Seq(S),
         NEW u, u = Cat(x, y), NEW b, Parts(b, u, w, z)
  PROVE  \E v \in Seq(S) : Parts(b, x, y, v)
<1>1. PICK t \in Seq(S) : t = x \o y
  BY ConcatProperties
<1>2. (t \o w) \o z = t \o (w \o z)
  <2>1. Cat(Cat(t, w), z) = Cat(t, Cat(w, z))
    BY CatAssociative
  <2> QED BY <2>1 DEF Cat
<1>3. w \o z \in Seq(S)
  BY ConcatProperties
<1> QED BY <1>1, <1>2, <1>3 DEF Parts, Cat

LEMMA FlattenOne == ASSUME NEW S, NEW e \in Seq(S) PROVE FlattenSeq(<<e>>) = e
<1>1. <<>> \in Seq(Seq(S)) /\ Append(<<>>, e) = <<e>>
  BY EmptySeq
<1> QED BY <1>1, FlattenAppend
=============================================================================
