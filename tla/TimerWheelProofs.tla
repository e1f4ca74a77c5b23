-------------------------- MODULE TimerWheelProofs --------------------------
(***************************************************************************)
(* Proofs about TimerWheel, for any number of events, any levels and       *)
(* buckets, any clock and any cycles, but that the periods are multiples   *)
(* of the precision: its arithmetic first, then what the wheel holds, and  *)
(* that it implements TimerSchedule.                                       *)
(***************************************************************************)
EXTENDS TimerWheel, SequenceTheorems, WellFoundedInduction, TLAPS

-----------------------------------------------------------------------------
(* Natural numbers                                                         *)

\* A set of natural numbers has a least element.
LEMMA Least ==
    ASSUME NEW S \in SUBSET Nat, S # {}
    PROVE  \E n \in S : \A m \in S : n <= m
<1> DEFINE R == OpToRel(<, Nat)
<1>1. IsWellFoundedOn(R, Nat)
  BY NatLessThanWellFounded
<1>2. R = {ss \in Nat \X Nat : ss[1] < ss[2]}
  BY DEF OpToRel
<1> HIDE DEF R
<1>3. PICK n \in S : \A m \in S : ~ (<<m, n>> \in R)
  BY <1>1, WFMin
<1>4. ASSUME NEW m \in S, m < n PROVE FALSE
  <2>1. <<m, n>> \in Nat \X Nat /\ <<m, n>>[1] = m /\ <<m, n>>[2] = n
    OBVIOUS
  <2>2. <<m, n>> \in R
    BY <1>2, <1>4, <2>1
  <2> QED
    BY <1>3, <2>2
<1> QED
  BY <1>4

\* A bounded one has a greatest element.
LEMMA Greatest ==
    ASSUME NEW b \in Nat, NEW S \in SUBSET (1..b), S # {}
    PROVE  \E n \in S : \A m \in S : n >= m
<1> DEFINE T == {t \in Nat : b - t \in S}
<1>1. T # {}
  <2>1. PICK n \in S : TRUE
    OBVIOUS
  <2>2. b - n \in Nat /\ b - (b - n) = n
    BY <2>1
  <2> QED
    BY <2>1, <2>2
<1>2. PICK t \in T : \A u \in T : t <= u
  BY <1>1, Least
<1>3. ASSUME NEW m \in S PROVE b - t >= m
  <2>1. m \in 1..b /\ b - m \in Nat /\ b - (b - m) = m
    OBVIOUS
  <2>2. b - m \in T
    BY <2>1
  <2>3. t <= b - m
    BY <1>2, <2>2
  <2> QED
    BY <2>1, <2>3
<1> QED
  BY <1>2, <1>3

\* A product grows with its factor.
LEMMA ProductMonotone ==
    ASSUME NEW a \in Nat, NEW b \in Nat, NEW c \in Nat, a <= b
    PROVE  a * c <= b * c
OBVIOUS

\* One more bucket adds one bucket's width.
LEMMA ProductNext ==
    ASSUME NEW a \in Nat, NEW c \in Nat
    PROVE  (a + 1) * c = a * c + c /\ a * c \in Nat
OBVIOUS

\* Quotient and remainder are what they are, ...
LEMMA Division ==
    ASSUME NEW x \in Nat, NEW d \in Nat \ {0}
    PROVE  /\ x \div d \in Nat /\ x % d \in 0..d - 1
           /\ x = (x \div d) * d + (x % d)
<1> DEFINE q == x \div d
<1> DEFINE r == x % d
<1>1. q \in Nat
  OBVIOUS
<1>2. r \in 0..d - 1
  OBVIOUS
<1>3. x = d * q + r
  BY Z3
<1> HIDE DEF q, r
<1>4. x = q * d + r
  BY <1>1, <1>2, <1>3
<1> QED
  BY <1>1, <1>2, <1>4 DEF q, r

\* ... and nothing else is.
LEMMA DivisionUnique ==
    ASSUME NEW x \in Nat, NEW d \in Nat \ {0}, NEW q \in Nat, NEW r \in 0..d - 1,
           x = q * d + r
    PROVE  x \div d = q /\ x % d = r
<1> DEFINE p == x \div d
<1> DEFINE s == x % d
<1>1. p \in Nat /\ s \in 0..d - 1 /\ x = p * d + s
  BY Division
<1> HIDE DEF p, s
<1>2. (p - q) * d = r - s
  BY <1>1
<1>3. CASE p > q
  <2>1. p - q >= 1 /\ p - q \in Nat
    BY <1>1, <1>3
  <2>2. (p - q) * d >= d
    BY <2>1
  <2> QED
    BY <1>1, <1>2, <2>2
<1>4. CASE p < q
  <2>1. q - p >= 1 /\ q - p \in Nat
    BY <1>1, <1>4
  <2>2. (q - p) * d >= d
    BY <2>1
  <2>3. (q - p) * d = s - r
    BY <1>1
  <2> QED
    BY <1>1, <2>2, <2>3
<1>5. CASE p = q
  BY <1>1, <1>5 DEF p, s
<1> QED
  BY <1>1, <1>3, <1>4, <1>5

\* Dividing twice is dividing by the product.
LEMMA DivisionTwice ==
    ASSUME NEW x \in Nat, NEW a \in Nat \ {0}, NEW b \in Nat \ {0}
    PROVE  x \div (a * b) = (x \div a) \div b
<1> DEFINE p == x \div a
<1> DEFINE m == x % a
<1>1. p \in Nat /\ m \in 0..a - 1 /\ x = p * a + m
  BY Division
<1> HIDE DEF p, m
<1> DEFINE q == p \div b
<1> DEFINE n == p % b
<1>2. q \in Nat /\ n \in 0..b - 1 /\ p = q * b + n
  BY <1>1, Division
<1> HIDE DEF q, n
<1> DEFINE r == n * a + m
<1>3. a * b \in Nat \ {0} /\ r \in Nat
  BY <1>1, <1>2
<1>4. x = q * (a * b) + r
  <2>1. p * a = (q * b + n) * a
    BY <1>2
  <2>2. (q * b + n) * a = q * (a * b) + n * a
    BY <1>2
  <2> QED
    BY <1>1, <1>2, <2>1, <2>2
<1>5. r < a * b
  <2>1. (n + 1) * a <= b * a
    BY <1>2, ProductMonotone
  <2>2. (n + 1) * a = n * a + a /\ b * a = a * b
    BY <1>2
  <2> QED
    BY <1>1, <1>2, <2>1, <2>2
<1>6. r \in 0..(a * b) - 1
  BY <1>3, <1>5
<1> HIDE DEF r
<1> DEFINE d == a * b
<1>7. d \in Nat \ {0} /\ x = q * d + r /\ r \in 0..d - 1
  BY <1>3, <1>4, <1>6
<1> HIDE DEF d
<1>8. x \div d = q
  BY <1>2, <1>7, DivisionUnique
<1> QED
  BY <1>8 DEF p, q, d

\* Division is monotone.
LEMMA DivisionMonotone ==
    ASSUME NEW x \in Nat, NEW y \in Nat, x <= y, NEW d \in Nat \ {0}
    PROVE  x \div d <= y \div d
<1> DEFINE p == x \div d
<1> DEFINE q == y \div d
<1>1. p \in Nat /\ x % d \in 0..d - 1 /\ x = p * d + (x % d)
  BY Division
<1>2. q \in Nat /\ y % d \in 0..d - 1 /\ y = q * d + (y % d)
  BY Division
<1> HIDE DEF p, q
<1>3. CASE p > q
  <2>1. p * d >= (q + 1) * d
    BY <1>1, <1>2, <1>3
  <2>2. (q + 1) * d = q * d + d
    BY <1>2
  <2> QED
    BY <1>1, <1>2, <2>1, <2>2
<1> QED
  BY <1>1, <1>2, <1>3 DEF p, q

-----------------------------------------------------------------------------
(* The levels of the wheel                                                 *)

\* Every level has two buckets at least.
LEMMA RadixType ==
    /\ Len(Radix) \in Nat /\ Radix \in Seq(Nat \ {0, 1})
    /\ \A l \in Levels : Radix[l] \in Nat /\ Radix[l] >= 2
BY TimerAssumption DEF Levels

\* The recursion of Span is well-founded.
LEMMA SpanUnfolds ==
    Span = [l \in 1..Len(Radix) + 1 |-> IF l = 1 THEN 1 ELSE Span[l - 1] * Radix[l - 1]]
<1> DEFINE Next1(f, l) == IF l = 1 THEN 1 ELSE f[l - 1] * Radix[l - 1]
<1> DEFINE Exists(n) == \E f : f = [l \in 1..n |-> Next1(f, l)]
<1> DEFINE S == {n \in Nat : ~Exists(n)}
<1>1. CASE S # {}
  <2>1. PICK n \in S : \A m \in S : n <= m
    BY <1>1, Least
  <2>2. CASE n = 0
    <3> DEFINE g == [l \in 1..0 |-> 1]
    <3>1. g = [l \in 1..0 |-> Next1(g, l)]
      OBVIOUS
    <3>2. Exists(0)
      BY <3>1
    <3> QED
      BY <2>1, <2>2, <3>2
  <2>3. CASE n # 0
    <3>1. n \in Nat /\ n - 1 \in Nat
      BY <2>1, <2>3
    <3>2. PICK f : f = [l \in 1..n - 1 |-> Next1(f, l)]
      <4>1. CASE n - 1 \in S
        <5>1. n <= n - 1
          BY <2>1, <4>1
        <5> QED
          BY <3>1, <5>1
      <4>2. CASE n - 1 \notin S
        BY <3>1, <4>2
      <4> QED
        BY <4>1, <4>2
    <3> DEFINE g == [l \in 1..n |-> Next1(f, l)]
    <3>3. ASSUME NEW l \in 1..n PROVE g[l] = Next1(g, l)
      <4>1. CASE l = 1
        BY <4>1
      <4>2. CASE l # 1
        <5>1. l - 1 \in 1..n - 1 /\ l - 1 \in 1..n
          BY <2>1, <4>2
        <5>2. f[l - 1] = Next1(f, l - 1) /\ g[l - 1] = Next1(f, l - 1)
          BY <3>2, <5>1
        <5> QED
          BY <5>2
      <4> QED
        BY <4>1, <4>2
    <3>4. g = [l \in 1..n |-> g[l]]
      OBVIOUS
    <3>5. g = [l \in 1..n |-> Next1(g, l)]
      BY <3>3, <3>4
    <3> HIDE DEF g
    <3>6. Exists(n)
      BY <3>5
    <3> QED
      BY <2>1, <3>6
  <2> QED
    BY <2>2, <2>3
<1>2. CASE S = {}
  <2>1. Len(Radix) + 1 \in Nat
    BY RadixType
  <2>2. Exists(Len(Radix) + 1)
    BY <1>2, <2>1
  <2> QED
    BY <2>2 DEF Span
<1> QED
  BY <1>1, <1>2

\* A level spans what the lower ones do, times its buckets.
LEMMA SpanSteps ==
    /\ Span[1] = 1
    /\ \A l \in Levels : Span[l + 1] = Span[l] * Radix[l]
<1> DEFINE U == [l \in 1..Len(Radix) + 1 |-> IF l = 1 THEN 1 ELSE Span[l - 1] * Radix[l - 1]]
<1>1. Span = U
  BY SpanUnfolds
<1>2. U[1] = 1
  BY RadixType
<1>3. ASSUME NEW l \in Levels PROVE U[l + 1] = Span[l] * Radix[l]
  <2>1. l + 1 \in 1..Len(Radix) + 1 /\ l + 1 # 1 /\ (l + 1) - 1 = l
    BY RadixType DEF Levels
  <2> QED
    BY <2>1
<1> HIDE DEF U
<1> QED
  BY <1>1, <1>2, <1>3

\* A bucket of any level spans a positive number of ticks.
LEMMA SpanType == \A l \in 1..Len(Radix) + 1 : Span[l] \in Nat \ {0}
<1> DEFINE S == {l \in Nat : l \in 1..Len(Radix) + 1 /\ Span[l] \notin Nat \ {0}}
<1>1. CASE S # {}
  <2>1. PICK l \in S : \A m \in S : l <= m
    BY <1>1, Least
  <2>2. l # 1
    BY <2>1, SpanSteps
  <2>3. l - 1 \in Levels /\ l - 1 \in 1..Len(Radix) + 1 /\ (l - 1) + 1 = l
    BY <2>1, <2>2, RadixType DEF Levels
  <2>4. Span[l - 1] \in Nat \ {0} /\ Radix[l - 1] \in Nat \ {0}
    BY <2>1, <2>3, RadixType
  <2>5. Span[l] = Span[l - 1] * Radix[l - 1]
    BY <2>3, SpanSteps
  <2> QED
    BY <2>1, <2>4, <2>5
<1>2. CASE S = {}
  BY <1>2
<1> QED
  BY <1>1, <1>2

\* The span of a level divides those of all higher ones.
LEMMA SpanDivides ==
    ASSUME NEW k \in 1..Len(Radix) + 1, NEW l \in k..Len(Radix) + 1
    PROVE  \E m \in Nat \ {0} : Span[l] = m * Span[k]
<1> DEFINE S == {j \in Nat : j \in k..Len(Radix) + 1 /\ ~\E m \in Nat \ {0} : Span[j] = m * Span[k]}
<1>1. CASE S # {}
  <2>1. PICK j \in S : \A i \in S : j <= i
    BY <1>1, Least
  <2>2. j # k
    <3>1. Span[k] = 1 * Span[k]
      BY SpanType
    <3> QED
      BY <2>1, <3>1
  <2>3. j - 1 \in Levels /\ j - 1 \in k..Len(Radix) + 1 /\ (j - 1) + 1 = j
    BY <2>1, <2>2, RadixType DEF Levels
  <2>4. PICK m \in Nat \ {0} : Span[j - 1] = m * Span[k]
    BY <2>1, <2>3
  <2>5. Radix[j - 1] \in Nat \ {0} /\ Span[k] \in Nat \ {0}
    BY <2>3, RadixType, SpanType
  <2>6. Span[j] = (m * Span[k]) * Radix[j - 1]
    BY <2>3, <2>4, SpanSteps
  <2>7. (m * Span[k]) * Radix[j - 1] = (m * Radix[j - 1]) * Span[k] /\ m * Radix[j - 1] \in Nat \ {0}
    BY <2>5
  <2> QED
    BY <2>1, <2>6, <2>7
<1>2. CASE S = {}
  <2>1. l \in Nat
    BY RadixType
  <2> QED
    BY <1>2, <2>1
<1> QED
  BY <1>1, <1>2

\* The wheel ends where its last level wraps.
LEMMA HorizonType == Horizon \in Nat \ {0} /\ Horizon = Span[Len(Radix) + 1]
BY SpanType, RadixType DEF Horizon

\* A time within a level: the buckets of the higher level, and its digit.
Quotient(t, l) == t \div Span[l]

\* The digit of a time is a bucket of its level, and what is left is that of the next one.
LEMMA DigitType ==
    ASSUME NEW t \in Nat, NEW l \in Levels
    PROVE  /\ Quotient(t, l) \in Nat /\ Quotient(t, l + 1) \in Nat
           /\ Digit(t, l) \in 0..Radix[l] - 1
           /\ Quotient(t, l) = Quotient(t, l + 1) * Radix[l] + Digit(t, l)
<1> DEFINE q == t \div Span[l]
<1>1. Span[l] \in Nat \ {0} /\ Radix[l] \in Nat \ {0}
  BY SpanType, RadixType DEF Levels
<1>2. q \in Nat
  BY <1>1, Division
<1>3. t \div (Span[l] * Radix[l]) = q \div Radix[l]
  BY <1>1, DivisionTwice
<1> HIDE DEF q
<1>4. q \div Radix[l] \in Nat /\ q % Radix[l] \in 0..Radix[l] - 1
      /\ q = (q \div Radix[l]) * Radix[l] + (q % Radix[l])
  BY <1>1, <1>2, Division
<1>5. Quotient(t, l) = q /\ Quotient(t, l + 1) = q \div Radix[l] /\ Digit(t, l) = q % Radix[l]
  BY <1>3, SpanSteps DEF Quotient, Digit, q
<1> QED
  BY <1>2, <1>4, <1>5

\* The times at which a level turns to a bucket.
LEMMA Turn ==
    ASSUME NEW l \in Levels, NEW q \in Nat
    PROVE  /\ q * Span[l] \in Nat
           /\ Quotient(q * Span[l], l) = q
           /\ \A k \in 1..l - 1 : Digit(q * Span[l], k) = 0
<1>1. Span[l] \in Nat \ {0} /\ l \in Nat
  BY SpanType, RadixType DEF Levels
<1> DEFINE v == q * Span[l]
<1>2. v \in Nat
  BY <1>1
<1>3. Quotient(v, l) = q
  <2>1. v = q * Span[l] + 0 /\ 0 \in 0..Span[l] - 1
    BY <1>1
  <2> HIDE DEF v
  <2> QED
    BY <1>1, <1>2, <2>1, DivisionUnique DEF Quotient
<1>4. ASSUME NEW k \in 1..l - 1 PROVE Digit(v, k) = 0
  <2>1. k \in Levels /\ k + 1 \in 1..Len(Radix) + 1 /\ l \in k + 1..Len(Radix) + 1
    BY <1>1, RadixType DEF Levels
  <2>2. PICK m \in Nat \ {0} : Span[l] = m * Span[k + 1]
    BY <2>1, SpanDivides
  <2>3. Span[k + 1] \in Nat \ {0} /\ Span[k] \in Nat \ {0} /\ Radix[k] \in Nat
        /\ Span[k + 1] = Span[k] * Radix[k]
    BY <2>1, SpanType, SpanSteps, RadixType DEF Levels
  <2> DEFINE p == q * m
  <2>4. p \in Nat /\ p * Radix[k] \in Nat
    BY <2>3
  <2>5. v = p * Span[k + 1]
    BY <2>2, <2>3
  <2>6. p * Span[k + 1] = (p * Radix[k]) * Span[k]
    <3> HIDE DEF p
    <3> QED
      BY <2>3, <2>4
  <2> HIDE DEF p, v
  <2>7. v = p * Span[k + 1] + 0 /\ 0 \in 0..Span[k + 1] - 1
    BY <2>3, <2>4, <2>5
  <2>8. Quotient(v, k + 1) = p
    BY <1>2, <2>3, <2>4, <2>7, DivisionUnique DEF Quotient
  <2> DEFINE r == p * Radix[k]
  <2> HIDE DEF r
  <2>9. r \in Nat /\ v = r * Span[k] + 0 /\ 0 \in 0..Span[k] - 1
    BY <1>2, <2>3, <2>4, <2>5, <2>6 DEF r
  <2>10. Quotient(v, k) = r
    BY <1>2, <2>3, <2>9, DivisionUnique DEF Quotient
  <2>11. Quotient(v, k) = Quotient(v, k + 1) * Radix[k] + Digit(v, k) /\ Digit(v, k) \in Nat
    <3>1. /\ Digit(v, k) \in 0..Radix[k] - 1
          /\ Quotient(v, k) = Quotient(v, k + 1) * Radix[k] + Digit(v, k)
      BY <1>2, <2>1, DigitType
    <3>2. Digit(v, k) \in Nat
      BY <2>3, <3>1
    <3> QED
      BY <3>1, <3>2
  <2>12. r = Quotient(v, k + 1) * Radix[k]
    BY <2>8 DEF r
  <2> QED
    BY <2>9, <2>10, <2>11, <2>12
<1> QED
  BY <1>2, <1>3, <1>4

\* A digit names a bucket of its level.
LEMMA DigitSlot ==
    ASSUME NEW t \in Nat, NEW l \in Levels
    PROVE  <<l, Digit(t, l)>> \in Slots
<1>1. l + 1 \in 1..Len(Radix) + 1 /\ Len(Radix) + 1 \in l + 1..Len(Radix) + 1
  BY RadixType DEF Levels
<1>2. PICK m \in Nat \ {0} : Horizon = m * Span[l + 1]
  BY <1>1, SpanDivides, HorizonType
<1>3. Span[l] \in Nat \ {0} /\ Radix[l] \in Nat \ {0} /\ Span[l + 1] = Span[l] * Radix[l]
  BY SpanType, SpanSteps, RadixType DEF Levels
<1>4. Radix[l] <= Span[l + 1] /\ Span[l + 1] \in Nat \ {0}
  <2>1. 1 * Radix[l] <= Span[l] * Radix[l]
    BY <1>3, ProductMonotone
  <2> QED
    BY <1>3, <2>1
<1>5. Span[l + 1] <= Horizon
  <2>1. 1 * Span[l + 1] <= m * Span[l + 1]
    BY <1>4, ProductMonotone
  <2> QED
    BY <1>2, <1>4, <2>1
<1>6. Digit(t, l) \in 0..Radix[l] - 1
  BY DigitType
<1>7. Digit(t, l) \in 0..Horizon - 1 /\ Digit(t, l) < Radix[l]
  BY <1>3, <1>4, <1>5, <1>6, HorizonType
<1> DEFINE s == <<l, Digit(t, l)>>
<1>8. s \in Levels \X (0..Horizon - 1) /\ s[1] = l /\ s[2] = Digit(t, l)
  BY <1>7
<1> QED
  BY <1>7, <1>8 DEF Slots

\* The lowest digit that is not zero decides which list a tick visits.
LEMMA VisitLowest ==
    ASSUME NEW t \in Nat, NEW l \in Levels, Digit(t, l) # 0,
           \A k \in 1..l - 1 : Digit(t, k) = 0
    PROVE  Visit(t) = <<l, Digit(t, l)>>
<1> DEFINE digits == {k \in Levels : Digit(t, k) # 0}
<1> DEFINE c == CHOOSE k \in digits : \A j \in digits : k <= j
<1>0. Levels \subseteq Nat
  BY RadixType DEF Levels
<1>1. l \in digits /\ \A j \in digits : l <= j
  BY <1>0 DEF Levels
<1>2. c \in digits /\ \A j \in digits : c <= j
  BY <1>1
<1>3. c = l
  <2>1. c <= l /\ l <= c /\ c \in Nat /\ l \in Nat
    BY <1>0, <1>1, <1>2
  <2> HIDE DEF c
  <2> QED
    BY <2>1
<1>4. Visit(t) = <<c, Digit(t, c)>>
  BY <1>1 DEF Visit
<1> QED
  BY <1>3, <1>4

\* A list that a tick visits is a bucket.
LEMMA VisitType ==
    ASSUME NEW t \in Nat, Visit(t) # <<>>
    PROVE  Visit(t) \in Slots /\ \E l \in Levels : Visit(t) = <<l, Digit(t, l)>>
<1> DEFINE digits == {k \in Levels : Digit(t, k) # 0}
<1>0. digits \in SUBSET Nat
  BY RadixType DEF Levels
<1>1. digits # {}
  BY DEF Visit
<1>2. PICK l \in digits : \A j \in digits : l <= j
  BY <1>0, <1>1, Least
<1>3. \A k \in 1..l - 1 : Digit(t, k) = 0
  <2> SUFFICES ASSUME NEW k \in 1..l - 1, Digit(t, k) # 0 PROVE FALSE
    OBVIOUS
  <2>1. k \in digits
    BY <1>2, RadixType DEF Levels
  <2> QED
    BY <1>0, <1>2, <2>1
<1>4. Visit(t) = <<l, Digit(t, l)>>
  BY <1>2, <1>3, VisitLowest
<1> QED
  BY <1>2, <1>4, DigitSlot

\* Two times that agree in the digits above a level are in the same bucket of
\* the level above.
LEMMA AgreeAbove ==
    ASSUME NEW x \in 0..Horizon - 1, NEW y \in 0..Horizon - 1, NEW l \in 0..Len(Radix),
           \A k \in Levels : k > l => Digit(x, k) = Digit(y, k)
    PROVE  Quotient(x, l + 1) = Quotient(y, l + 1)
<1> DEFINE L == Len(Radix)
<1> DEFINE S == {j \in Nat : j <= L - l /\ Quotient(x, (L - j) + 1) # Quotient(y, (L - j) + 1)}
<1>0. L \in Nat /\ x \in Nat /\ y \in Nat /\ l \in Nat
  BY RadixType, HorizonType
<1>1. CASE S # {}
  <2>1. PICK j \in S : \A i \in S : j <= i
    BY <1>1, Least
  <2>2. j # 0
    <3>1. ASSUME NEW z \in 0..Horizon - 1 PROVE Quotient(z, L + 1) = 0
      <4>1. z \in Nat /\ 0 \in Nat /\ z = 0 * Horizon + z /\ z \in 0..Horizon - 1
        BY HorizonType
      <4> QED
        BY <4>1, HorizonType, DivisionUnique DEF Quotient
    <3>2. (L - 0) + 1 = L + 1
      BY <1>0
    <3> QED
      BY <2>1, <3>1, <3>2
  <2> DEFINE k == (L - j) + 1
  <2>3. k \in Levels /\ k > l /\ (L - (j - 1)) + 1 = k + 1 /\ j - 1 \in Nat /\ j - 1 <= L - l
        /\ (L - j) + 1 = k
    BY <1>0, <2>1, <2>2 DEF Levels
  <2> HIDE DEF k
  <2>4. Quotient(x, k + 1) = Quotient(y, k + 1)
    <3>1. j - 1 \notin S
      BY <2>1, <2>3
    <3> QED
      BY <2>3, <3>1
  <2>5. Quotient(x, k) = Quotient(y, k)
    BY <1>0, <2>3, <2>4, DigitType
  <2> QED
    BY <2>1, <2>3, <2>5
<1>2. CASE S = {}
  <2>1. L - l \in Nat /\ (L - (L - l)) + 1 = l + 1
    BY <1>0
  <2> DEFINE i == L - l
  <2> HIDE DEF i, L
  <2>2. i \in Nat /\ i <= L - l /\ (L - i) + 1 = l + 1
    BY <1>0, <2>1 DEF i
  <2>3. Quotient(x, (L - i) + 1) = Quotient(y, (L - i) + 1)
    BY <1>2, <2>2
  <2> QED
    BY <2>2, <2>3
<1> QED
  BY <1>1, <1>2

\* The bucket into which insert_once() puts a later time is visited after the
\* current tick, at that time at the latest, and never now.
LEMMA BucketVisited ==
    ASSUME NEW t \in 0..Horizon - 1, tick \in Nat, tick < t
    PROVE  /\ Bucket(t) \in Slots
           /\ \E v \in tick + 1..t : Visit(v) = Bucket(t)
           /\ Bucket(t) # Visit(tick)
<1> DEFINE differ == {l \in Levels : Digit(t, l) # Digit(tick, l)}
<1>0. tick \in 0..Horizon - 1 /\ t \in Nat /\ Len(Radix) \in Nat
  BY HorizonType, RadixType
<1>1. differ # {}
  <2> SUFFICES ASSUME \A l \in Levels : Digit(t, l) = Digit(tick, l) PROVE FALSE
    OBVIOUS
  <2>1. 0 \in 0..Len(Radix) /\ 0 + 1 = 1
    BY RadixType
  <2>2. Quotient(t, 1) = Quotient(tick, 1)
    BY <1>0, <2>1, AgreeAbove
  <2>3. ASSUME NEW z \in Nat PROVE Quotient(z, 1) = z
    <3>1. z = z * 1 + 0 /\ 0 \in 0..1 - 1 /\ 1 \in Nat \ {0} /\ 0 \in Nat
      OBVIOUS
    <3>2. z \div 1 = z
      BY <3>1, DivisionUnique
    <3> QED
      BY <3>2, SpanSteps DEF Quotient
  <2> QED
    BY <1>0, <2>2, <2>3
<1>2. PICK l \in differ : \A k \in differ : l >= k
  <2>1. differ \in SUBSET (1..Len(Radix))
    BY DEF Levels
  <2> QED
    BY <1>0, <1>1, <2>1, Greatest
<1>3. Bucket(t) = <<l, Digit(t, l)>>
  <2> DEFINE c == CHOOSE k \in differ : \A j \in differ : k >= j
  <2>1. c \in differ /\ \A j \in differ : c >= j
    BY <1>2
  <2>2. c = l
    BY <1>0, <1>2, <2>1 DEF Levels
  <2>3. Bucket(t) = <<c, Digit(t, c)>>
    BY <1>1 DEF Bucket
  <2> QED
    BY <2>2, <2>3
<1>4. l \in Levels /\ l \in Nat /\ l \in 0..Len(Radix) /\ Digit(t, l) # Digit(tick, l)
  BY <1>0, <1>2 DEF Levels
<1>5. Bucket(t) \in Slots
  BY <1>0, <1>3, <1>4, DigitSlot
<1>6. Quotient(t, l + 1) = Quotient(tick, l + 1)
  <2>1. \A k \in Levels : k > l => Digit(t, k) = Digit(tick, k)
    BY <1>0, <1>2, <1>4 DEF Levels
  <2> QED
    BY <1>0, <1>4, <2>1, AgreeAbove
<1> DEFINE q == Quotient(t, l)
<1> DEFINE p == Quotient(tick, l)
<1> DEFINE v == q * Span[l]
<1>7. /\ q \in Nat /\ p \in Nat /\ Span[l] \in Nat \ {0} /\ Radix[l] \in Nat \ {0}
      /\ Digit(t, l) \in Nat /\ Digit(tick, l) \in Nat
  <2>1. Span[l] \in Nat \ {0} /\ Radix[l] \in Nat \ {0}
    BY <1>4, SpanType, RadixType DEF Levels
  <2>2. /\ q \in Nat /\ p \in Nat
        /\ Digit(t, l) \in 0..Radix[l] - 1 /\ Digit(tick, l) \in 0..Radix[l] - 1
    BY <1>0, <1>4, DigitType
  <2> QED
    BY <2>1, <2>2
<1>8. p < q /\ Digit(tick, l) < Digit(t, l)
  <2>1. p <= q
    BY <1>0, <1>7, DivisionMonotone DEF Quotient
  <2>2. PICK r \in Nat : r = Quotient(t, l + 1) * Radix[l]
    <3>1. Quotient(t, l + 1) \in Nat
      BY <1>0, <1>4, DigitType
    <3> QED
      BY <1>7, <3>1
  <2>3. q = r + Digit(t, l) /\ p = r + Digit(tick, l)
    BY <1>0, <1>4, <1>6, <2>2, DigitType
  <2> HIDE DEF p, q
  <2> QED
    BY <1>4, <1>7, <2>1, <2>3
<1>9. t = q * Span[l] + (t % Span[l]) /\ t % Span[l] \in 0..Span[l] - 1
  BY <1>0, <1>7, Division DEF Quotient
<1>10. tick = p * Span[l] + (tick % Span[l]) /\ tick % Span[l] \in 0..Span[l] - 1
  BY <1>0, <1>7, Division DEF Quotient
<1>11. v \in Nat /\ Quotient(v, l) = q /\ \A k \in 1..l - 1 : Digit(v, k) = 0
  BY <1>4, <1>7, Turn
<1> HIDE DEF p, q
<1>12. v <= t
  BY <1>7, <1>9
<1>13. tick < v
  <2>1. (p + 1) * Span[l] <= q * Span[l]
    BY <1>7, <1>8, ProductMonotone
  <2>2. (p + 1) * Span[l] = p * Span[l] + Span[l]
    BY <1>7, ProductNext
  <2> QED
    BY <1>7, <1>10, <2>1, <2>2
<1> HIDE DEF v
<1>14. Digit(v, l) = Digit(t, l)
  BY <1>11 DEF Quotient, Digit, q
<1>15. Visit(v) = Bucket(t)
  BY <1>3, <1>4, <1>7, <1>8, <1>11, <1>14, VisitLowest
<1>16. v \in tick + 1..t
  BY <1>0, <1>11, <1>12, <1>13
<1>17. Bucket(t) # Visit(tick)
  <2> SUFFICES ASSUME Bucket(t) = Visit(tick) PROVE FALSE
    OBVIOUS
  <2>1. Visit(tick) # <<>>
    BY <1>3
  <2>2. PICK k \in Levels : Visit(tick) = <<k, Digit(tick, k)>>
    BY <1>0, <2>1, VisitType
  <2>3. <<l, Digit(t, l)>> = <<k, Digit(tick, k)>>
    BY <1>3, <2>2
  <2>4. l = k /\ Digit(t, l) = Digit(tick, k)
    BY <2>3
  <2> QED
    BY <1>4, <2>4
<1> QED
  BY <1>5, <1>15, <1>16, <1>17

-----------------------------------------------------------------------------
(* When an event is due again                                              *)

\* The constants of the calendar, and the times that a caller may give.
LEMMA ConstantType ==
    /\ Precision \in Nat \ {0} /\ Day \in Nat \ {0} /\ Week \in Nat \ {0} /\ Month \in Nat \ {0, 1}
    /\ Starts \subseteq 0..Horizon - 1 /\ Clocks \subseteq 0..Horizon - 1 /\ Durations \subseteq Nat
    /\ Starts \subseteq Nat /\ Clocks \subseteq Nat
    /\ None \notin Events /\ None \notin Nat
<1> Starts \subseteq 0..Horizon - 1 /\ Clocks \subseteq 0..Horizon - 1
  BY TimerAssumption
<1> QED
  BY TimerAssumption, HorizonType

\* NextDay() is after now.
LEMMA NextDayLater ==
    ASSUME NEW start \in Nat, NEW now \in Nat
    PROVE  NextDay(start, now) \in Nat /\ NextDay(start, now) > now
BY ConstantType DEF NextDay

\* The day that is picked is not before the day it starts from.
LEMMA DayFromType ==
    ASSUME NEW t \in Nat, NEW days \in SUBSET Nat
    PROVE  /\ DayFrom(t, days) \in Nat /\ DayFrom(t, days) >= t
           /\ days # {} => \E n \in days : DayFrom(t, days) = t + Day * n
<1>1. CASE days = {}
  BY <1>1 DEF DayFrom
<1>2. CASE days # {}
  <2> DEFINE c == CHOOSE n \in days : \A m \in days : n <= m
  <2>1. c \in days
    BY <1>2, Least
  <2>2. DayFrom(t, days) = t + Day * c
    BY <1>2 DEF DayFrom
  <2> HIDE DEF c
  <2>3. Day * c \in Nat
    BY <2>1, ConstantType
  <2> QED
    BY <2>1, <2>2, <2>3
<1> QED
  BY <1>1, <1>2

\* So many days later is so many days further in the week.
LEMMA WeekDayMoves ==
    ASSUME NEW t \in Nat, NEW n \in Nat
    PROVE  WeekDay(t + Day * n) = (WeekDay(t) + n) % Week
<1> DEFINE q == t \div Day
<1> DEFINE r == t % Day
<1>0. Day \in Nat \ {0} /\ Week \in Nat \ {0}
  BY ConstantType
<1>1. q \in Nat /\ r \in 0..Day - 1 /\ t = q * Day + r
  BY <1>0, Division
<1> HIDE DEF q, r
<1>2. t + Day * n = (q + n) * Day + r /\ t + Day * n \in Nat /\ q + n \in Nat
  <2>1. (q + n) * Day = q * Day + Day * n
    BY <1>0, <1>1
  <2>2. Day * n \in Nat /\ q * Day \in Nat /\ q + n \in Nat /\ r \in Nat
    BY <1>0, <1>1
  <2> QED
    BY <1>1, <2>1, <2>2
<1>3. (t + Day * n) \div Day = q + n
  BY <1>0, <1>1, <1>2, DivisionUnique
<1> DEFINE u == q \div Week
<1> DEFINE w == q % Week
<1>4. u \in Nat /\ w \in 0..Week - 1 /\ q = u * Week + w
  BY <1>0, <1>1, Division
<1> HIDE DEF u, w
<1> DEFINE y == (w + n) \div Week
<1> DEFINE z == (w + n) % Week
<1>5. y \in Nat /\ z \in 0..Week - 1 /\ w + n = y * Week + z
  <2>1. w + n \in Nat
    BY <1>4
  <2> QED
    BY <1>0, <2>1, Division
<1> HIDE DEF y, z
<1>6. q + n = (u + y) * Week + z /\ u + y \in Nat
  <2>1. (u + y) * Week = u * Week + y * Week
    BY <1>0, <1>4, <1>5
  <2>2. u * Week \in Nat /\ y * Week \in Nat
    BY <1>0, <1>4, <1>5
  <2> QED
    BY <1>1, <1>4, <1>5, <2>1, <2>2
<1>7. (q + n) % Week = z
  BY <1>0, <1>2, <1>5, <1>6, DivisionUnique
<1>8. WeekDay(t) = w
  BY DEF WeekDay, q, w
<1> QED
  BY <1>3, <1>7, <1>8 DEF WeekDay, z

\* Every day of the week is within a week of any other.
LEMMA WeekDayMet ==
    ASSUME NEW w \in 0..Week - 1, NEW d \in 0..Week - 1
    PROVE  \E n \in 0..Week - 1 : (w + n) % Week = d
<1>0. Week \in Nat \ {0}
  BY ConstantType
<1>1. CASE d >= w
  <2> DEFINE n == d - w
  <2>1. n \in 0..Week - 1 /\ w + n = 0 * Week + d /\ w + n \in Nat
    BY <1>0, <1>1
  <2>2. (w + n) % Week = d
    BY <1>0, <2>1, DivisionUnique
  <2> QED
    BY <2>1, <2>2
<1>2. CASE d < w
  <2> DEFINE n == (d - w) + Week
  <2>1. n \in 0..Week - 1 /\ w + n = 1 * Week + d /\ w + n \in Nat /\ 1 \in Nat
    BY <1>0, <1>2
  <2>2. (w + n) % Week = d
    BY <1>0, <2>1, DivisionUnique
  <2> QED
    BY <2>1, <2>2
<1> QED
  BY <1>0, <1>1, <1>2

\* A repeated event: the first time after now that is a whole number of periods
\* from its start.
LEMMA AdjustRepeat ==
    ASSUME NEW data \in Nat \ {0}, data % Precision = 0, NEW start \in Nat, NEW now \in Nat
    PROVE  /\ Adjust(<<"repeat", data>>, start, now) \in Nat
           /\ Adjust(<<"repeat", data>>, start, now) > now
           /\ Phase(<<"repeat", data>>, Adjust(<<"repeat", data>>, start, now)) =
                Phase(<<"repeat", data>>, start)
<1> DEFINE P == Precision
<1> DEFINE c == <<"repeat", data>>
<1>0. P \in Nat \ {0} /\ c[1] = "repeat" /\ c[2] = data
  BY ConstantType
<1>1. CASE start > now
  BY <1>0, <1>1 DEF Adjust
<1>2. CASE start <= now
  <2> DEFINE m == data \div P
  <2>1. m \in Nat /\ data = m * P
    BY <1>0, Division
  <2> HIDE DEF m, P
  <2> DEFINE x == (now - start) * P + data
  <2>2. (now - start) * P \in Nat /\ x \in Nat
    BY <1>0, <1>2
  <2> DEFINE k == x \div data
  <2>3. k \in Nat /\ x % data \in 0..data - 1 /\ x = k * data + (x % data)
    BY <2>2, Division
  <2>4. Adjust(c, start, now) = (start * P + k * data) \div P
    BY <1>0, <1>2 DEF Adjust, P
  <2> HIDE DEF k
  <2>5. k * data > (now - start) * P
    <3> DEFINE a == (now - start) * P
    <3> DEFINE b == k * data
    <3>1. a \in Nat /\ b \in Nat /\ x = a + data /\ x % data \in 0..data - 1 /\ x = b + (x % data)
      BY <2>2, <2>3
    <3> HIDE DEF a, b, x
    <3>2. b > a
      BY <3>1
    <3> QED
      BY <3>2 DEF a, b
  <2> DEFINE n == k * m
  <2>6. n \in Nat /\ k * data = n * P
    BY <1>0, <2>1, <2>3
  <2> HIDE DEF n, x
  <2>7. n > now - start
    <3> SUFFICES ASSUME n <= now - start PROVE FALSE
      BY <2>6
    <3>1. now - start \in Nat
      BY <1>2
    <3>2. n * P <= (now - start) * P
      BY <1>0, <2>6, <3>1, ProductMonotone
    <3>3. n * P \in Nat
      BY <1>0, <2>6
    <3> QED
      BY <2>2, <2>5, <2>6, <3>2, <3>3
  <2> DEFINE s == start * P
  <2>8. s \in Nat
    BY <1>0
  <2>9. (start + n) * P = s + k * data /\ start + n \in Nat /\ k * data \in Nat
    <3>1. (start + n) * P = start * P + n * P
      BY <1>0, <2>6
    <3>2. k * data \in Nat
      BY <2>3
    <3> QED
      BY <2>6, <3>1, <3>2
  <2>10. Adjust(c, start, now) = start + n
    <3> DEFINE y == s + k * data
    <3>1. y \in Nat /\ y = (start + n) * P + 0 /\ 0 \in 0..P - 1
      BY <1>0, <2>8, <2>9
    <3> HIDE DEF y
    <3>2. y \div P = start + n
      BY <1>0, <2>9, <3>1, DivisionUnique
    <3> QED
      BY <2>4, <3>2 DEF y
  <2>11. Phase(c, start + n) = Phase(c, start)
    <3> DEFINE u == s \div data
    <3> DEFINE r == s % data
    <3>1. u \in Nat /\ r \in 0..data - 1 /\ s = u * data + r
      BY <2>8, Division
    <3> HIDE DEF u, r, s
    <3> DEFINE y == s + k * data
    <3>2. y = (u + k) * data + r /\ u + k \in Nat /\ y \in Nat
      <4>1. (u + k) * data = u * data + k * data
        BY <2>3, <3>1
      <4>2. u * data \in Nat
        BY <3>1
      <4> QED
        BY <2>3, <2>8, <2>9, <3>1, <4>1, <4>2
    <3> HIDE DEF y
    <3>3. y % data = r
      BY <3>1, <3>2, DivisionUnique
    <3>4. Phase(c, start + n) = y % data
      BY <1>0, <2>9 DEF Phase, P, y
    <3>5. Phase(c, start) = r
      BY <1>0 DEF Phase, P, s, r
    <3> QED
      BY <3>3, <3>4, <3>5
  <2>12. start + n > now
    BY <2>6, <2>7
  <2> QED
    BY <2>9, <2>10, <2>11, <2>12
<1> QED
  BY <1>1, <1>2

\* A weekly event: a day of its set, if it has one.
LEMMA AdjustWeek ==
    ASSUME NEW c, c[1] = "week", NEW start \in Nat, NEW now \in Nat
    PROVE  /\ Adjust(c, start, now) \in Nat
           /\ Adjust(c, start, now) > now
           /\ c[2] \cap (0..Week - 1) # {} => WeekDay(Adjust(c, start, now)) \in c[2]
<1> DEFINE set == NextDay(start, now)
<1> DEFINE days == {n \in 0..Week - 1 : (WeekDay(set) + n) % Week \in c[2]}
<1>0. Week \in Nat \ {0} /\ Day \in Nat \ {0}
  BY ConstantType
<1>1. set \in Nat /\ set > now
  BY NextDayLater
<1>2. Adjust(c, start, now) = DayFrom(set, days)
  BY DEF Adjust
<1>3. days \in SUBSET Nat
  BY <1>0
<1>4. DayFrom(set, days) \in Nat /\ DayFrom(set, days) >= set
  BY <1>1, <1>3, DayFromType
<1>5. ASSUME c[2] \cap (0..Week - 1) # {} PROVE WeekDay(DayFrom(set, days)) \in c[2]
  <2>1. PICK d \in 0..Week - 1 : d \in c[2]
    BY <1>5
  <2>2. WeekDay(set) \in 0..Week - 1
    <3>1. set \div Day \in Nat
      BY <1>0, <1>1, Division
    <3> QED
      BY <1>0, <3>1, Division DEF WeekDay
  <2>3. PICK n \in 0..Week - 1 : (WeekDay(set) + n) % Week = d
    BY <2>1, <2>2, WeekDayMet
  <2>4. days # {}
    BY <2>1, <2>3
  <2>5. PICK m \in days : DayFrom(set, days) = set + Day * m
    BY <1>1, <1>3, <2>4, DayFromType
  <2>6. m \in Nat
    BY <1>3
  <2>7. WeekDay(set + Day * m) = (WeekDay(set) + m) % Week
    BY <1>1, <2>6, WeekDayMoves
  <2> QED
    BY <2>5, <2>7
<1> HIDE DEF set, days
<1> QED
  BY <1>1, <1>2, <1>4, <1>5

\* A monthly event is due later again.
LEMMA AdjustMonth ==
    ASSUME NEW c, c[1] = "month", NEW start \in Nat, NEW now \in Nat
    PROVE  Adjust(c, start, now) \in Nat /\ Adjust(c, start, now) > now
<1> DEFINE set == NextDay(start, now)
<1> DEFINE days == {n \in 0..Month - 1 : ((MonthDay(set) - 1 + n) % Month) + 1 \in c[2]}
<1>1. set \in Nat /\ set > now
  BY NextDayLater
<1>2. Adjust(c, start, now) = DayFrom(set, days)
  BY DEF Adjust
<1>3. days \in SUBSET Nat
  BY ConstantType
<1>4. DayFrom(set, days) \in Nat /\ DayFrom(set, days) >= set
  BY <1>1, <1>3, DayFromType
<1> HIDE DEF set, days
<1> QED
  BY <1>1, <1>2, <1>4

\* An event that is due again is due later, and in its cycle: what CycleKept says of
\* an event of that cycle, time and phase.
InCycle(cycle, time, phase) ==
    /\ cycle[1] = "repeat" => Phase(cycle, time) = phase
    /\ cycle[1] = "week" /\ cycle[2] \cap (0..Week - 1) # {} => WeekDay(time) \in cycle[2]

\* Whatever its cycle, an event that is called becomes due later, and in its cycle.
LEMMA AdjustLater ==
    ASSUME NEW c \in Cycles, NEW start \in Nat, NEW now \in Nat
    PROVE  /\ Adjust(c, start, now) \in Nat
           /\ Adjust(c, start, now) > now
           /\ InCycle(c, Adjust(c, start, now), Phase(c, start))
           /\ Phase(c, start) \in Nat
<1>1. c[1] \in {"repeat", "week", "month"}
  BY TimerAssumption
<1>2. CASE c[1] = "repeat"
  <2>1. c[2] \in Nat \ {0} /\ c[2] % Precision = 0
    BY <1>2, TimerAssumption, PeriodAssumption
  <2>2. \A s : Phase(c, s) = Phase(<<"repeat", c[2]>>, s)
    BY <1>2 DEF Phase
  <2>3. Adjust(c, start, now) = Adjust(<<"repeat", c[2]>>, start, now)
    BY <1>2 DEF Adjust
  <2>4. /\ Adjust(c, start, now) \in Nat
        /\ Adjust(c, start, now) > now
        /\ Phase(c, Adjust(c, start, now)) = Phase(c, start)
    BY <2>1, <2>2, <2>3, AdjustRepeat
  <2>5. start * Precision \in Nat
    BY ConstantType
  <2>6. Phase(c, start) \in Nat
    <3>1. (start * Precision) % c[2] \in 0..c[2] - 1
      BY <2>1, <2>5, Division
    <3>2. Phase(c, start) = (start * Precision) % c[2]
      BY <1>2 DEF Phase
    <3> QED
      BY <2>1, <3>1, <3>2
  <2>7. c[1] # "week"
    BY <1>2
  <2>8. InCycle(c, Adjust(c, start, now), Phase(c, start))
    BY <2>4, <2>7 DEF InCycle
  <2> QED
    BY <2>4, <2>6, <2>8
<1>3. CASE c[1] = "week"
  <2>1. Phase(c, start) = 0
    BY <1>3 DEF Phase
  <2>2. /\ Adjust(c, start, now) \in Nat
        /\ Adjust(c, start, now) > now
        /\ c[2] \cap (0..Week - 1) # {} => WeekDay(Adjust(c, start, now)) \in c[2]
    BY <1>3, AdjustWeek
  <2>3. c[1] # "repeat"
    BY <1>3
  <2>4. InCycle(c, Adjust(c, start, now), Phase(c, start))
    BY <2>2, <2>3 DEF InCycle
  <2> QED
    BY <2>1, <2>2, <2>4
<1>4. CASE c[1] = "month"
  <2>1. Phase(c, start) = 0
    BY <1>4 DEF Phase
  <2>2. Adjust(c, start, now) \in Nat /\ Adjust(c, start, now) > now
    BY <1>4, AdjustMonth
  <2>3. c[1] # "repeat" /\ c[1] # "week"
    BY <1>4
  <2>4. InCycle(c, Adjust(c, start, now), Phase(c, start))
    BY <2>3 DEF InCycle
  <2> QED
    BY <2>1, <2>2, <2>4
<1> QED
  BY <1>1, <1>2, <1>3, <1>4

\* CycleKept, event by event.
LEMMA CycleKeptIn ==
    CycleKept <=> \A e \in Events : Waiting(e) =>
                    InCycle(event[e].cycle, event[e].time, event[e].phase)
BY DEF CycleKept, InCycle

-----------------------------------------------------------------------------
(* The inductive invariant                                                 *)

\* An event has an entry in a bucket.
InBucket(e, s) == \E i \in 1..Len(wheel[s]) : wheel[s][i] = e

\* step_list() has yet to reach an entry of the event, ...
Ahead(e) == \E i \in at..Len(wheel[slot]) : wheel[slot][i] = e

\* ... or step() goes through another bucket that holds it, in time.
Visited(e) ==
    \E t \in tick + 1..event[e].time : Visit(t) \notin {<<>>, slot} /\ InBucket(e, Visit(t))

\* step_list() runs within step(), through the list of the tick.
Position ==
    /\ at # 0
    /\ slot # <<>> => slot = Visit(tick) /\ until # -1 /\ tick <= until

CycleType == \A e \in Events : Live(e) => event[e].cycle \in Cycles

\* No event is overdue; while step_list() runs, none is in the part of the list that
\* it has gone through only.
NotPassedBy ==
    \A e \in Events : Waiting(e) =>
        /\ tick <= event[e].time
        /\ slot # <<>> => Ahead(e) \/ Visited(e)

\* An event that was called at this tick is due later, once its callback is back.
CalledNotDue ==
    /\ slot = <<>> => called = {}
    /\ \A e \in called : e = calling \/ ~(Waiting(e) /\ event[e].time = tick)

IInv == TypeOK /\ Position /\ CycleType /\ NotPassedBy /\ Placed /\ CalledNotDue /\ CycleKept

-----------------------------------------------------------------------------
(* What insert_once() does                                                 *)

\* A bucket is not the empty list.
LEMMA SlotsNotEmpty == \A s \in Slots : s # <<>>
<1> SUFFICES ASSUME NEW s \in Slots PROVE s # <<>>
  OBVIOUS
<1>1. s \in Levels \X (0..Horizon - 1)
  BY DEF Slots
<1>2. PICK l \in Levels, d \in 0..Horizon - 1 : s = <<l, d>>
  BY <1>1
<1> QED
  BY <1>2

\* Whatever sets an event: it is not due any more, or later, in its cycle, and then
\* it has an entry in its bucket.
Put(e, n) ==
    /\ event' = [event EXCEPT ![e] = n] /\ n \in EventType
    /\ n.state = "live" => n.cycle \in Cycles /\ n.time <= n.over
    /\ IF n.state = "live" /\ n.time # Paused
       THEN /\ n.time > tick /\ InCycle(n.cycle, n.time, n.phase)
            /\ wheel' = [wheel EXCEPT ![Bucket(n.time)] = Append(@, e)]
       ELSE UNCHANGED wheel

\* insert_once() sets an event, if the start it is given is in phase or ahead.
LEMMA InsertOncePuts ==
    ASSUME NEW e \in Events, NEW r \in EventType, NEW start \in Nat, NEW adjust \in BOOLEAN,
           tick \in Nat, r.state = "live", r.cycle \in Cycles,
           r.time # Paused /\ adjust =>
             (r.cycle[1] = "repeat" => r.phase = Phase(r.cycle, start)),
           r.time # Paused /\ ~adjust => start > tick /\ InCycle(r.cycle, start, r.phase),
           r.time = Paused => r.time <= r.over,
           InsertOnce(e, r, start, adjust)
    PROVE  \E n : Put(e, n)
<1> DEFINE next == IF adjust THEN Adjust(r.cycle, start, tick) ELSE start
<1>1. CASE r.time = Paused
  <2>1. event' = [event EXCEPT ![e] = r] /\ UNCHANGED wheel
    BY <1>1 DEF InsertOnce
  <2> QED
    BY <1>1, <2>1 DEF Put
<1>2. CASE r.time # Paused
  <2>1. next \in Nat /\ next > tick /\ InCycle(r.cycle, next, r.phase)
    <3>1. CASE adjust
      <4>1. next \in Nat /\ next > tick /\ InCycle(r.cycle, next, Phase(r.cycle, start))
        BY <3>1, AdjustLater
      <4> QED
        BY <1>2, <3>1, <4>1 DEF InCycle
    <3>2. CASE ~adjust
      BY <1>2, <3>2
    <3> QED
      BY <3>1, <3>2
  <2>2. CASE next <= r.over
    <3> DEFINE n == [r EXCEPT !.time = next]
    <3>1. event' = [event EXCEPT ![e] = n]
          /\ wheel' = [wheel EXCEPT ![Bucket(next)] = Append(@, e)]
      BY <1>2, <2>2 DEF InsertOnce
    <3> HIDE DEF next
    <3>2. r.over \in 0..Horizon - 1 /\ Horizon \in Nat
      BY HorizonType DEF EventType
    <3>3. next \in Paused..Horizon - 1
      BY <2>1, <2>2, <3>2 DEF Paused
    <3>4. /\ n \in EventType /\ n.time = next /\ n.state = "live" /\ n.over = r.over
          /\ n.cycle = r.cycle /\ n.phase = r.phase
      BY <3>3 DEF EventType
    <3>5. next # Paused
      BY <2>1 DEF Paused
    <3> HIDE DEF n
    <3> QED
      BY <2>1, <2>2, <3>1, <3>4, <3>5 DEF Put
  <2>3. CASE ~(next <= r.over)
    <3>1. event' = [event EXCEPT ![e] = Dead] /\ UNCHANGED wheel
      BY <1>2, <2>3 DEF InsertOnce
    <3>2. Dead \in EventType /\ Dead.state # "live"
      BY HorizonType DEF Dead, Blank, EventType, Paused
    <3> QED
      BY <3>1, <3>2 DEF Put
  <2> QED
    BY <2>2, <2>3
<1> QED
  BY <1>1, <1>2

\* What an event has in the wheel once it is set.
LEMMA PutWheel ==
    ASSUME TypeOK, Position, NEW e \in Events, NEW n, Put(e, n)
    PROVE  /\ wheel' \in [Slots -> Seq(Events)]
           /\ \A s \in Slots : \A i \in 1..Len(wheel[s]) :
                 i \in 1..Len(wheel'[s]) /\ wheel'[s][i] = wheel[s][i]
           /\ slot # <<>> => wheel'[slot] = wheel[slot]
           /\ n.state = "live" /\ n.time # Paused =>
                 \E t \in tick + 1..n.time :
                    /\ Visit(t) \notin {<<>>, slot}
                    /\ \E i \in 1..Len(wheel'[Visit(t)]) : wheel'[Visit(t)][i] = e
<1>0. /\ tick \in Nat /\ slot \in Slots \cup {<<>>} /\ wheel \in [Slots -> Seq(Events)]
      /\ slot # <<>> => slot = Visit(tick)
  BY HorizonType DEF TypeOK, Position
<1>1. CASE n.state = "live" /\ n.time # Paused
  <2> DEFINE b == Bucket(n.time)
  <2>1. n.time \in 0..Horizon - 1 /\ n.time > tick
    BY <1>1 DEF Put, EventType, Paused
  <2>2. b \in Slots /\ b # Visit(tick) /\ \E v \in tick + 1..n.time : Visit(v) = b
    BY <1>0, <2>1, BucketVisited
  <2>3. wheel' = [wheel EXCEPT ![b] = Append(@, e)]
    BY <1>1 DEF Put
  <2>4. PICK v \in tick + 1..n.time : Visit(v) = b
    BY <2>2
  <2> HIDE DEF b
  <2>5. wheel'[b] = Append(wheel[b], e) /\ wheel[b] \in Seq(Events)
    BY <1>0, <2>2, <2>3
  <2>6. /\ wheel'[b] \in Seq(Events) /\ Len(wheel'[b]) = Len(wheel[b]) + 1 /\ Len(wheel[b]) \in Nat
        /\ wheel'[b][Len(wheel[b]) + 1] = e
        /\ \A i \in 1..Len(wheel[b]) : wheel'[b][i] = wheel[b][i]
    BY <2>5
  <2>7. \A s \in Slots \ {b} : wheel'[s] = wheel[s]
    BY <1>0, <2>2, <2>3
  <2>8. wheel' \in [Slots -> Seq(Events)]
    BY <1>0, <2>2, <2>3, <2>5, <2>6
  <2>9. ASSUME NEW s \in Slots, NEW i \in 1..Len(wheel[s])
        PROVE  i \in 1..Len(wheel'[s]) /\ wheel'[s][i] = wheel[s][i]
    <3>1. CASE s = b
      BY <2>6, <3>1
    <3>2. CASE s # b
      BY <2>7, <3>2
    <3> QED
      BY <3>1, <3>2
  <2>10. slot # <<>> => wheel'[slot] = wheel[slot]
    BY <1>0, <2>2, <2>7
  <2>11. b \notin {<<>>, slot}
    BY <1>0, <2>2, SlotsNotEmpty
  <2>12. Len(wheel[b]) + 1 \in 1..Len(wheel'[b])
    BY <2>6
  <2>13. \E i \in 1..Len(wheel'[b]) : wheel'[b][i] = e
    BY <2>6, <2>12
  <2> QED
    BY <2>4, <2>8, <2>9, <2>10, <2>11, <2>13
<1>2. CASE ~(n.state = "live" /\ n.time # Paused)
  <2>1. wheel' = wheel
    BY <1>2 DEF Put
  <2> QED
    BY <1>0, <1>2, <2>1
<1> QED
  BY <1>1, <1>2

\* Setting an event leaves the others as they are.
LEMMA PutEvent ==
    ASSUME TypeOK, NEW e \in Events, NEW n, Put(e, n)
    PROVE  /\ event' \in [Events -> EventType] /\ event'[e] = n
           /\ \A f \in Events \ {e} : event'[f] = event[f]
BY DEF TypeOK, Put

\* Setting an event, in the application, or when step_list() goes on past its entry,
\* keeps the invariant.
LEMMA PutKeeps ==
    ASSUME IInv, NEW e \in Events, NEW n, Put(e, n),
           UNCHANGED <<tick, until, slot, called>>,
           \/ at' = at /\ calling' = calling
           \/ /\ slot # <<>> /\ at <= Len(wheel[slot]) /\ Entry = e
              /\ calling \in {None, e} /\ calling' = None /\ at' = at + 1
    PROVE  IInv'
<1>0. /\ TypeOK /\ Position /\ CycleType /\ NotPassedBy /\ Placed /\ CalledNotDue /\ CycleKept
      /\ tick' = tick /\ until' = until /\ slot' = slot /\ called' = called
  BY DEF IInv
<1>1. /\ event' \in [Events -> EventType] /\ event'[e] = n
      /\ \A f \in Events \ {e} : event'[f] = event[f]
  BY <1>0, PutEvent
<1>2. /\ wheel' \in [Slots -> Seq(Events)]
      /\ \A s \in Slots : \A i \in 1..Len(wheel[s]) :
            i \in 1..Len(wheel'[s]) /\ wheel'[s][i] = wheel[s][i]
      /\ slot # <<>> => wheel'[slot] = wheel[slot]
      /\ n.state = "live" /\ n.time # Paused =>
            \E t \in tick + 1..n.time :
               /\ Visit(t) \notin {<<>>, slot}
               /\ \E i \in 1..Len(wheel'[Visit(t)]) : wheel'[Visit(t)][i] = e
  BY <1>0, PutWheel
<1>3. /\ tick \in Nat /\ at \in Nat \ {0} /\ slot \in Slots \cup {<<>>}
      /\ wheel \in [Slots -> Seq(Events)] /\ event \in [Events -> EventType]
  BY <1>0, HorizonType DEF TypeOK, Position
<1>4. at' \in Nat \ {0} /\ at <= at'
  BY <1>3
<1>5. /\ n \in EventType
      /\ n.state = "live" => n.cycle \in Cycles /\ n.time <= n.over
      /\ n.state = "live" /\ n.time # Paused => n.time > tick /\ InCycle(n.cycle, n.time, n.phase)
  BY DEF Put
<1>6. TypeOK'
  <2>1. ASSUME calling' # None
        PROVE  slot' # <<>> /\ at' <= Len(wheel'[slot']) /\ wheel'[slot'][at'] = calling'
    <3>1. at' = at /\ calling' = calling
      BY <2>1
    <3>2. slot # <<>> /\ at <= Len(wheel[slot]) /\ wheel[slot][at] = calling
      BY <1>0, <2>1, <3>1 DEF TypeOK, Entry
    <3> QED
      BY <1>0, <1>2, <3>1, <3>2
  <2>2. ASSUME NEW f \in Events, event'[f].state = "live" PROVE event'[f].time <= event'[f].over
    <3>1. CASE f = e
      BY <1>1, <1>5, <2>2, <3>1
    <3>2. CASE f # e
      BY <1>0, <1>1, <2>2, <3>2 DEF TypeOK, Live
    <3> QED
      BY <3>1, <3>2
  <2>3. /\ tick' \in 0..Horizon /\ until' \in Clocks \cup {-1} /\ slot' \in Slots \cup {<<>>}
        /\ called' \subseteq Events /\ calling' \in Events \cup {None}
    BY <1>0 DEF TypeOK
  <2> QED
    BY <1>1, <1>2, <1>4, <2>1, <2>2, <2>3 DEF TypeOK, Live, Entry
<1>7. Position'
  BY <1>0, <1>4 DEF Position
<1>8. CycleType'
  <2> SUFFICES ASSUME NEW f \in Events, event'[f].state = "live" PROVE event'[f].cycle \in Cycles
    BY DEF CycleType, Live
  <2>1. CASE f = e
    BY <1>1, <1>5, <2>1
  <2>2. CASE f # e
    BY <1>0, <1>1, <2>2 DEF CycleType, Live
  <2> QED
    BY <2>1, <2>2
<1>9. NotPassedBy'
  <2> SUFFICES ASSUME NEW f \in Events, event'[f].state = "live", event'[f].time # Paused
               PROVE  tick <= event'[f].time /\ (slot # <<>> => Ahead(f)' \/ Visited(f)')
    BY <1>0 DEF NotPassedBy, Waiting, Live
  <2>1. CASE f = e
    <3>1. n.time > tick /\ n.time \in Int
      BY <1>1, <1>5, <2>1, HorizonType DEF EventType, Paused
    <3>2. Visited(f)'
      BY <1>0, <1>1, <1>2, <2>1 DEF Visited, InBucket
    <3> QED
      BY <1>1, <1>3, <2>1, <3>1, <3>2
  <2>2. CASE f # e
    <3>1. event'[f] = event[f]
      BY <1>1, <2>2
    <3>2. tick <= event[f].time /\ (slot # <<>> => Ahead(f) \/ Visited(f))
      BY <1>0, <3>1 DEF NotPassedBy, Waiting, Live
    <3>3. ASSUME slot # <<>>, Ahead(f) PROVE Ahead(f)'
      <4>1. PICK i \in at..Len(wheel[slot]) : wheel[slot][i] = f
        BY <3>3 DEF Ahead
      <4>2. slot \in Slots /\ Len(wheel[slot]) \in Nat
        BY <1>3, <3>3
      <4>3. i \in at'..Len(wheel[slot])
        <5>1. CASE at' = at
          BY <5>1
        <5>2. CASE at' = at + 1 /\ Entry = e
          <6>1. i # at
            BY <2>2, <4>1, <5>2 DEF Entry
          <6> QED
            BY <1>3, <4>2, <5>2, <6>1
        <5> QED
          BY <5>1, <5>2
      <4> QED
        BY <1>0, <1>2, <3>3, <4>1, <4>3 DEF Ahead
    <3>4. ASSUME Visited(f) PROVE Visited(f)'
      <4>1. PICK t \in tick + 1..event[f].time :
               Visit(t) \notin {<<>>, slot} /\ InBucket(f, Visit(t))
        BY <3>4 DEF Visited
      <4>2. t \in Nat
        BY <1>3
      <4>3. Visit(t) \in Slots
        BY <4>1, <4>2, VisitType
      <4>4. InBucket(f, Visit(t))'
        BY <1>2, <4>1, <4>3 DEF InBucket
      <4> QED
        BY <1>0, <3>1, <4>1, <4>4 DEF Visited
    <3> QED
      BY <3>1, <3>2, <3>3, <3>4
  <2> QED
    BY <2>1, <2>2
<1>10. Placed'
  <2> SUFFICES ASSUME slot = <<>>, NEW f \in Events, event'[f].state = "live", event'[f].time # Paused
               PROVE  \E t \in tick..event'[f].time :
                         Visit(t) # <<>> /\ \E i \in 1..Len(wheel'[Visit(t)]) : wheel'[Visit(t)][i] = f
    BY <1>0 DEF Placed, Waiting, Live
  <2>1. CASE f = e
    <3>1. PICK t \in tick + 1..n.time :
             /\ Visit(t) \notin {<<>>, slot}
             /\ \E i \in 1..Len(wheel'[Visit(t)]) : wheel'[Visit(t)][i] = e
      BY <1>1, <1>2, <2>1
    <3>2. t \in tick..n.time
      BY <1>3, <3>1
    <3> QED
      BY <1>1, <2>1, <3>1, <3>2
  <2>2. CASE f # e
    <3>1. event'[f] = event[f]
      BY <1>1, <2>2
    <3>2. PICK t \in tick..event[f].time :
             Visit(t) # <<>> /\ \E i \in 1..Len(wheel[Visit(t)]) : wheel[Visit(t)][i] = f
      BY <1>0, <3>1 DEF Placed, Waiting, Live
    <3>3. t \in Nat
      BY <1>3
    <3>4. Visit(t) \in Slots
      BY <3>2, <3>3, VisitType
    <3> QED
      BY <1>2, <3>1, <3>2, <3>4
  <2> QED
    BY <2>1, <2>2
<1>11. CalledNotDue'
  <2>1. slot = <<>> => called = {}
    BY <1>0 DEF CalledNotDue
  <2>2. ASSUME NEW f \in called, event'[f].state = "live", event'[f].time # Paused,
               event'[f].time = tick, f # calling'
        PROVE  FALSE
    <3>1. f \in Events
      BY <1>0 DEF TypeOK
    <3>2. CASE f = e
      <4>1. n.time > tick /\ n.time = tick
        BY <1>1, <1>5, <2>2, <3>2
      <4> QED
        BY <1>3, <4>1
    <3>3. CASE f # e
      <4>1. event'[f] = event[f]
        BY <1>1, <3>1, <3>3
      <4>2. f = calling
        BY <1>0, <2>2, <4>1 DEF CalledNotDue, Waiting, Live
      <4>3. calling # None
        BY <3>1, <4>2, ConstantType
      <4> QED
        BY <2>2, <3>3, <4>2, <4>3
    <3> QED
      BY <3>2, <3>3
  <2> QED
    BY <1>0, <2>1, <2>2 DEF CalledNotDue, Waiting, Live
<1>12. CycleKept'
  <2> SUFFICES ASSUME NEW f \in Events, event'[f].state = "live", event'[f].time # Paused
               PROVE  InCycle(event'[f].cycle, event'[f].time, event'[f].phase)
    BY DEF CycleKept, InCycle, Waiting, Live
  <2>1. CASE f = e
    BY <1>1, <1>5, <2>1
  <2>2. CASE f # e
    BY <1>0, <1>1, <2>2, CycleKeptIn DEF Waiting, Live
  <2> QED
    BY <2>1, <2>2
<1> QED
  BY <1>6, <1>7, <1>8, <1>9, <1>10, <1>11, <1>12 DEF IInv

-----------------------------------------------------------------------------
(* The steps                                                               *)

\* The types, as the steps use them.
LEMMA TypeFacts ==
    ASSUME IInv
    PROVE  /\ tick \in Nat /\ at \in Nat \ {0} /\ slot \in Slots \cup {<<>>} /\ Horizon \in Nat \ {0}
           /\ wheel \in [Slots -> Seq(Events)] /\ event \in [Events -> EventType]
           /\ \A e \in Events : event[e] \in EventType
           /\ \A e \in Events : Live(e) => event[e].cycle \in Cycles /\ event[e].time <= event[e].over
BY HorizonType DEF IInv, TypeOK, Position, CycleType

\* insert(), remove(), pause() and resume() set the event, or leave it paused.
LEMMA InsertPuts ==
    ASSUME IInv, NEW e \in Events, Insert(e)
    PROVE  \E n : Put(e, n)
<1>1. PICK start \in Starts, d \in Durations, c \in Cycles :
         InsertOnce(e, [Blank EXCEPT !.state = "live", !.phase = Phase(c, start), !.cycle = c,
                           !.over = IF start + d < Horizon THEN start + d ELSE Horizon - 1],
                    start, TRUE)
  BY DEF Insert
<1> DEFINE over == IF start + d < Horizon THEN start + d ELSE Horizon - 1
<1> DEFINE r == [Blank EXCEPT !.state = "live", !.phase = Phase(c, start), !.cycle = c, !.over = over]
<1>2. tick \in Nat /\ Horizon \in Nat \ {0} /\ start \in Nat /\ d \in Nat
  BY TypeFacts, ConstantType
<1>3. over \in 0..Horizon - 1
  BY <1>2
<1>4. Phase(c, start) \in Nat
  BY <1>2, AdjustLater
<1>5. InsertOnce(e, r, start, TRUE)
  BY <1>1
<1> HIDE DEF over
<1>6. /\ r \in EventType /\ r.state = "live" /\ r.cycle = c /\ r.time # Paused
      /\ r.phase = Phase(c, start)
  \* one update of the record at a time
  <2> DEFINE r1 == [Blank EXCEPT !.state = "live"]
  <2> DEFINE r2 == [r1 EXCEPT !.phase = Phase(c, start)]
  <2> DEFINE r3 == [r2 EXCEPT !.cycle = c]
  <2>0. r = [r3 EXCEPT !.over = over]
    OBVIOUS
  <2> HIDE DEF r
  <2>1. r = [state |-> "live", time |-> 0, over |-> over, cycle |-> c, phase |-> Phase(c, start)]
    BY <2>0 DEF Blank
  <2>2. 0 \in Paused..Horizon - 1 /\ 0 # Paused
    BY <1>2 DEF Paused
  <2>3. r \in EventType
    BY <1>3, <1>4, <2>1, <2>2 DEF EventType
  <2> QED
    BY <2>1, <2>2, <2>3
<1> HIDE DEF r
<1> QED
  BY <1>2, <1>5, <1>6, InsertOncePuts

\* remove() sets an event to nothing, ...
LEMMA RemovePuts ==
    ASSUME IInv, NEW e \in Events, Remove(e)
    PROVE  Put(e, Dead)
<1>1. Dead \in EventType /\ Dead.state # "live"
  BY HorizonType DEF Dead, Blank, EventType, Paused
<1> QED
  BY <1>1 DEF Remove, Put

\* ... pause() to no time, ...
LEMMA PausePuts ==
    ASSUME IInv, NEW e \in Events, Pause(e)
    PROVE  \E n : Put(e, n)
<1> DEFINE n == [event[e] EXCEPT !.time = Paused]
<1>1. Live(e) /\ event' = [event EXCEPT ![e] = n] /\ wheel' = wheel
  BY DEF Pause
<1>2. event[e] \in EventType /\ event[e].cycle \in Cycles /\ Horizon \in Nat \ {0}
  BY <1>1, TypeFacts
<1>3. n \in EventType /\ n.time = Paused /\ n.cycle = event[e].cycle /\ n.over \in 0..Horizon - 1
  BY <1>2 DEF EventType, Paused
<1> HIDE DEF n
<1>4. n.time <= n.over
  BY <1>2, <1>3 DEF Paused
<1> QED
  BY <1>1, <1>2, <1>3, <1>4 DEF Put

\* ... and resume() to the time it is given.
LEMMA ResumePuts ==
    ASSUME IInv, NEW e \in Events, Resume(e)
    PROVE  \E n : Put(e, n)
<1>1. PICK delay \in Starts :
         InsertOnce(e, [event[e] EXCEPT !.phase = Phase(event[e].cycle, delay)], delay, TRUE)
  BY DEF Resume
<1> DEFINE r == [event[e] EXCEPT !.phase = Phase(event[e].cycle, delay)]
<1>2. /\ tick \in Nat /\ delay \in Nat /\ event[e] \in EventType /\ event[e].state = "live"
      /\ event[e].cycle \in Cycles /\ event[e].time <= event[e].over
  BY TypeFacts, ConstantType DEF Resume, Live
<1>3. Phase(event[e].cycle, delay) \in Nat
  BY <1>2, AdjustLater
<1>4. /\ r \in EventType /\ r.state = "live" /\ r.cycle = event[e].cycle /\ r.time <= r.over
      /\ r.phase = Phase(r.cycle, delay)
  BY <1>2, <1>3 DEF EventType
<1>5. InsertOnce(e, r, delay, TRUE)
  BY <1>1
<1> HIDE DEF r
<1> QED
  BY <1>2, <1>4, <1>5, InsertOncePuts

\* What step_list() moves to a lower level stays as it is.
LEMMA CascadePuts ==
    ASSUME IInv, ListCascade
    PROVE  Entry \in Events /\ event' = event /\ \E n : Put(Entry, n)
<1> DEFINE e == Entry
<1>1. /\ slot # <<>> /\ at <= Len(wheel[slot]) /\ ~(Live(e) /\ event[e].time = tick)
      /\ IF Live(e) THEN InsertOnce(e, event[e], event[e].time, FALSE) ELSE UNCHANGED <<event, wheel>>
  BY DEF ListCascade, Stepping
<1>2. e \in Events
  <2>1. slot \in Slots /\ wheel[slot] \in Seq(Events) /\ at \in 1..Len(wheel[slot])
    BY <1>1, TypeFacts
  <2> QED
    BY <2>1 DEF Entry
<1> HIDE DEF e
<1>3. event[e] \in EventType /\ tick \in Nat /\ event \in [Events -> EventType]
  BY <1>2, TypeFacts
<1>4. CASE ~Live(e) \/ event[e].time = Paused
  <2>1. event' = [event EXCEPT ![e] = event[e]] /\ wheel' = wheel /\ event' = event
    BY <1>1, <1>2, <1>3, <1>4 DEF InsertOnce
  <2>2. event[e].state = "live" =>
           event[e].cycle \in Cycles /\ event[e].time <= event[e].over /\ event[e].time = Paused
    BY <1>2, <1>4, TypeFacts DEF Live
  <2>3. Put(e, event[e])
    BY <1>3, <2>1, <2>2 DEF Put
  <2> QED
    BY <1>2, <2>1, <2>3 DEF e
<1>5. CASE Live(e) /\ event[e].time # Paused
  <2>1. /\ event[e].cycle \in Cycles /\ event[e].time <= event[e].over
        /\ event[e].state = "live" /\ event[e].time \in Nat
    <3>1. event[e].time \in Nat
      BY <1>3, <1>5 DEF EventType, Paused
    <3> QED
      BY <1>2, <1>5, <3>1, TypeFacts DEF Live
  <2>2. event[e].time > tick
    <3>1. tick <= event[e].time
      BY <1>2, <1>5 DEF IInv, NotPassedBy, Waiting
    <3> QED
      BY <1>1, <1>3, <1>5, <2>1, <3>1
  <2>3. InCycle(event[e].cycle, event[e].time, event[e].phase)
    BY <1>2, <1>5, CycleKeptIn DEF IInv, Waiting
  <2>4. InsertOnce(e, event[e], event[e].time, FALSE)
    BY <1>1, <1>5
  <2>5. event' = [event EXCEPT ![e] = [event[e] EXCEPT !.time = event[e].time]]
    BY <1>5, <2>1, <2>4 DEF InsertOnce
  <2>6. [event[e] EXCEPT !.time = event[e].time] = event[e]
    BY <1>3 DEF EventType
  <2>7. event' = event
    BY <1>2, <1>3, <2>5, <2>6
  <2>8. \E n : Put(e, n)
    BY <1>2, <1>3, <1>5, <2>1, <2>2, <2>3, <2>4, InsertOncePuts
  <2> QED
    BY <1>2, <2>7, <2>8 DEF e
<1> QED
  BY <1>4, <1>5

\* After its callback an event is set to its next time, from the entry it was called at.
LEMMA ReturnPuts ==
    ASSUME IInv, CallbackReturn
    PROVE  /\ slot # <<>> /\ at <= Len(wheel[slot]) /\ Entry = calling /\ calling \in Events
           /\ \E n : Put(calling, n)
<1> DEFINE e == calling
<1>1. slot # <<>> /\ at <= Len(wheel[slot]) /\ Entry = e /\ e \in Events
  BY DEF CallbackReturn, IInv, TypeOK
<1>2. IF Live(e) THEN InsertOnce(e, event[e], event[e].time, TRUE) ELSE UNCHANGED <<event, wheel>>
  BY DEF CallbackReturn
<1> HIDE DEF e
<1>3. event[e] \in EventType /\ tick \in Nat /\ event \in [Events -> EventType]
  BY <1>1, TypeFacts
<1>4. CASE ~Live(e) \/ event[e].time = Paused
  <2>1. event' = [event EXCEPT ![e] = event[e]] /\ wheel' = wheel
    BY <1>1, <1>2, <1>3, <1>4 DEF InsertOnce
  <2>2. event[e].state = "live" =>
           event[e].cycle \in Cycles /\ event[e].time <= event[e].over /\ event[e].time = Paused
    BY <1>1, <1>4, TypeFacts DEF Live
  <2>3. Put(e, event[e])
    BY <1>3, <2>1, <2>2 DEF Put
  <2> QED
    BY <1>1, <2>3 DEF e
<1>5. CASE Live(e) /\ event[e].time # Paused
  <2>1. /\ event[e].cycle \in Cycles /\ event[e].time <= event[e].over
        /\ event[e].state = "live" /\ event[e].time \in Nat
    <3>1. event[e].time \in Nat
      BY <1>3, <1>5 DEF EventType, Paused
    <3> QED
      BY <1>1, <1>5, <3>1, TypeFacts DEF Live
  <2>2. InCycle(event[e].cycle, event[e].time, event[e].phase)
    BY <1>1, <1>5, CycleKeptIn DEF IInv, Waiting
  <2>3. event[e].cycle[1] = "repeat" => event[e].phase = Phase(event[e].cycle, event[e].time)
    BY <2>2 DEF InCycle
  <2>4. InsertOnce(e, event[e], event[e].time, TRUE)
    BY <1>2, <1>5
  <2>5. \E n : Put(e, n)
    BY <1>1, <1>3, <1>5, <2>1, <2>3, <2>4, InsertOncePuts
  <2> QED
    BY <1>1, <2>5 DEF e
<1> QED
  BY <1>4, <1>5

\* An empty wheel.
LEMMA TimerInit == Init => IInv
<1> SUFFICES ASSUME Init PROVE IInv
  OBVIOUS
<1>1. \A e \in Events : event[e] = Blank
  BY DEF Init
<1>2. \A e \in Events : event[e].state # "live"
  BY <1>1 DEF Blank
<1>3. Blank \in EventType
  BY HorizonType DEF Blank, EventType, Paused
<1>4. TypeOK
  <2>1. tick \in 0..Horizon
    BY ConstantType, HorizonType DEF Init
  <2>2. event \in [Events -> EventType]
    BY <1>3 DEF Init
  <2>3. wheel \in [Slots -> Seq(Events)]
    BY DEF Init
  <2>4. until \in Clocks \cup {-1} /\ slot \in Slots \cup {<<>>} /\ at \in Nat /\ calling = None
        /\ called \subseteq Events
    BY DEF Init
  <2> QED
    BY <1>2, <2>1, <2>2, <2>3, <2>4 DEF TypeOK, Live
<1>5. Position /\ CalledNotDue
  BY DEF Init, Position, CalledNotDue
<1> QED
  BY <1>2, <1>4, <1>5 DEF IInv, CycleType, NotPassedBy, Placed, CycleKept, Waiting, Live

\* The steps that set no event.
LEMMA StepTickKeeps == IInv /\ StepTick => IInv'
<1> SUFFICES ASSUME IInv, StepTick PROVE IInv'
  OBVIOUS
<1>1. /\ until # -1 /\ slot = <<>> /\ tick <= until /\ slot' = Visit(tick) /\ at' = 1
      /\ tick' = IF Visit(tick) = <<>> THEN tick + 1 ELSE tick
      /\ until' = until /\ calling' = calling /\ event' = event /\ wheel' = wheel /\ called' = called
  BY DEF StepTick
<1>2. /\ TypeOK /\ Position /\ CycleType /\ NotPassedBy /\ Placed /\ CalledNotDue /\ CycleKept
      /\ tick \in Nat /\ Horizon \in Nat \ {0} /\ \A e \in Events : event[e].time \in Int
  BY TypeFacts DEF IInv, EventType, Paused
<1>3. until \in 0..Horizon - 1 /\ calling = None /\ called = {}
  BY <1>1, <1>2, ConstantType DEF TypeOK, CalledNotDue
<1>4. TypeOK'
  <2>1. tick' \in 0..Horizon
    BY <1>1, <1>2, <1>3
  <2>2. slot' \in Slots \cup {<<>>}
    BY <1>1, <1>2, VisitType
  <2> QED
    BY <1>1, <1>2, <1>3, <2>1, <2>2 DEF TypeOK, Live
<1>5. Position'
  BY <1>1, <1>2 DEF Position
<1>6. CycleType' /\ CycleKept'
  BY <1>1, <1>2 DEF CycleType, CycleKept, Waiting, Live
<1>7. ASSUME NEW e \in Events, Waiting(e)
      PROVE  /\ tick' <= event[e].time
             /\ slot' # <<>> => Ahead(e)' \/ Visited(e)'
             /\ slot' = <<>> => \E t \in tick'..event[e].time :
                   Visit(t) # <<>> /\ \E i \in 1..Len(wheel[Visit(t)]) : wheel[Visit(t)][i] = e
  <2>1. PICK t \in tick..event[e].time :
           Visit(t) # <<>> /\ \E i \in 1..Len(wheel[Visit(t)]) : wheel[Visit(t)][i] = e
    BY <1>1, <1>2, <1>7 DEF Placed
  <2>2. event[e].time \in Int /\ t \in Nat
    BY <1>2
  <2>3. CASE Visit(tick) = <<>>
    <3>1. t # tick
      BY <2>1, <2>3
    <3>2. t \in tick'..event[e].time
      BY <1>1, <1>2, <2>2, <2>3, <3>1
    <3> QED
      BY <1>1, <1>2, <2>1, <2>2, <2>3, <3>2
  <2>4. CASE Visit(tick) # <<>>
    <3>1. tick' = tick /\ tick <= event[e].time
      BY <1>1, <1>2, <2>2, <2>4
    <3>2. CASE Visit(t) = Visit(tick)
      BY <1>1, <2>1, <3>1, <3>2, <2>4 DEF Ahead
    <3>3. CASE Visit(t) # Visit(tick)
      <4>1. t \in tick + 1..event[e].time
        BY <1>2, <2>2, <3>3
      <4> QED
        BY <1>1, <2>1, <2>4, <3>1, <3>3, <4>1 DEF Visited, InBucket
    <3> QED
      BY <3>2, <3>3
  <2> QED
    BY <2>3, <2>4
<1>8. NotPassedBy'
  BY <1>1, <1>7 DEF NotPassedBy, Waiting, Live
<1>9. Placed'
  BY <1>1, <1>7 DEF Placed, Waiting, Live
<1>10. CalledNotDue'
  BY <1>1, <1>3 DEF CalledNotDue
<1> QED
  BY <1>4, <1>5, <1>6, <1>8, <1>9, <1>10 DEF IInv

\* Calling an event that is due keeps the invariant.
LEMMA ListCallKeeps == IInv /\ ListCall => IInv'
<1> SUFFICES ASSUME IInv, ListCall PROVE IInv'
  OBVIOUS
<1>1. /\ slot # <<>> /\ at <= Len(wheel[slot]) /\ calling' = Entry /\ called' = called \cup {Entry}
      /\ calling = None
      /\ tick' = tick /\ until' = until /\ slot' = slot /\ at' = at /\ event' = event /\ wheel' = wheel
  BY DEF ListCall, Stepping
<1>2. /\ TypeOK /\ Position /\ CycleType /\ NotPassedBy /\ Placed /\ CalledNotDue /\ CycleKept
  BY DEF IInv
<1>3. Entry \in Events /\ wheel'[slot'][at'] = Entry
  <2>1. slot \in Slots /\ wheel[slot] \in Seq(Events) /\ at \in 1..Len(wheel[slot])
    BY <1>1, TypeFacts
  <2> QED
    BY <1>1, <2>1 DEF Entry
<1>4. TypeOK'
  <2>1. tick' \in 0..Horizon /\ until' \in Clocks \cup {-1} /\ slot' \in Slots \cup {<<>>} /\ at' \in Nat
        /\ event' \in [Events -> EventType] /\ wheel' \in [Slots -> Seq(Events)]
        /\ called' \subseteq Events /\ calling' \in Events
    BY <1>1, <1>2, <1>3 DEF TypeOK
  <2>2. slot' # <<>> /\ at' <= Len(wheel'[slot']) /\ wheel'[slot'][at'] = calling'
    BY <1>1, <1>3
  <2>3. \A e \in Events : event'[e].state = "live" => event'[e].time <= event'[e].over
    BY <1>1, TypeFacts DEF Live
  <2> QED
    BY <2>1, <2>2, <2>3 DEF TypeOK, Live, Entry
<1>5. Position' /\ CycleType' /\ CycleKept'
  BY <1>1, <1>2 DEF Position, CycleType, CycleKept, Waiting, Live
<1>6. NotPassedBy' /\ Placed'
  BY <1>1, <1>2 DEF NotPassedBy, Placed, Waiting, Live, Ahead, Visited, InBucket
<1>7. CalledNotDue'
  <2>1. ASSUME NEW e \in called', e # calling' PROVE ~(Waiting(e) /\ event[e].time = tick)
    <3>1. e \in called /\ e \in Events
      BY <1>1, <1>2, <2>1 DEF TypeOK
    <3>2. e # calling
      BY <1>1, <3>1, ConstantType
    <3> QED
      BY <1>2, <3>1, <3>2 DEF CalledNotDue
  <2> QED
    BY <1>1, <2>1 DEF CalledNotDue, Waiting, Live
<1> QED
  BY <1>4, <1>5, <1>6, <1>7 DEF IInv

\* At the end of the list, all that waits is in a bucket of a later tick.
LEMMA ListDoneLater ==
    ASSUME IInv, ListDone, NEW e \in Events, Waiting(e)
    PROVE  /\ event[e].time \in Nat /\ tick < event[e].time
           /\ \E t \in tick + 1..event[e].time :
                 Visit(t) \in Slots \ {slot} /\ InBucket(e, Visit(t))
<1>1. slot # <<>> /\ at > Len(wheel[slot]) /\ slot \in Slots
  BY TypeFacts DEF ListDone, Stepping
<1>2. Len(wheel[slot]) \in Nat /\ at \in Nat
  BY <1>1, TypeFacts
<1>3. ~Ahead(e)
  BY <1>1, <1>2 DEF Ahead
<1>4. Visited(e)
  BY <1>1, <1>3 DEF IInv, NotPassedBy
<1>5. PICK t \in tick + 1..event[e].time : Visit(t) \notin {<<>>, slot} /\ InBucket(e, Visit(t))
  BY <1>4 DEF Visited
<1>6. t \in Nat /\ event[e].time \in Int /\ tick \in Nat
  BY TypeFacts DEF EventType, Paused
<1>7. Visit(t) \in Slots
  BY <1>5, <1>6, VisitType
<1> QED
  BY <1>5, <1>6, <1>7

\* When a list has been gone through, none of its events waits for it.
LEMMA ListDoneKeeps == IInv /\ ListDone => IInv'
<1> SUFFICES ASSUME IInv, ListDone PROVE IInv'
  OBVIOUS
<1>1. /\ slot # <<>> /\ calling = None /\ wheel' = [wheel EXCEPT ![slot] = <<>>]
      /\ slot' = <<>> /\ at' = 1 /\ tick' = tick + 1 /\ called' = {}
      /\ until' = until /\ calling' = calling /\ event' = event
  BY DEF ListDone, Stepping
<1>2. /\ TypeOK /\ Position /\ CycleType /\ CycleKept
      /\ tick \in Nat /\ Horizon \in Nat \ {0} /\ slot \in Slots /\ wheel \in [Slots -> Seq(Events)]
  BY <1>1, TypeFacts DEF IInv
<1>3. TypeOK'
  <2>1. until \in 0..Horizon - 1 /\ tick <= until
    BY <1>1, <1>2, ConstantType DEF TypeOK, Position
  <2>2. tick' \in 0..Horizon
    BY <1>1, <1>2, <2>1
  <2>3. wheel' \in [Slots -> Seq(Events)]
    BY <1>1, <1>2
  <2>4. \A e \in Events : event'[e].state = "live" => event'[e].time <= event'[e].over
    BY <1>1, TypeFacts DEF Live
  <2>5. /\ until' \in Clocks \cup {-1} /\ slot' \in Slots \cup {<<>>} /\ at' \in Nat
        /\ event' \in [Events -> EventType] /\ called' \subseteq Events /\ calling' = None
    BY <1>1, <1>2 DEF TypeOK
  <2> QED
    BY <2>2, <2>3, <2>4, <2>5 DEF TypeOK, Live
<1>4. Position'
  BY <1>1 DEF Position
<1>5. CycleType' /\ CycleKept'
  BY <1>1, <1>2 DEF CycleType, CycleKept, Waiting, Live
<1>6. CalledNotDue'
  BY <1>1 DEF CalledNotDue
<1>7. ASSUME NEW e \in Events, Waiting(e)
      PROVE  /\ tick' <= event[e].time
             /\ \E t \in tick'..event[e].time :
                   Visit(t) # <<>> /\ \E i \in 1..Len(wheel'[Visit(t)]) : wheel'[Visit(t)][i] = e
  <2>1. PICK t \in tick + 1..event[e].time : Visit(t) \in Slots \ {slot} /\ InBucket(e, Visit(t))
    BY <1>7, ListDoneLater
  <2>2. wheel'[Visit(t)] = wheel[Visit(t)] /\ Visit(t) # <<>>
    BY <1>1, <1>2, <2>1, SlotsNotEmpty
  <2>3. event[e].time \in Nat /\ tick < event[e].time
    BY <1>7, ListDoneLater
  <2> QED
    BY <1>1, <1>2, <2>1, <2>2, <2>3 DEF InBucket
<1>8. NotPassedBy' /\ Placed'
  BY <1>1, <1>7 DEF NotPassedBy, Placed, Waiting, Live
<1> QED
  BY <1>3, <1>4, <1>5, <1>6, <1>8 DEF IInv

\* Every step keeps the invariant: one lemma per action.
LEMMA TimerNext == IInv /\ [Next]_vars => IInv'
<1> SUFFICES ASSUME IInv, [Next]_vars PROVE IInv'
  OBVIOUS
<1>1. CASE StepCall
  <2>1. /\ until = -1 /\ until' \in Clocks /\ tick' = tick /\ slot' = slot /\ at' = at
        /\ calling' = calling /\ event' = event /\ wheel' = wheel /\ called' = called
    BY <1>1 DEF StepCall
  <2>2. slot = <<>>
    BY <2>1 DEF IInv, Position
  <2> QED
    BY <2>1, <2>2 DEF IInv, TypeOK, Position, CycleType, NotPassedBy, Placed, CalledNotDue, CycleKept,
                      Waiting, Live, Entry
<1>2. CASE StepTick
  BY <1>2, StepTickKeeps
<1>3. CASE StepReturn
  <2>1. /\ slot = <<>> /\ until' = -1 /\ tick' = tick /\ slot' = slot /\ at' = at
        /\ calling' = calling /\ event' = event /\ wheel' = wheel /\ called' = called
    BY <1>3 DEF StepReturn
  <2> QED
    BY <2>1 DEF IInv, TypeOK, Position, CycleType, NotPassedBy, Placed, CalledNotDue, CycleKept,
                Waiting, Live, Entry
<1>4. CASE ListCall
  BY <1>4, ListCallKeeps
<1>5. CASE ListCascade
  <2>1. /\ slot # <<>> /\ at <= Len(wheel[slot]) /\ calling = None /\ at' = at + 1
        /\ UNCHANGED <<tick, until, slot, called>> /\ calling' = None
    BY <1>5 DEF ListCascade, Stepping
  <2>2. PICK n : Put(Entry, n)
    BY <1>5, CascadePuts
  <2>3. Entry \in Events
    BY <1>5, CascadePuts
  <2> QED
    BY <2>1, <2>2, <2>3, PutKeeps
<1>6. CASE CallbackReturn
  <2>1. calling' = None /\ at' = at + 1 /\ UNCHANGED <<tick, until, slot, called>>
    BY <1>6 DEF CallbackReturn
  <2>2. /\ slot # <<>> /\ at <= Len(wheel[slot]) /\ Entry = calling /\ calling \in Events
        /\ \E n : Put(calling, n)
    BY <1>6, ReturnPuts
  <2> QED
    BY <2>1, <2>2, PutKeeps
<1>7. CASE ListDone
  BY <1>7, ListDoneKeeps
<1>8. ASSUME NEW e \in Events, Insert(e) \/ Remove(e) \/ Pause(e) \/ Resume(e) PROVE IInv'
  <2>1. at' = at /\ calling' = calling /\ UNCHANGED <<tick, until, slot, called>>
    BY <1>8 DEF Insert, Remove, Pause, Resume
  <2>2. \E n : Put(e, n)
    BY <1>8, InsertPuts, RemovePuts, PausePuts, ResumePuts
  <2> QED
    BY <2>1, <2>2, PutKeeps
<1>9. CASE UNCHANGED vars
  BY <1>9 DEF IInv, TypeOK, Position, CycleType, NotPassedBy, Placed, CalledNotDue, CycleKept,
              Waiting, Live, Entry, Ahead, Visited, InBucket, vars
<1> QED
  BY <1>1, <1>2, <1>3, <1>4, <1>5, <1>6, <1>7, <1>8, <1>9 DEF Next, Step

-----------------------------------------------------------------------------
(* The theorems                                                            *)

\* The inductive invariant: types, where every waiting event is, and who was called.
THEOREM TimerInvariant == Spec => []IInv
BY TimerInit, TimerNext, PTL DEF Spec

\* Types; a live event is due by its end, a callback's event is the list's entry.
THEOREM TypeOKHolds == Spec => []TypeOK
<1>1. IInv => TypeOK
  BY DEF IInv
<1> QED
  BY <1>1, TimerInvariant, PTL

\* Between two lists, every event that waits is in a bucket that step() goes through
\* in time: cascading passes none by, for any number of levels of any size, if the
\* periods are multiples of the precision.
THEOREM PlacedHolds == Spec => []Placed
<1>1. IInv => Placed
  BY DEF IInv
<1> QED
  BY <1>1, TimerInvariant, PTL

\* adjust_cycle_next() keeps a repeated event in phase for any period that is a multiple
\* of the precision (PeriodAssumption), and a weekly one on its days for any days.
THEOREM CycleKeptHolds == Spec => []CycleKept
<1>1. IInv => CycleKept
  BY DEF IInv
<1> QED
  BY <1>1, TimerInvariant, PTL

\* No event is called twice at a tick.
THEOREM CalledOnceHolds == Spec => CalledOnce
<1>1. IInv /\ [Next]_vars =>
         [calling = None /\ calling' # None => calling' \notin called]_vars
  <2> SUFFICES ASSUME IInv, [Next]_vars, calling = None, calling' # None
               PROVE  calling' \notin called
    OBVIOUS
  <2>1. ListCall
    BY DEF Next, Step, StepCall, StepTick, StepReturn, ListCascade, CallbackReturn, ListDone,
           Insert, Remove, Pause, Resume, vars
  <2>2. /\ slot # <<>> /\ at <= Len(wheel[slot]) /\ calling' = Entry
        /\ Live(Entry) /\ event[Entry].time = tick
    BY <2>1 DEF ListCall, Stepping
  <2>3. Entry \in Events
    <3>1. slot \in Slots /\ wheel[slot] \in Seq(Events) /\ at \in 1..Len(wheel[slot])
      BY <2>2, TypeFacts
    <3> QED
      BY <3>1 DEF Entry
  <2>4. Waiting(Entry) /\ Entry # calling
    BY <2>2, <2>3, TypeFacts, ConstantType DEF Waiting, Paused
  <2> QED
    BY <2>2, <2>4 DEF IInv, CalledNotDue
<1> QED
  BY <1>1, TimerInvariant, PTL DEF Spec, CalledOnce

-----------------------------------------------------------------------------
(* The wheel implements the schedule                                       *)

\* When an event is due, as the schedule sees it.
Due == [e \in Events |-> IF Waiting(e) THEN event[e].time ELSE None]

\* An event is due for the schedule if and only if it waits in the wheel.
LEMMA DueType ==
    ASSUME IInv, NEW e \in Events
    PROVE  /\ Due[e] # None <=> Waiting(e)
           /\ Waiting(e) => Due[e] = event[e].time /\ event[e].time \in tick..Horizon - 1
<1>1. Waiting(e) => event[e].time \in tick..Horizon - 1
  BY TypeFacts DEF IInv, NotPassedBy, EventType, Paused
<1>2. Waiting(e) => event[e].time \in Nat
  BY <1>1, TypeFacts
<1>3. Due[e] = IF Waiting(e) THEN event[e].time ELSE None
  BY DEF Due
<1> QED
  BY <1>1, <1>2, <1>3, ConstantType

\* Setting an event makes it due later, or not at all.
LEMMA PutSets ==
    ASSUME IInv, NEW e \in Events, NEW n, Put(e, n), tick' = tick
    PROVE  \E t \in Schedule!Later \cup {None} : Due' = [Due EXCEPT ![e] = t]
<1>1. /\ event' \in [Events -> EventType] /\ event'[e] = n
      /\ \A f \in Events \ {e} : event'[f] = event[f]
  BY PutEvent DEF IInv
<1>2. tick \in Nat /\ Horizon \in Nat \ {0} /\ n \in EventType
  BY TypeFacts DEF Put
<1> DEFINE t == IF n.state = "live" /\ n.time # Paused THEN n.time ELSE None
<1>3. t \in Schedule!Later \cup {None}
  <2>1. CASE n.state = "live" /\ n.time # Paused
    <3>1. n.time > tick /\ n.time \in 0..Horizon - 1
      BY <1>2, <2>1 DEF Put, EventType, Paused
    <3> QED
      BY <2>1, <3>1 DEF Schedule!Later
  <2>2. CASE ~(n.state = "live" /\ n.time # Paused)
    BY <2>2
  <2> QED
    BY <2>1, <2>2
<1>4. ASSUME NEW f \in Events PROVE Due'[f] = [Due EXCEPT ![e] = t][f]
  <2>1. CASE f = e
    BY <1>1, <2>1 DEF Due, Waiting, Live
  <2>2. CASE f # e
    BY <1>1, <2>2 DEF Due, Waiting, Live
  <2> QED
    BY <2>1, <2>2
<1>5. Due' = [Due EXCEPT ![e] = t]
  BY <1>4 DEF Due
<1> QED
  BY <1>3, <1>5

\* The time moves on only when nothing is due any more.
LEMMA NothingDue ==
    ASSUME IInv, NEW e \in Events,
           \/ ListDone
           \/ StepTick /\ Visit(tick) = <<>>
    PROVE  Due[e] # tick
<1>1. tick \in Nat
  BY TypeFacts
<1>2. CASE ~Waiting(e)
  BY <1>1, <1>2, DueType, ConstantType
<1>3. CASE Waiting(e) /\ ListDone
  <2>1. tick < event[e].time /\ event[e].time \in Nat
    BY <1>3, ListDoneLater
  <2> QED
    BY <1>1, <1>3, <2>1, DueType
<1>4. CASE Waiting(e) /\ StepTick /\ Visit(tick) = <<>>
  <2>1. PICK t \in tick..event[e].time : Visit(t) # <<>>
    BY <1>4 DEF IInv, Placed, StepTick
  <2>2. event[e].time \in Nat
    BY <1>1, <1>4, DueType, TypeFacts
  <2>3. t # tick /\ t \in Nat
    BY <1>1, <1>4, <2>1
  <2>4. event[e].time # tick
    BY <1>1, <2>1, <2>2, <2>3
  <2> QED
    BY <1>4, <2>4, DueType
<1> QED
  BY <1>2, <1>3, <1>4

\* Nothing is due at first.
LEMMA ScheduleInit == Init => Schedule!Init
<1> SUFFICES ASSUME Init PROVE Schedule!Init
  OBVIOUS
<1>1. \A e \in Events : ~Waiting(e)
  BY DEF Init, Waiting, Live, Blank
<1>2. tick \in 0..Horizon - 1 /\ calling = None
  BY ConstantType DEF Init
<1>3. Due = [e \in Events |-> None]
  BY <1>1 DEF Due
<1> QED
  BY <1>2, <1>3 DEF Schedule!Init, Due

\* Every step of the wheel is a step of the schedule or none at all.
LEMMA ScheduleNext == IInv /\ [Next]_vars => [Schedule!Next]_(Schedule!vars)
<1> SUFFICES ASSUME IInv, [Next]_vars PROVE [Schedule!Next]_(Schedule!vars)
  OBVIOUS
<1>1. ASSUME event' = event, tick' = tick, calling' = calling PROVE UNCHANGED Schedule!vars
  BY <1>1 DEF Schedule!vars, Waiting, Live
<1>2. ASSUME event' = event PROVE Due' = Due
  BY <1>2 DEF Due, Waiting, Live
<1>3. CASE StepCall \/ StepReturn
  BY <1>1, <1>3 DEF StepCall, StepReturn
<1>4. CASE StepTick
  <2>1. CASE Visit(tick) # <<>>
    BY <1>1, <1>4, <2>1 DEF StepTick
  <2>2. CASE Visit(tick) = <<>>
    <3>1. event' = event /\ calling' = calling /\ tick' = tick + 1 /\ calling = None
      BY <1>4, <2>2 DEF StepTick, IInv, TypeOK
    <3>2. \A e \in Events : Due[e] # tick
      BY <1>4, <2>2, NothingDue
    <3>3. Schedule!Tick
      BY <1>2, <3>1, <3>2 DEF Schedule!Tick, Due
    <3> QED
      BY <3>3 DEF Schedule!Next
  <2> QED
    BY <2>1, <2>2
<1>5. CASE ListDone
  <2>1. event' = event /\ calling' = calling /\ tick' = tick + 1 /\ calling = None
    BY <1>5 DEF ListDone, Stepping
  <2>2. \A e \in Events : Due[e] # tick
    BY <1>5, NothingDue
  <2>3. Schedule!Tick
    BY <1>2, <2>1, <2>2 DEF Schedule!Tick, Due
  <2> QED
    BY <2>3 DEF Schedule!Next
<1>6. CASE ListCall
  <2>1. /\ slot # <<>> /\ at <= Len(wheel[slot]) /\ calling' = Entry /\ calling = None
        /\ Live(Entry) /\ event[Entry].time = tick /\ tick' = tick /\ event' = event
    BY <1>6 DEF ListCall, Stepping
  <2>2. Entry \in Events
    <3>1. slot \in Slots /\ wheel[slot] \in Seq(Events) /\ at \in 1..Len(wheel[slot])
      BY <2>1, TypeFacts
    <3> QED
      BY <3>1 DEF Entry
  <2>3. Waiting(Entry)
    BY <2>1, TypeFacts DEF Waiting, Paused
  <2>4. Due[Entry] = tick
    BY <2>1, <2>2, <2>3, DueType
  <2>5. Schedule!Call(Entry)
    BY <1>2, <2>1, <2>4 DEF Schedule!Call, Due
  <2> QED
    BY <2>2, <2>5 DEF Schedule!Next
<1>7. CASE ListCascade
  <2>1. event' = event /\ tick' = tick /\ calling' = calling
    BY <1>7, CascadePuts DEF ListCascade
  <2> QED
    BY <1>1, <2>1
<1>8. CASE CallbackReturn
  <2>1. calling # None /\ calling' = None /\ tick' = tick
    BY <1>8 DEF CallbackReturn
  <2>2. PICK n : Put(calling, n)
    BY <1>8, ReturnPuts
  <2>3. calling \in Events
    BY <1>8, ReturnPuts
  <2>4. \E t \in Schedule!Later \cup {None} : Due' = [Due EXCEPT ![calling] = t]
    BY <2>1, <2>2, <2>3, PutSets
  <2>5. Schedule!Return
    BY <2>1, <2>4 DEF Schedule!Return, Due
  <2> QED
    BY <2>5 DEF Schedule!Next
<1>9. ASSUME NEW e \in Events, Insert(e) \/ Remove(e) \/ Pause(e) \/ Resume(e) PROVE Schedule!Next
  <2>1. tick' = tick /\ calling' = calling
    BY <1>9 DEF Insert, Remove, Pause, Resume
  <2>2. PICK n : Put(e, n)
    BY <1>9, InsertPuts, RemovePuts, PausePuts, ResumePuts
  <2>3. \E t \in Schedule!Later \cup {None} : Due' = [Due EXCEPT ![e] = t]
    BY <2>1, <2>2, PutSets
  <2>4. Schedule!Set(e)
    BY <2>1, <2>3 DEF Schedule!Set, Due
  <2> QED
    BY <2>4 DEF Schedule!Next
<1>10. CASE UNCHANGED vars
  BY <1>1, <1>10 DEF vars
<1> QED
  BY <1>3, <1>4, <1>5, <1>6, <1>7, <1>8, <1>9, <1>10 DEF Next, Step

\* The wheel, its levels and its cascades implement the schedule: every event is
\* called at the tick it is due, before the time moves on, if the periods are multiples
\* of the precision.
THEOREM KeepsScheduleHolds == Spec => KeepsSchedule
BY ScheduleInit, ScheduleNext, TimerInvariant, PTL DEF Spec, KeepsSchedule, Schedule!Spec
=============================================================================
