----------------------------- MODULE Alu_proofs -----------------------------
(***************************************************************************)
(* Proofs about the ALU, for every pair of words of every even number of   *)
(* bits: the halves of a product, quotient and remainder, the bits of a    *)
(* shift, the operations on halves, and what the engines assume of an ALU. *)
(***************************************************************************)
EXTENDS MCAlu, FiniteSetTheorems, TLAPS

-----------------------------------------------------------------------------
\* Division with remainder.
LEMMA Divided ==
    ASSUME NEW m \in Int, m > 0, NEW n \in Int
    PROVE  n = (n \div m) * m + (n % m) /\ n \div m \in Int /\ n % m \in 0 .. (m - 1)
OBVIOUS

LEMMA Unique ==
    ASSUME NEW m \in Int, m > 0, NEW q \in Int, NEW r \in 0 .. (m - 1), NEW n \in Int, n = q * m + r
    PROVE  n \div m = q /\ n % m = r
OBVIOUS

\* A multiple of m is lost in a remainder.
Apart(n1, n2, m) == \E k \in Int : n2 = n1 + k * m

LEMMA MultipleLost ==
    ASSUME NEW m \in Int, m > 0, NEW n1 \in Int, NEW n2 \in Int, Apart(n1, n2, m)
    PROVE  n2 % m = n1 % m
<1>1. PICK q \in Int, r \in 0 .. (m - 1) : n1 = q * m + r
    BY Divided
<1>2. PICK x \in Int : n2 = x * m + r
  <2>1. PICK k \in Int : n2 = n1 + k * m
      BY DEF Apart
  <2>2. (q + k) * m = q * m + k * m
      OBVIOUS
  <2>3. q + k \in Int /\ n2 = (q + k) * m + r
      BY <1>1, <2>1, <2>2
  <2>4. QED
      BY <2>3
<1>3. n1 % m = r
    BY <1>1, Unique
<1>4. n2 % m = r
    BY <1>2, Unique
<1>5. QED
    BY <1>3, <1>4

\* Induction over the numbers from 0 to n: the initial segments that leave S have
\* a least one.
LEMMA SegmentInduction ==
    ASSUME NEW n \in Nat, NEW S, 0 \in S, \A k \in 0 .. (n - 1) : k \in S => k + 1 \in S
    PROVE  0 .. n \subseteq S
<1> DEFINE T == {0 .. k : k \in (0 .. n) \ S}
<1>1. SUFFICES ASSUME T # {} PROVE FALSE
    OBVIOUS
<1>2. T \subseteq FiniteSubsetsOf(Nat)
  <2>1. \A k \in 0 .. n : IsFiniteSet(0 .. k)
    BY FS_Interval
  <2>2. QED
    BY <2>1 DEF FiniteSubsetsOf
<1>3. PICK X \in T : \A Y \in T : ~(<<Y, X>> \in StrictSubsetOrdering(Nat))
  <2>1. IsWellFoundedOn(StrictSubsetOrdering(Nat), FiniteSubsetsOf(Nat))
    BY FS_StrictSubsetOrderingWellFounded
  <2> HIDE DEF T
  <2>2. QED
    BY <1>1, <1>2, <2>1, WFMin
<1>4. PICK k \in (0 .. n) \ S : X = 0 .. k
    OBVIOUS
<1>5. k # 0 /\ k - 1 \in 0 .. (n - 1)
    OBVIOUS
<1>6. k - 1 \notin S
    BY <1>5
<1>7. 0 .. (k - 1) \in T
    BY <1>5, <1>6
<1>8. <<0 .. (k - 1), 0 .. k>> \in StrictSubsetOrdering(Nat)
  <2>1. k \in 0 .. k /\ k \notin 0 .. (k - 1) /\ 0 .. (k - 1) \subseteq 0 .. k
    BY <1>5
  <2>2. 0 .. k \subseteq Nat /\ 0 .. (k - 1) \subseteq Nat
    OBVIOUS
  <2>3. QED
    BY <2>1, <2>2 DEF StrictSubsetOrdering
<1>9. QED
    BY <1>3, <1>4, <1>7, <1>8

-----------------------------------------------------------------------------
\* Powers of two.
Doubling(f, k) == f = [n \in 0 .. k |-> IF n = 0 THEN 1 ELSE 2 * f[n - 1]]

\* The equation by which Power is defined has a solution.
LEMMA PowerExists == ASSUME NEW k \in Nat PROVE \E f : Doubling(f, k)
<1> DEFINE S == {m \in 0 .. k : \E f : Doubling(f, m)}
<1>1. 0 \in S
  <2> DEFINE f == [n \in 0 .. 0 |-> 1]
  <2>1. f = [n \in 0 .. 0 |-> IF n = 0 THEN 1 ELSE 2 * f[n - 1]]
      OBVIOUS
  <2> HIDE DEF f
  <2>2. QED
      BY <2>1 DEF Doubling
<1>2. ASSUME NEW m \in 0 .. (k - 1), m \in S PROVE m + 1 \in S
  <2>1. PICK g : g = [n \in 0 .. m |-> IF n = 0 THEN 1 ELSE 2 * g[n - 1]]
      BY <1>2 DEF Doubling
  <2> DEFINE f == [n \in 0 .. (m + 1) |-> IF n = m + 1 THEN 2 * g[m] ELSE g[n]]
  <2>2. \A n \in 0 .. m : f[n] = g[n]
      OBVIOUS
  <2>3. ASSUME NEW n \in 0 .. (m + 1)
        PROVE  f[n] = IF n = 0 THEN 1 ELSE 2 * f[n - 1]
    <3>1. CASE n = m + 1
        BY <3>1
    <3>2. CASE n # m + 1
      <4>1. n \in 0 .. m /\ (n # 0 => n - 1 \in 0 .. m)
          BY <3>2
      <4>2. QED
          BY <4>1, <2>1, <2>2
    <3>3. QED
        BY <3>1, <3>2
  <2>4. f = [n \in 0 .. (m + 1) |-> IF n = 0 THEN 1 ELSE 2 * f[n - 1]]
      BY <2>3
  <2> HIDE DEF f
  <2>5. Doubling(f, m + 1)
      BY <2>4 DEF Doubling
  <2>6. QED
      BY <2>5
<1> HIDE DEF S
<1>3. 0 .. k \subseteq S
    BY <1>1, <1>2, SegmentInduction
<1>4. QED
    BY <1>3 DEF S

LEMMA PowerSteps ==
    /\ Power[0] = 1
    /\ \A n \in 0 .. (Bits - 1) : Power[n + 1] = 2 * Power[n]
<1>1. Bits \in Nat
    BY BitsAssumption
<1>2. Doubling(Power, Bits)
  <2>1. \E f : f = [n \in 0 .. Bits |-> IF n = 0 THEN 1 ELSE 2 * f[n - 1]]
      BY <1>1, PowerExists DEF Doubling
  <2>2. QED
      BY <2>1, Zenon DEF Power, Doubling
<1>3. Power = [n \in 0 .. Bits |-> IF n = 0 THEN 1 ELSE 2 * Power[n - 1]]
    BY <1>2 DEF Doubling
<1> HIDE DEF Power
<1>4. ASSUME NEW n \in 0 .. (Bits - 1) PROVE Power[n + 1] = 2 * Power[n]
  <2>1. n + 1 \in 0 .. Bits /\ n + 1 # 0 /\ (n + 1) - 1 = n
      BY <1>1
  <2>2. QED
      BY <1>3, <2>1
<1>5. Power[0] = 1
    BY <1>1, <1>3
<1>6. QED
    BY <1>4, <1>5

LEMMA PowerType == \A n \in 0 .. Bits : Power[n] \in Nat /\ Power[n] > 0
<1> DEFINE S == {n \in 0 .. Bits : Power[n] \in Nat /\ Power[n] > 0}
<1>0. Bits \in Nat
    BY BitsAssumption
<1>1. 0 \in S
    BY <1>0, PowerSteps
<1>2. ASSUME NEW n \in 0 .. (Bits - 1), n \in S PROVE n + 1 \in S
  <2>1. Power[n + 1] = 2 * Power[n] /\ n + 1 \in 0 .. Bits
      BY <1>0, PowerSteps
  <2>2. QED
      BY <1>2, <2>1
<1> HIDE DEF S
<1>3. 0 .. Bits \subseteq S
    BY <1>0, <1>1, <1>2, SegmentInduction
<1>4. QED
    BY <1>3 DEF S

LEMMA PowerSum ==
    ASSUME NEW i \in 0 .. Bits, NEW j \in 0 .. (Bits - i)
    PROVE  Power[i + j] = Power[i] * Power[j]
<1> DEFINE rest == Bits - i
           S == {n \in 0 .. rest : Power[i + n] = Power[i] * Power[n]}
<1>0. Bits \in Nat /\ rest \in Nat
    BY BitsAssumption
<1>1. 0 \in S
  <2>1. i + 0 = i /\ Power[0] = 1 /\ Power[i] \in Nat
      BY <1>0, PowerSteps, PowerType
  <2>2. QED
      BY <1>0, <2>1
<1>2. ASSUME NEW n \in 0 .. (rest - 1), n \in S PROVE n + 1 \in S
  <2>1. n \in 0 .. (Bits - 1) /\ i + n \in 0 .. (Bits - 1) /\ n + 1 \in 0 .. rest
        /\ i + (n + 1) = (i + n) + 1 /\ n \in 0 .. Bits
      BY <1>0
  <2>2. Power[n + 1] = 2 * Power[n] /\ Power[(i + n) + 1] = 2 * Power[i + n]
      BY <2>1, PowerSteps
  <2>3. Power[i + n] = Power[i] * Power[n] /\ Power[i] \in Nat /\ Power[n] \in Nat
      BY <1>2, <2>1, PowerType
  <2>4. Power[i + (n + 1)] = Power[i] * Power[n + 1]
      BY <2>1, <2>2, <2>3
  <2>5. QED
      BY <2>1, <2>4
<1> HIDE DEF S, rest
<1>3. 0 .. rest \subseteq S
    BY <1>0, <1>1, <1>2, SegmentInduction
<1>4. QED
    BY <1>3 DEF S, rest

\* A word is two halves, and each has as many positive numbers as negative ones.
LEMMA Sizes ==
    /\ Half \in Nat /\ Half \div 2 \in Nat /\ Half \div 2 > 0 /\ Half = 2 * (Half \div 2)
    /\ Pow \in Nat /\ Pow \div 2 \in Nat /\ Pow \div 2 > 0 /\ Pow = 2 * (Pow \div 2)
    /\ Half <= Pow \div 2 /\ Pow = Half * Half
<1> DEFINE k == Bits \div 2
<1>1. k \in 1 .. Bits /\ k \in 0 .. (Bits - k) /\ Bits = k + k /\ k \in 0 .. Bits
      /\ k - 1 \in 0 .. (Bits - 1) /\ (k - 1) + 1 = k /\ k - 1 \in 0 .. Bits
    BY BitsAssumption
<1>2. Half = Power[k] /\ Pow = Power[Bits]
    BY DEF Half, Pow
<1> HIDE DEF k
<1>3. Pow = Half * Half
    BY <1>1, <1>2, PowerSum
<1>4. Half = 2 * Power[k - 1] /\ Power[k - 1] \in Nat /\ Power[k - 1] > 0
    BY <1>1, <1>2, PowerSteps, PowerType
<1> DEFINE Halved(h, t, p) ==
               /\ h \in Nat /\ h \div 2 = t
               /\ p \in Nat /\ p \div 2 \in Nat /\ p \div 2 > 0 /\ p = 2 * (p \div 2)
               /\ h <= p \div 2
<1>5. ASSUME NEW h, NEW t \in Nat, t > 0, h = 2 * t, NEW p, p = h * h
      PROVE  Halved(h, t, p)
  <2> DEFINE x == h * t
  <2>1. h \in Nat /\ x \in Nat /\ x >= h /\ p = 2 * x /\ x > 0
      BY <1>5
  <2> HIDE DEF x
  <2>2. p \div 2 = x /\ h \div 2 = t
      BY <1>5, <2>1
  <2>3. QED
      BY <1>5, <2>1, <2>2
<1> HIDE DEF Halved
<1>6. Halved(Half, Power[k - 1], Pow)
    BY <1>3, <1>4, <1>5
<1>7. QED
    BY <1>3, <1>4, <1>6 DEF Halved

-----------------------------------------------------------------------------
\* A quotient has the bounds of its dividend.
LEMMA QuotientRange ==
    ASSUME NEW m \in Nat, m > 0, NEW n \in Int, NEW low \in Int, NEW high \in Int,
           low * m <= n, n < high * m
    PROVE  n \div m \in low .. (high - 1)
<1>1. PICK q \in Int, r \in 0 .. (m - 1) : n = q * m + r /\ q = n \div m
    BY Divided
<1>2. ASSUME q < low PROVE FALSE
  <2>1. q + 1 <= low
      BY <1>1, <1>2
  <2>2. (q + 1) * m <= low * m
      BY <1>1, <2>1
  <2>3. QED
      BY <1>1, <2>2
<1>3. ASSUME q >= high PROVE FALSE
  <2>1. q * m >= high * m
      BY <1>1, <1>3
  <2>2. QED
      BY <1>1, <2>1
<1>4. QED
    BY <1>1, <1>2, <1>3

\* The signed number of a word of m values.
SignedIn(w, m) == IF 2 * w < m THEN w ELSE w - m

LEMMA Signs ==
    /\ \A w : SignedOf(w) = SignedIn(w, Pow)
    /\ \A w : SignedLow(w) = SignedIn(w % Half, Half)
BY DEF SignedOf, SignedLow, Low, SignedIn

\* It differs from the word by no or one m.
LEMMA SignedRange ==
    ASSUME NEW t \in Nat, t > 0, NEW m, m = 2 * t, NEW w \in 0 .. (m - 1)
    PROVE  /\ SignedIn(w, m) \in (-t) .. (t - 1)
           /\ \E k \in 0 .. 1 : w = SignedIn(w, m) + m * k
<1>1. CASE 2 * w < m
    BY <1>1 DEF SignedIn
<1>2. CASE ~(2 * w < m)
  <2>1. w = SignedIn(w, m) + m * 1
      BY <1>2 DEF SignedIn
  <2>2. QED
      BY <1>2, <2>1 DEF SignedIn
<1>3. QED
    BY <1>1, <1>2

\* A number of that range comes back from its word.
LEMMA SignedBack ==
    ASSUME NEW t \in Nat, t > 0, NEW m, m = 2 * t, NEW n \in (-t) .. (t - 1)
    PROVE  n % m \in 0 .. (m - 1) /\ SignedIn(n % m, m) = n
<1>0. m \in Nat /\ m > 0
    OBVIOUS
<1>1. CASE n >= 0
  <2>1. n % m = n
    <3>1. n = m * 0 + n /\ n \in 0 .. (m - 1)
        BY <1>1
    <3>2. QED
        BY <1>0, <3>1, Unique
  <2>2. QED
      BY <1>1, <2>1 DEF SignedIn
<1>2. CASE n < 0
  <2>1. n % m = n + m
    <3>1. n = m * (-1) + (n + m) /\ n + m \in 0 .. (m - 1)
        BY <1>2
    <3>2. QED
        BY <1>0, <3>1, Unique
  <2>2. QED
      BY <1>2, <2>1 DEF SignedIn
<1>3. QED
    BY <1>1, <1>2

-----------------------------------------------------------------------------
\* Products.
LEMMA TimesMonotone ==
    ASSUME NEW x \in Int, NEW y \in Int, x <= y, NEW z \in Nat
    PROVE  x * z <= y * z
OBVIOUS

LEMMA SignedProduct ==
    ASSUME NEW t \in Nat, t > 0, NEW m, m = 2 * t,
           NEW x \in (-t) .. (t - 1), NEW y \in (-t) .. (m - 1)
    PROVE  (-t) * m <= x * y /\ x * y < t * m
<1>1. CASE y >= 0
  <2>1. y \in Nat /\ (-t) * y <= x * y /\ x * y <= t * y
      BY <1>1, TimesMonotone
  <2>2. y * t <= (m - 1) * t
      BY <1>1, TimesMonotone
  <2>3. QED
      BY <2>1, <2>2
<1>2. CASE y < 0
  <2> DEFINE z == -y
  <2>1. z \in 1 .. t /\ x * y = -(x * z)
      BY <1>2
  <2>2. (-t) * z <= x * z /\ x * z <= t * z
      BY <2>1, TimesMonotone
  <2>3. z * t <= t * t
      BY <2>1, TimesMonotone
  <2> HIDE DEF z
  <2>4. QED
      BY <2>1, <2>2, <2>3
<1>3. QED
    BY <1>1, <1>2

LEMMA UnsignedProduct ==
    ASSUME NEW m \in Nat, m > 0, NEW x \in 0 .. (m - 1), NEW y \in 0 .. (m - 1)
    PROVE  0 * m <= x * y /\ x * y < m * m
<1>1. x * y <= (m - 1) * y
    BY TimesMonotone
<1>2. y * m <= (m - 1) * m
    BY TimesMonotone
<1>3. QED
    BY <1>1, <1>2

\* The signed high part and the low part of a number that two words hold.
LEMMA SignedHalves ==
    ASSUME NEW n \in Int, (-(Pow \div 2)) * Pow <= n, n < (Pow \div 2) * Pow
    PROVE  SignedOf(High(n)) * Pow + (n % Pow) = n
<1> DEFINE t == Pow \div 2
           q == n \div Pow
<1>1. t \in Nat /\ t > 0 /\ Pow = 2 * t /\ Pow \in Int /\ Pow > 0
    BY Sizes
<1>2. q \in (-t) .. (t - 1)
    BY <1>1, QuotientRange
<1>3. n = q * Pow + (n % Pow)
    BY <1>1, Divided
<1> HIDE DEF t, q
<1>4. SignedIn(q % Pow, Pow) = q
    BY <1>1, <1>2, SignedBack
<1>5. SignedOf(High(n)) = q
    BY <1>4, Signs DEF High, q
<1>6. QED
    BY <1>3, <1>5

LEMMA UnsignedHalves ==
    ASSUME NEW n \in Int, 0 * Pow <= n, n < Pow * Pow
    PROVE  High(n) * Pow + (n % Pow) = n
<1> DEFINE q == n \div Pow
<1>1. Pow \in Int /\ Pow > 0
    BY Sizes
<1>2. q \in 0 .. (Pow - 1)
    BY <1>1, QuotientRange
<1>3. n = q * Pow + (n % Pow)
    BY <1>1, Divided
<1> HIDE DEF q
<1>4. q % Pow = q
  <2>1. q = 0 * Pow + q
      BY <1>1, <1>2
  <2>2. QED
      BY <1>1, <1>2, <2>1, Unique
<1>5. High(n) = q
    BY <1>4 DEF High, q
<1>6. QED
    BY <1>3, <1>5

\* The signs of the factors make no difference to the low part of a product.
LEMMA LowProducts ==
    ASSUME NEW x \in Word, NEW y \in Word
    PROVE  /\ (SignedOf(x) * y) % Pow = (SignedOf(x) * SignedOf(y)) % Pow
           /\ (x * y) % Pow = (SignedOf(x) * SignedOf(y)) % Pow
<1> DEFINE t == Pow \div 2
<1>1. t \in Nat /\ t > 0 /\ Pow = 2 * t /\ Pow \in Int /\ Pow > 0
    BY Sizes
<1> HIDE DEF t
<1>2. PICK j \in 0 .. 1 : x = SignedIn(x, Pow) + Pow * j
    BY <1>1, SignedRange DEF Word
<1>3. PICK k \in 0 .. 1 : y = SignedIn(y, Pow) + Pow * k
    BY <1>1, SignedRange DEF Word
<1>4. SignedOf(x) \in Int /\ SignedOf(y) \in Int /\ x \in Int /\ y \in Int
    BY <1>1, SignedRange, Signs DEF Word
<1> DEFINE u == SignedOf(x)
           v == SignedOf(y)
<1>5. x = u + Pow * j /\ y = v + Pow * k
    BY <1>2, <1>3, Signs
<1> HIDE DEF u, v
<1>6. Apart(u * v, u * y, Pow)
  <2>1. u * y = u * v + (u * k) * Pow
      BY <1>1, <1>4, <1>5 DEF u, v
  <2>2. QED
      BY <1>4, <2>1 DEF Apart, u
<1>7. Apart(u * y, x * y, Pow)
  <2>1. x * y = u * y + (j * y) * Pow
      BY <1>1, <1>4, <1>5 DEF u
  <2>2. QED
      BY <1>4, <2>1 DEF Apart
<1>8. u * v \in Int /\ u * y \in Int /\ x * y \in Int
    BY <1>4 DEF u, v
<1>9. (u * y) % Pow = (u * v) % Pow /\ (x * y) % Pow = (u * y) % Pow
    BY <1>1, <1>6, <1>7, <1>8, MultipleLost
<1>10. QED
    BY <1>9 DEF u, v

\* The operands are words.
Operands == a \in Word /\ b \in Word

LEMMA AlwaysOperands == Spec => []Operands
<1>0. Pow \in Int /\ Pow > 0
    BY Sizes
<1>1. Init => Operands
    BY <1>0 DEF Init, Operands, Word
<1>2. Operands /\ [NextOperand]_<<a, b>> => Operands'
    BY <1>0 DEF NextOperand, Operands, Word
<1>3. QED
    BY <1>1, <1>2, PTL DEF Spec

LEMMA ProductResults ==
    /\ Result("kMul") = (SignedOf(a) * SignedOf(b)) % Pow
    /\ Result("kMulh") = High(SignedOf(a) * SignedOf(b))
    /\ Result("kMulhsu") = High(SignedOf(a) * b)
    /\ Result("kMulhu") = High(a * b)
BY DEF Result, execute

LEMMA ProductsWhole == Operands => ProductHalves
<1> SUFFICES ASSUME Operands
             PROVE  ProductHalves
    OBVIOUS
<1> DEFINE t == Pow \div 2
           u == SignedOf(a)
           v == SignedOf(b)
<1>1. t \in Nat /\ t > 0 /\ Pow = 2 * t /\ Pow \in Nat /\ Pow > 0
    BY Sizes
<1>2. a \in 0 .. (Pow - 1) /\ b \in 0 .. (Pow - 1)
    BY DEF Operands, Word
<1> HIDE DEF t
<1>3. SignedIn(a, Pow) \in (-t) .. (t - 1) /\ SignedIn(b, Pow) \in (-t) .. (t - 1)
    BY <1>1, <1>2, SignedRange
<1>4. u \in (-t) .. (t - 1) /\ v \in (-t) .. (t - 1)
    BY <1>3, Signs
<1> HIDE DEF u, v
<1>5. SignedOf(High(u * v)) * Pow + ((u * v) % Pow) = u * v
  <2>1. v \in (-t) .. (Pow - 1)
      BY <1>1, <1>4
  <2>2. (-t) * Pow <= u * v /\ u * v < t * Pow
      BY <1>1, <1>4, <2>1, SignedProduct
  <2>3. u * v \in Int
      BY <1>4
  <2>4. QED
      BY <2>2, <2>3, SignedHalves DEF t
<1>6. SignedOf(High(u * b)) * Pow + ((u * b) % Pow) = u * b
  <2>1. b \in (-t) .. (Pow - 1)
      BY <1>1, <1>2
  <2>2. (-t) * Pow <= u * b /\ u * b < t * Pow
      BY <1>1, <1>4, <2>1, SignedProduct
  <2>3. u * b \in Int
      BY <1>2, <1>4
  <2>4. QED
      BY <2>2, <2>3, SignedHalves DEF t
<1>7. High(a * b) * Pow + ((a * b) % Pow) = a * b
  <2>1. 0 * Pow <= a * b /\ a * b < Pow * Pow
      BY <1>1, <1>2, UnsignedProduct
  <2>2. a * b \in Int
      BY <1>2
  <2>3. QED
      BY <2>1, <2>2, UnsignedHalves
<1>8. (u * b) % Pow = (u * v) % Pow /\ (a * b) % Pow = (u * v) % Pow
    BY LowProducts DEF Operands, u, v
<1>9. QED
    BY <1>5, <1>6, <1>7, <1>8, ProductResults DEF ProductHalves, u, v

\* The halves of a product (kMul with kMulh, kMulhsu and kMulhu of Alu::execute) are the
\* whole product, for every pair of words.
THEOREM ProductsComplete == Spec => []ProductHalves
BY AlwaysOperands, ProductsWhole, PTL

-----------------------------------------------------------------------------
\* Quotients and remainders.  C++ rounds towards zero, which is the quotient and the
\* remainder of the numbers without their signs, with signs.
IsQuotient(x, y, t) ==
    /\ TruncDiv(x, y) \in (-t) .. (t - 1)
    /\ TruncRem(x, y) \in (-t) .. (t - 1)
    /\ Divides(x, y, TruncDiv(x, y), TruncRem(x, y))

LEMMA Truncated ==
    ASSUME NEW t \in Nat, t > 0, NEW x \in (-t) .. (t - 1), NEW y \in (-t) .. (t - 1),
           y # 0, ~(x = -t /\ y = -1)
    PROVE  IsQuotient(x, y, t)
<1> DEFINE A == Abs(x)
           B == Abs(y)
<1>1. A \in 0 .. t /\ B \in 1 .. t
    BY DEF Abs
<1> HIDE DEF A, B
<1>2. PICK q \in Int, r \in 0 .. (B - 1) : A = q * B + r
  <2>1. B \in Int /\ B > 0 /\ A \in Int
      BY <1>1
  <2>2. A = (A \div B) * B + (A % B) /\ A \div B \in Int /\ A % B \in 0 .. (B - 1)
      BY <2>1, Divided
  <2>3. QED
      BY <2>2
<1>0. A \div B = q
    BY <1>1, <1>2, Unique
<1>3. q \in 0 .. A
  <2>1. 0 * B <= A /\ A < (A + 1) * B
    <3>1. 1 * (A + 1) <= B * (A + 1)
        BY <1>1, TimesMonotone
    <3>2. QED
        BY <1>1, <3>1
  <2>2. A \div B \in 0 .. ((A + 1) - 1)
      BY <1>1, <2>1, QuotientRange
  <2>3. QED
      BY <1>0, <1>1, <2>2
<1>4. TruncDiv(x, y) = Sign(x) * Sign(y) * q
    BY <1>0 DEF TruncDiv, A, B
<1>5. A = t /\ y < 0 => q < t
  <2> SUFFICES ASSUME A = t, y < 0, q >= t
               PROVE  FALSE
      BY <1>1, <1>3
  <2>1. x = -t /\ B >= 2
      BY DEF Abs, A, B
  <2>2. 2 * q <= B * q
      BY <1>1, <1>3, <2>1, TimesMonotone
  <2>3. QED
      BY <1>1, <1>2, <1>3, <2>2
<1>6. CASE x >= 0 /\ y > 0
  <2>1. Sign(x) = 1 /\ Sign(y) = 1 /\ A = x /\ B = y
      BY <1>6 DEF Sign, Abs, A, B
  <2>2. TruncDiv(x, y) = q
      BY <1>1, <1>3, <1>4, <2>1
  <2>3. TruncRem(x, y) = r
      BY <1>1, <1>2, <1>3, <2>1, <2>2 DEF TruncRem
  <2>4. x = q * y + r
      BY <1>2, <2>1
  <2>5. QED
      BY <1>1, <1>3, <1>6, <2>1, <2>2, <2>3, <2>4 DEF IsQuotient, Divides, Abs, Sign
<1>7. CASE x >= 0 /\ y < 0
  <2>1. Sign(x) = 1 /\ Sign(y) = -1 /\ A = x /\ B = -y
      BY <1>7 DEF Sign, Abs, A, B
  <2>2. TruncDiv(x, y) = -q
      BY <1>1, <1>3, <1>4, <2>1
  <2>3. x = (-q) * y + r
      BY <1>1, <1>2, <1>3, <2>1
  <2>4. TruncRem(x, y) = r
      BY <1>1, <1>3, <2>2, <2>3 DEF TruncRem
  <2>5. QED
      BY <1>1, <1>3, <1>7, <2>1, <2>2, <2>3, <2>4 DEF IsQuotient, Divides, Abs, Sign
<1>8. CASE x < 0 /\ y > 0
  <2>1. Sign(x) = -1 /\ Sign(y) = 1 /\ A = -x /\ B = y
      BY <1>8 DEF Sign, Abs, A, B
  <2>2. TruncDiv(x, y) = -q
      BY <1>1, <1>3, <1>4, <2>1
  <2>3. x = (-q) * y + (-r)
      BY <1>1, <1>2, <1>3, <2>1
  <2>4. TruncRem(x, y) = -r
      BY <1>1, <1>3, <2>2, <2>3 DEF TruncRem
  <2>5. QED
      BY <1>1, <1>3, <1>8, <2>1, <2>2, <2>3, <2>4 DEF IsQuotient, Divides, Abs, Sign
<1>9. CASE x < 0 /\ y < 0
  <2>1. Sign(x) = -1 /\ Sign(y) = -1 /\ A = -x /\ B = -y
      BY <1>9 DEF Sign, Abs, A, B
  <2>2. TruncDiv(x, y) = q
      BY <1>1, <1>3, <1>4, <2>1
  <2>3. x = q * y + (-r)
      BY <1>1, <1>2, <1>3, <2>1
  <2>4. TruncRem(x, y) = -r
      BY <1>1, <1>3, <2>2, <2>3 DEF TruncRem
  <2>5. q < t
      BY <1>1, <1>3, <1>5, <1>9
  <2>6. QED
      BY <1>1, <1>3, <1>9, <2>1, <2>2, <2>3, <2>4, <2>5 DEF IsQuotient, Divides, Abs, Sign
<1>10. QED
    BY <1>6, <1>7, <1>8, <1>9

\* Without signs C++ has the quotient and the remainder of \div and %.
LEMMA Unsigned ==
    ASSUME NEW x \in Nat, NEW y \in Nat
    PROVE  Divides(x, y, x \div y, x % y)
<1> SUFFICES ASSUME y # 0
             PROVE  /\ x = (x \div y) * y + (x % y)
                    /\ Abs(x % y) < Abs(y)
                    /\ x % y # 0 => Sign(x % y) = Sign(x)
    BY DEF Divides
<1>1. x = (x \div y) * y + (x % y) /\ x % y \in 0 .. (y - 1)
    BY Divided
<1>2. QED
    BY <1>1 DEF Abs, Sign

\* A signed word comes back from a word, and the signed half of a word from its
\* extension.
LEMMA WordBack ==
    ASSUME NEW n \in (-(Pow \div 2)) .. (Pow \div 2 - 1)
    PROVE  SignedOf(n % Pow) = n
BY Sizes, SignedBack, Signs

LEMMA HalfOf ==
    ASSUME NEW n \in Int
    PROVE  (n % Pow) % Half = n % Half
<1>1. Half \in Int /\ Half > 0 /\ Pow \in Int /\ Pow > 0
    BY Sizes
<1>2. n % Pow \in Int
    BY <1>1, Divided
<1>3. Apart(n, n % Pow, Half)
  <2> DEFINE q == n \div Pow
             r == n % Pow
  <2>1. n = q * Pow + r /\ q \in Int /\ r \in Int
      BY <1>1, Divided
  <2> HIDE DEF q, r
  <2>2. r = n + ((-q) * Half) * Half /\ (-q) * Half \in Int
    <3>1. Pow = Half * Half /\ Half \in Int
        BY Sizes
    <3>2. q * Pow = (q * Half) * Half
        BY <2>1, <3>1
    <3>3. QED
        BY <2>1, <3>1, <3>2
  <2>3. QED
      BY <2>2 DEF Apart, r
<1>4. QED
    BY <1>1, <1>2, <1>3, MultipleLost

LEMMA HalfBack ==
    ASSUME NEW n \in (-(Half \div 2)) .. (Half \div 2 - 1)
    PROVE  SignedOf(Extended(n)) = n
<1>1. /\ Half \div 2 \in Nat /\ Half \div 2 > 0 /\ Half = 2 * (Half \div 2)
      /\ n \in (-(Pow \div 2)) .. (Pow \div 2 - 1)
    BY Sizes
<1>2. SignedLow(n % Pow) = n
    BY <1>1, HalfOf, SignedBack, Signs
<1>3. QED
    BY <1>1, <1>2, WordBack DEF Extended

LEMMA OperandRanges ==
    ASSUME Operands
    PROVE  /\ a \in Nat /\ b \in Nat /\ Low(a) \in Nat /\ Low(b) \in Nat
           /\ SignedOf(a) \in (-(Pow \div 2)) .. (Pow \div 2 - 1)
           /\ SignedOf(b) \in (-(Pow \div 2)) .. (Pow \div 2 - 1)
           /\ SignedLow(a) \in (-(Half \div 2)) .. (Half \div 2 - 1)
           /\ SignedLow(b) \in (-(Half \div 2)) .. (Half \div 2 - 1)
<1>1. a \in 0 .. (Pow - 1) /\ b \in 0 .. (Pow - 1) /\ a \in Int /\ b \in Int
    BY Sizes DEF Operands, Word
<1>2. a % Half \in 0 .. (Half - 1) /\ b % Half \in 0 .. (Half - 1)
    BY <1>1, Sizes, Divided
<1>3. /\ SignedIn(a, Pow) \in (-(Pow \div 2)) .. (Pow \div 2 - 1)
      /\ SignedIn(b, Pow) \in (-(Pow \div 2)) .. (Pow \div 2 - 1)
    BY <1>1, Sizes, SignedRange
<1>4. /\ SignedIn(a % Half, Half) \in (-(Half \div 2)) .. (Half \div 2 - 1)
      /\ SignedIn(b % Half, Half) \in (-(Half \div 2)) .. (Half \div 2 - 1)
    BY <1>2, Sizes, SignedRange
<1>5. QED
    BY <1>1, <1>2, <1>3, <1>4, Sizes, Signs DEF Low

\* A divisor that is not zero as a number is not zero as a word.
LEMMA NotZero ==
    /\ SignedOf(b) # 0 => b # 0
    /\ Low(b) # 0 => b # 0
    /\ SignedLow(b) # 0 => b # 0
<1>1. 0 % Half = 0 /\ 0 < Half /\ 0 < Pow
    BY Sizes
<1>2. QED
    BY <1>1 DEF SignedOf, SignedLow, Low

LEMMA DivisionResults ==
    /\ SignedOf(b) # 0 /\ ~(SignedOf(a) = -(Pow \div 2) /\ SignedOf(b) = -1) =>
          /\ Result("kDiv") = TruncDiv(SignedOf(a), SignedOf(b)) % Pow
          /\ Result("kRem") = TruncRem(SignedOf(a), SignedOf(b)) % Pow
    /\ b # 0 => Result("kDivu") = a \div b /\ Result("kRemu") = a % b
    /\ SignedLow(b) # 0 =>
          /\ Result("kDivw") = Extended(TruncDiv(SignedLow(a), SignedLow(b)))
          /\ Result("kRemw") = Extended(TruncRem(SignedLow(a), SignedLow(b)))
    /\ Low(b) # 0 => Result("kDivuw") = Low(a) \div Low(b) /\ Result("kRemuw") = Low(a) % Low(b)
BY NotZero DEF Result, execute, executew

LEMMA DivisionsWhole == Operands => DivisionPairs
<1> SUFFICES ASSUME Operands
             PROVE  DivisionPairs
    OBVIOUS
<1>1. ASSUME ~Undefined("kRem", a, b), SignedOf(b) # 0
      PROVE  Divides(SignedOf(a), SignedOf(b), SignedOf(Result("kDiv")), SignedOf(Result("kRem")))
  <2>1. ~(SignedOf(a) = -(Pow \div 2) /\ SignedOf(b) = -1)
      BY <1>1 DEF Undefined
  <2>2. IsQuotient(SignedOf(a), SignedOf(b), Pow \div 2)
      BY <1>1, <2>1, OperandRanges, Sizes, Truncated
  <2>3. /\ SignedOf(Result("kDiv")) = TruncDiv(SignedOf(a), SignedOf(b))
        /\ SignedOf(Result("kRem")) = TruncRem(SignedOf(a), SignedOf(b))
      BY <1>1, <2>1, <2>2, DivisionResults, WordBack DEF IsQuotient
  <2>4. QED
      BY <2>2, <2>3 DEF IsQuotient
<1>2. ASSUME b # 0
      PROVE  Divides(a, b, Result("kDivu"), Result("kRemu"))
    BY <1>2, OperandRanges, Unsigned, DivisionResults
<1>3. ASSUME ~Undefined("kRemw", a, b), SignedLow(b) # 0
      PROVE  Divides(SignedLow(a), SignedLow(b), SignedOf(Result("kDivw")), SignedOf(Result("kRemw")))
  <2>1. ~(SignedLow(a) = -(Half \div 2) /\ SignedLow(b) = -1)
      BY <1>3 DEF Undefined
  <2>2. IsQuotient(SignedLow(a), SignedLow(b), Half \div 2)
      BY <1>3, <2>1, OperandRanges, Sizes, Truncated
  <2>3. /\ SignedOf(Result("kDivw")) = TruncDiv(SignedLow(a), SignedLow(b))
        /\ SignedOf(Result("kRemw")) = TruncRem(SignedLow(a), SignedLow(b))
      BY <1>3, <2>2, DivisionResults, HalfBack DEF IsQuotient
  <2>4. QED
      BY <2>2, <2>3 DEF IsQuotient
<1>4. ASSUME Low(b) # 0
      PROVE  Divides(Low(a), Low(b), Result("kDivuw"), Result("kRemuw"))
    BY <1>4, OperandRanges, Unsigned, DivisionResults
<1>5. QED
    BY <1>1, <1>2, <1>3, <1>4 DEF DivisionPairs, Divides

\* Quotient and remainder of the same operands give back the dividend wherever C++
\* defines them (kDiv to kRemuw of Alu::execute), for every pair of words.
THEOREM DivisionsComplete == Spec => []DivisionPairs
BY AlwaysOperands, DivisionsWhole, PTL

-----------------------------------------------------------------------------
\* Operations on halves.  What is extended depends on the low half alone.
LEMMA SameExtension ==
    ASSUME NEW m \in Int, NEW n \in Int, Apart(m, n, Half)
    PROVE  Extended(m) = Extended(n)
<1>0. Half \in Int /\ Half > 0
    BY Sizes
<1>1. n % Half = m % Half
    BY <1>0, MultipleLost
<1>2. (n % Pow) % Half = (m % Pow) % Half
    BY <1>1, HalfOf
<1>3. QED
    BY <1>2 DEF Extended, SignedLow, Low

LEMMA ApartBy ==
    ASSUME NEW h \in Int, NEW x \in Int, NEW k \in Int, NEW u, u = x + k * h
    PROVE  Apart(x, u, h)
BY DEF Apart

LEMMA Parts ==
    ASSUME NEW h \in Int, NEW x \in Int, NEW y \in Int, NEW u \in Int, NEW v \in Int,
           Apart(x, u, h), Apart(y, v, h)
    PROVE  Apart(x + y, u + v, h) /\ Apart(x - y, u - v, h) /\ Apart(x * y, u * v, h)
<1>1. PICK j \in Int, k \in Int : u = x + j * h /\ v = y + k * h
    BY DEF Apart
<1>2. u + v = (x + y) + (j + k) * h /\ u - v = (x - y) + (j - k) * h
    BY <1>1
<1>3. u * v = x * y + (j * y + k * x + j * k * h) * h
    BY <1>1
<1>4. /\ j + k \in Int /\ j - k \in Int /\ j * y + k * x + j * k * h \in Int
      /\ x + y \in Int /\ x - y \in Int /\ x * y \in Int
    OBVIOUS
<1>5. Apart(x + y, u + v, h)
    BY <1>2, <1>4, ApartBy
<1>6. Apart(x - y, u - v, h)
    BY <1>2, <1>4, ApartBy
<1>7. Apart(x * y, u * v, h)
    BY <1>3, <1>4, ApartBy
<1>8. QED
    BY <1>5, <1>6, <1>7

\* A word and its low half, as signed numbers and as numbers without a sign.
LEMMA LowApart ==
    ASSUME NEW w \in Word
    PROVE  Apart(SignedOf(w), SignedLow(w), Half) /\ Apart(w, Low(w), Half)
<1>1. /\ Half \in Int /\ Half > 0 /\ Half \div 2 \in Nat /\ Half \div 2 > 0
      /\ Half = 2 * (Half \div 2) /\ Pow \div 2 \in Nat /\ Pow \div 2 > 0
      /\ Pow = 2 * (Pow \div 2)
    BY Sizes
<1>2. w \in Int /\ w \in 0 .. (Pow - 1)
    BY <1>1 DEF Word
<1>3. PICK j \in 0 .. 1 : w = SignedIn(w, Pow) + Pow * j
    BY <1>1, <1>2, SignedRange
<1> DEFINE q == w \div Half
           r == w % Half
<1>4. w = q * Half + r /\ q \in Int /\ r \in 0 .. (Half - 1)
    BY <1>1, <1>2, Divided
<1> HIDE DEF q, r
<1>5. PICK k \in 0 .. 1 : r = SignedIn(r, Half) + Half * k
    BY <1>1, <1>4, SignedRange
<1>6. SignedOf(w) = SignedIn(w, Pow) /\ SignedLow(w) = SignedIn(r, Half)
    BY Signs DEF r
<1>7. SignedIn(w, Pow) \in Int /\ SignedIn(r, Half) \in Int
    BY <1>1, <1>2, <1>4 DEF SignedIn
<1>8. SignedLow(w) = SignedOf(w) + (Half * j - q - k) * Half
  <2> DEFINE x == Pow * j
             y == q * Half
             z == Half * k
             s == (Half * j - q - k) * Half
  <2>1. x = (Half * j) * Half /\ Half * j \in Int
    <3>1. Pow = Half * Half /\ Half \in Int
        BY Sizes
    <3>2. QED
        BY <3>1
  <2>2. s = x - y - z /\ x \in Int /\ y \in Int /\ z \in Int
      BY <1>1, <1>4, <2>1
  <2>3. w = SignedIn(w, Pow) + x /\ w = y + r /\ r = SignedIn(r, Half) + z /\ r \in Int
      BY <1>3, <1>4, <1>5
  <2> HIDE DEF x, y, z, s
  <2>4. SignedIn(r, Half) = SignedIn(w, Pow) + s
      BY <1>2, <1>7, <2>2, <2>3
  <2>5. QED
      BY <1>6, <2>4 DEF s
<1>9. r = w + (-q) * Half
    BY <1>1, <1>2, <1>4
<1>10. Half * j - q - k \in Int /\ -q \in Int
    BY <1>1, <1>4
<1>11. QED
    BY <1>8, <1>9, <1>10 DEF Apart, Low, r

\* The amounts of a shift.
LEMMA Amounts ==
    ASSUME NEW w \in Nat, NEW n, n = w % (Bits \div 2)
    PROVE  /\ ShiftAmountw(w) = n /\ ShiftAmount(n) = n
           /\ Power[n] \in Nat /\ Power[n] > 0
<1>1. Bits \div 2 \in Nat /\ Bits \div 2 > 0 /\ Bits \div 2 < Bits /\ Bits \in Nat
    BY BitsAssumption
<1>2. n \in 0 .. (Bits \div 2 - 1)
    BY <1>1, Divided
<1>3. n % Bits = n
  <2>1. n = 0 * Bits + n /\ n \in 0 .. (Bits - 1)
      BY <1>1, <1>2
  <2>2. QED
      BY <1>1, <2>1, Unique
<1>4. Power[n] \in Nat /\ Power[n] > 0
    BY <1>1, <1>2, PowerType
<1>5. QED
    BY <1>3, <1>4 DEF ShiftAmountw, ShiftAmount

LEMMA HalfResults ==
    /\ Result("kAddw") = Extended(SignedLow(a) + SignedLow(b))
    /\ Result("kSubw") = Extended(SignedLow(a) - SignedLow(b))
    /\ Result("kMulw") = Extended(SignedLow(a) * SignedLow(b))
    /\ Result("kDivw") = IF SignedLow(b) = 0 THEN 0
                        ELSE Extended(TruncDiv(SignedLow(a), SignedLow(b)))
    /\ Result("kSllw") = Extended(Low(a) * Power[ShiftAmountw(b)])
    /\ Result("kSrlw") = Extended(Low(a) \div Power[ShiftAmountw(b)])
    /\ Result("kSraw") = Extended(SignedLow(a) \div Power[ShiftAmountw(b)])
BY DEF Result, execute, executew

LEMMA WordResults ==
    ASSUME NEW x, NEW y
    PROVE  /\ execute("kAdd", x, y) = (SignedOf(x) + SignedOf(y)) % Pow
           /\ execute("kSub", x, y) = (SignedOf(x) - SignedOf(y)) % Pow
           /\ execute("kMul", x, y) = (SignedOf(x) * SignedOf(y)) % Pow
           /\ execute("kDiv", x, y) =
                 CASE SignedOf(y) = 0 -> 0
                   [] SignedOf(x) = -(Pow \div 2) /\ SignedOf(y) = -1 -> (Pow \div 2) - 1
                   [] OTHER -> TruncDiv(SignedOf(x), SignedOf(y)) % Pow
           /\ execute("kSll", x, y) = (x * Power[ShiftAmount(y)]) % Pow
           /\ execute("kSrl", x, y) = x \div Power[ShiftAmount(y)]
           /\ execute("kSra", x, y) = (SignedOf(x) \div Power[ShiftAmount(y)]) % Pow
BY DEF execute

LEMMA HalvesExtended == Operands => ExtendsHalves
<1> SUFFICES ASSUME Operands
             PROVE  ExtendsHalves
    OBVIOUS
<1> DEFINE n == b % (Bits \div 2)
           x == SignedLow(a) % Pow
           y == SignedLow(b) % Pow
<1>1. a \in Word /\ b \in Word /\ Half \in Int
    BY Sizes DEF Operands
<1>2. /\ SignedOf(a) \in Int /\ SignedOf(b) \in Int
      /\ SignedLow(a) \in Int /\ SignedLow(b) \in Int
      /\ a \in Nat /\ b \in Nat /\ Low(a) \in Nat
    BY OperandRanges, Sizes
<1>3. /\ Apart(SignedOf(a), SignedLow(a), Half) /\ Apart(SignedOf(b), SignedLow(b), Half)
      /\ Apart(a, Low(a), Half)
    BY <1>1, LowApart
<1>4. SignedOf(x) = SignedLow(a) /\ SignedOf(y) = SignedLow(b)
    BY OperandRanges, Sizes, WordBack
<1>5. ShiftAmountw(b) = n /\ ShiftAmount(n) = n /\ Power[n] \in Nat /\ Power[n] > 0
    BY <1>2, Amounts
<1> HIDE DEF n, x, y
<1>6. /\ Extended(SignedLow(a) + SignedLow(b)) = Extended(SignedOf(a) + SignedOf(b))
      /\ Extended(SignedLow(a) - SignedLow(b)) = Extended(SignedOf(a) - SignedOf(b))
      /\ Extended(SignedLow(a) * SignedLow(b)) = Extended(SignedOf(a) * SignedOf(b))
  <2>1. /\ Apart(SignedOf(a) + SignedOf(b), SignedLow(a) + SignedLow(b), Half)
        /\ Apart(SignedOf(a) - SignedOf(b), SignedLow(a) - SignedLow(b), Half)
        /\ Apart(SignedOf(a) * SignedOf(b), SignedLow(a) * SignedLow(b), Half)
      BY <1>1, <1>2, <1>3, Parts
  <2>2. Extended(SignedOf(a) + SignedOf(b)) = Extended(SignedLow(a) + SignedLow(b))
      BY <1>2, <2>1, SameExtension
  <2>3. Extended(SignedOf(a) - SignedOf(b)) = Extended(SignedLow(a) - SignedLow(b))
      BY <1>2, <2>1, SameExtension
  <2>4. SignedOf(a) * SignedOf(b) \in Int /\ SignedLow(a) * SignedLow(b) \in Int
      BY <1>2
  <2>5. Extended(SignedOf(a) * SignedOf(b)) = Extended(SignedLow(a) * SignedLow(b))
      BY <2>1, <2>4, SameExtension
  <2>6. QED
      BY <2>2, <2>3, <2>5
<1>7. /\ Result("kAddw") = SignedLow(execute("kAdd", a, b)) % Pow
      /\ Result("kSubw") = SignedLow(execute("kSub", a, b)) % Pow
      /\ Result("kMulw") = SignedLow(execute("kMul", a, b)) % Pow
  <2>1. /\ Result("kAddw") = Extended(SignedOf(a) + SignedOf(b))
        /\ Result("kSubw") = Extended(SignedOf(a) - SignedOf(b))
        /\ Result("kMulw") = Extended(SignedOf(a) * SignedOf(b))
      BY <1>6, HalfResults, Zenon
  <2>2. execute("kAdd", a, b) = (SignedOf(a) + SignedOf(b)) % Pow
      BY WordResults, Zenon
  <2>3. execute("kSub", a, b) = (SignedOf(a) - SignedOf(b)) % Pow
      BY WordResults, Zenon
  <2>4. execute("kMul", a, b) = (SignedOf(a) * SignedOf(b)) % Pow
      BY WordResults, Zenon
  <2>5. QED
      BY <2>1, <2>2, <2>3, <2>4, Zenon DEF Extended
<1>8. Result("kDivw") = SignedLow(execute("kDiv", x, y)) % Pow
  <2>1. CASE SignedLow(b) = 0
    <3>1. 0 % Pow = 0 /\ 0 % Half = 0 /\ 0 < Half
        BY Sizes
    <3>2. SignedLow(0) % Pow = 0
        BY <3>1 DEF SignedLow, Low
    <3>3. execute("kDiv", x, y) = 0 /\ Result("kDivw") = 0
        BY <1>4, <2>1, HalfResults, WordResults
    <3>4. QED
        BY <3>2, <3>3
  <2>2. CASE SignedLow(b) # 0
    <3>1. SignedLow(a) # -(Pow \div 2)
        BY OperandRanges, Sizes
    <3>2. execute("kDiv", x, y) = TruncDiv(SignedLow(a), SignedLow(b)) % Pow
        BY <1>4, <2>2, <3>1, WordResults
    <3>3. QED
        BY <2>2, <3>2, HalfResults DEF Extended
  <2>3. QED
      BY <2>1, <2>2
<1>9. Result("kSllw") = SignedLow(execute("kSll", a, n)) % Pow
  <2> DEFINE p == Power[n]
  <2>1. p \in Int
      BY <1>5
  <2> HIDE DEF p
  <2>2. 0 \in Int /\ p = p + 0 * Half
      BY <1>1, <2>1
  <2>3. Apart(p, p, Half)
      BY <2>2, Zenon DEF Apart
  <2>4. Apart(a * p, Low(a) * p, Half)
      BY <1>1, <1>2, <1>3, <2>1, <2>3, Parts
  <2>5. a * p \in Int /\ Low(a) * p \in Int
      BY <1>2, <2>1
  <2>6. Extended(a * p) = Extended(Low(a) * p)
      BY <2>4, <2>5, SameExtension
  <2>7. Result("kSllw") = Extended(Low(a) * p)
      BY <1>5, HalfResults, Zenon DEF p
  <2>8. execute("kSll", a, n) = (a * Power[ShiftAmount(n)]) % Pow
      BY WordResults, Zenon
  <2>9. execute("kSll", a, n) = (a * p) % Pow
      BY <1>5, <2>8, Zenon DEF p
  <2>10. QED
      BY <2>6, <2>7, <2>9, Zenon DEF Extended
<1>10. Result("kSrlw") = SignedLow(execute("kSrl", Low(a), n)) % Pow
  <2> DEFINE p == Power[n]
             z == Low(a) \div p
  <2>1. p \in Nat /\ p > 0
      BY <1>5
  <2>2. Low(a) \in 0 .. (Half - 1)
      BY <1>2, Sizes, Divided DEF Low
  <2>3. z = Low(a) \div p
      OBVIOUS
  <2>4. Result("kSrlw") = Extended(z) /\ execute("kSrl", Low(a), n) = z
    <3>1. Result("kSrlw") = Extended(z)
        BY <1>5, HalfResults, Zenon
    <3>2. execute("kSrl", Low(a), n) = Low(a) \div Power[ShiftAmount(n)]
        BY WordResults, Zenon
    <3>3. QED
        BY <1>5, <3>1, <3>2, Zenon
  <2> HIDE DEF p, z
  <2>5. z \in 0 .. Low(a)
    <3> DEFINE l == Low(a)
    <3>1. l \in Nat
        BY <1>2
    <3> HIDE DEF l
    <3>2. 0 * p <= l /\ l < (l + 1) * p
      <4>1. 1 * (l + 1) <= p * (l + 1)
          BY <2>1, <3>1, TimesMonotone
      <4>2. QED
          BY <2>1, <3>1, <4>1
    <3>3. l \div p \in 0 .. ((l + 1) - 1)
        BY <2>1, <3>1, <3>2, QuotientRange
    <3>4. QED
        BY <2>3, <3>1, <3>3 DEF l
  <2>6. z % Pow = z
    <3>1. z \in 0 .. (Pow - 1) /\ Pow \in Int /\ Pow > 0
        BY <1>2, <2>2, <2>5, Sizes
    <3>2. z = 0 * Pow + z
        BY <3>1
    <3>3. QED
        BY <3>1, <3>2, Unique
  <2>7. QED
      BY <2>4, <2>6, Zenon DEF Extended
<1>11. Result("kSraw") = SignedLow(execute("kSra", x, n)) % Pow
  <2>1. Result("kSraw") = Extended(SignedLow(a) \div Power[n])
      BY <1>5, HalfResults, Zenon
  <2>2. execute("kSra", x, n) = (SignedOf(x) \div Power[ShiftAmount(n)]) % Pow
      BY WordResults, Zenon
  <2>3. execute("kSra", x, n) = (SignedLow(a) \div Power[n]) % Pow
      BY <1>4, <1>5, <2>2, Zenon
  <2>4. QED
      BY <2>1, <2>3, Zenon DEF Extended
<1>12. QED
    BY <1>7, <1>8, <1>9, <1>10, <1>11 DEF ExtendsHalves, n, x, y

\* Whatever the high halves hold, a *w operation of Alu::execute has the result of the
\* operation on the low halves, extended by its sign, for every pair of words.
THEOREM ExtensionsRight == Spec => []ExtendsHalves
BY AlwaysOperands, HalvesExtended, PTL

-----------------------------------------------------------------------------
\* Comparisons.
LEMMA OnlyEqual ==
    ASSUME NEW x \in Word, NEW y \in Word
    PROVE  (x - y) % Pow = 0 <=> x = y
<1>1. Pow \in Int /\ Pow > 0 /\ x \in 0 .. (Pow - 1) /\ y \in 0 .. (Pow - 1)
    BY Sizes DEF Word
<1> DEFINE d == x - y
<1>2. CASE x >= y
  <2>1. d \in 0 .. (Pow - 1) /\ d = 0 * Pow + d
      BY <1>1, <1>2
  <2> HIDE DEF d
  <2>2. d % Pow = d
      BY <1>1, <2>1, Unique
  <2>3. QED
      BY <1>1, <2>2 DEF d
<1>3. CASE x < y
  <2>1. d \in Int /\ d + Pow \in 1 .. (Pow - 1) /\ d = (-1) * Pow + (d + Pow)
      BY <1>1, <1>3
  <2> HIDE DEF d
  <2>2. d % Pow = d + Pow
      BY <1>1, <2>1, Unique
  <2>3. QED
      BY <1>1, <1>3, <2>1, <2>2 DEF d
<1>4. QED
    BY <1>1, <1>2, <1>3

LEMMA SignedApart ==
    ASSUME NEW w \in Word
    PROVE  Apart(w, SignedOf(w), Pow) /\ SignedOf(w) \in Int
<1>1. Pow \div 2 \in Nat /\ Pow \div 2 > 0 /\ Pow = 2 * (Pow \div 2) /\ w \in 0 .. (Pow - 1)
    BY Sizes DEF Word
<1>2. PICK k \in 0 .. 1 : w = SignedIn(w, Pow) + Pow * k
    BY <1>1, SignedRange
<1>3. SignedIn(w, Pow) \in Int
    BY <1>1 DEF SignedIn
<1>4. SignedIn(w, Pow) = w + (-k) * Pow /\ -k \in Int /\ w \in Int /\ Pow \in Int
    BY <1>1, <1>2, <1>3
<1>5. Apart(w, SignedIn(w, Pow), Pow)
    BY <1>4, ApartBy
<1>6. QED
    BY <1>3, <1>5, Signs

\* Alu::execute compares as the conditional branches expect: this is BranchAluAssumption
\* of the single-cycle engine, for words of every even number of bits.
THEOREM BranchesCompare ==
    \A x \in Word, y \in Word :
        /\ execute("kSub", x, y) = 0 <=> x = y
        /\ execute("kSlt", x, y) = IF SignedOf(x) < SignedOf(y) THEN 1 ELSE 0
        /\ execute("kSltu", x, y) = IF x < y THEN 1 ELSE 0
<1> TAKE x \in Word, y \in Word
<1>1. /\ execute("kSlt", x, y) = IF SignedOf(x) < SignedOf(y) THEN 1 ELSE 0
      /\ execute("kSltu", x, y) = IF x < y THEN 1 ELSE 0
      /\ execute("kSub", x, y) = (SignedOf(x) - SignedOf(y)) % Pow
    BY DEF execute, BoolWord
<1>2. (SignedOf(x) - SignedOf(y)) % Pow = (x - y) % Pow
  <2>1. Pow \in Int /\ Pow > 0 /\ x \in Int /\ y \in Int
      BY Sizes DEF Word
  <2>2. Apart(x - y, SignedOf(x) - SignedOf(y), Pow)
      BY <2>1, SignedApart, Parts
  <2>3. x - y \in Int /\ SignedOf(x) - SignedOf(y) \in Int
      BY <2>1, SignedApart
  <2>4. QED
      BY <2>1, <2>2, <2>3, MultipleLost
<1>3. QED
    BY <1>1, <1>2, OnlyEqual

-----------------------------------------------------------------------------
\* Shifts.
LEMMA QuotientOfSum ==
    ASSUME NEW m \in Int, m > 0, NEW x \in Int, NEW k \in Int, NEW y \in Int, y = x + k * m
    PROVE  y \div m = (x \div m) + k
<1> DEFINE q == x \div m
           r == x % m
           z == q + k
<1>1. x = q * m + r /\ q \in Int /\ r \in 0 .. (m - 1)
    BY Divided
<1> HIDE DEF q, r
<1>2. z * m = q * m + k * m /\ z \in Int
    BY <1>1
<1>3. y = z * m + r
    BY <1>1, <1>2
<1> HIDE DEF z
<1>4. y \div m = z
    BY <1>1, <1>2, <1>3, Unique
<1>5. QED
    BY <1>4 DEF z, q

LEMMA QuotientOfQuotient ==
    ASSUME NEW m \in Int, m > 0, NEW k \in Int, k > 0, NEW n \in Int
    PROVE  (n \div m) \div k = n \div (k * m)
<1> DEFINE q == n \div m
           r == n % m
           u == q \div k
           v == q % k
           w == v * m + r
           km == k * m
<1>1. n = q * m + r /\ q \in Int /\ r \in 0 .. (m - 1)
    BY Divided
<1> HIDE DEF q, r
<1>2. q = u * k + v /\ u \in Int /\ v \in 0 .. (k - 1)
    BY <1>1, Divided
<1> HIDE DEF u, v
<1>3. v * m <= (k - 1) * m /\ 0 <= v * m
  <2>1. v <= k - 1 /\ k - 1 \in Int /\ v \in Int /\ m \in Nat /\ v \in Nat
      BY <1>2
  <2>2. v * m <= (k - 1) * m
      BY <2>1, TimesMonotone
  <2>3. 0 * m <= v * m
      BY <2>1, TimesMonotone
  <2>4. QED
      BY <2>1, <2>2, <2>3
<1>4. km \in Int /\ km > 0 /\ w \in 0 .. (km - 1)
    BY <1>1, <1>2, <1>3
<1>5. n = u * km + w
    BY <1>1, <1>2
<1> HIDE DEF w, km
<1>6. n \div km = u
    BY <1>2, <1>4, <1>5, Unique
<1>7. QED
    BY <1>6 DEF km, u, q

\* The powers around a bit.
LEMMA PowerAt ==
    ASSUME NEW i \in 0 .. (Bits - 1)
    PROVE  /\ Power[i] \in Int /\ Power[i] > 0
           /\ \E h \in Int : Pow = (2 * h) * Power[i]
<1>1. /\ Bits \in Nat /\ i \in 0 .. Bits /\ Bits - i \in 0 .. (Bits - i) /\ i + (Bits - i) = Bits
      /\ (Bits - i) - 1 \in 0 .. (Bits - 1) /\ ((Bits - i) - 1) + 1 = Bits - i
      /\ (Bits - i) - 1 \in 0 .. Bits
    BY BitsAssumption
<1>2. Pow = Power[i] * Power[Bits - i]
    BY <1>1, PowerSum DEF Pow
<1>3. Power[Bits - i] = 2 * Power[(Bits - i) - 1] /\ Power[(Bits - i) - 1] \in Nat
    BY <1>1, PowerSteps, PowerType
<1>4. Power[i] \in Int /\ Power[i] > 0
    BY <1>1, PowerType
<1>5. Pow = (2 * Power[(Bits - i) - 1]) * Power[i] /\ Power[(Bits - i) - 1] \in Int
    BY <1>2, <1>3, <1>4
<1>6. QED
    BY <1>4, <1>5

\* Numbers that differ by words have the same bits.
LEMMA SameBits ==
    ASSUME NEW x \in Int, NEW y \in Int, Apart(x, y, Pow), NEW i \in 0 .. (Bits - 1)
    PROVE  BitOf(y, i) = BitOf(x, i)
<1>1. Power[i] \in Int /\ Power[i] > 0
    BY PowerAt
<1>2. PICK h \in Int : Pow = (2 * h) * Power[i]
    BY PowerAt
<1>3. PICK c \in Int : y = x + c * Pow
    BY DEF Apart
<1> DEFINE p == Power[i]
           k == (c * h) * 2
<1>4. c * Pow = k * p /\ k \in Int /\ c * h \in Int
    BY <1>1, <1>2
<1>5. y = x + k * p
    BY <1>3, <1>4
<1>6. p \in Int /\ p > 0
    BY <1>1
<1> HIDE DEF p, k
<1>7. y \div p = (x \div p) + k
    BY <1>4, <1>5, <1>6, QuotientOfSum
<1>8. x \div p \in Int /\ y \div p \in Int
    BY <1>6, Divided
<1>9. ASSUME NEW q \in Int, NEW e \in Int PROVE (q + e * 2) % 2 = q % 2
    OBVIOUS
<1>10. (y \div p) % 2 = (x \div p) % 2
    BY <1>4, <1>7, <1>8, <1>9 DEF k
<1>11. QED
    BY <1>10 DEF BitOf, p

LEMMA WordBits ==
    ASSUME NEW x \in Int, NEW i \in 0 .. (Bits - 1)
    PROVE  BitOf(x % Pow, i) = BitOf(x, i)
<1> DEFINE q == x \div Pow
           r == x % Pow
<1>0. Pow \in Int /\ Pow > 0
    BY Sizes
<1>1. x = q * Pow + r /\ q \in Int /\ r \in Int
    BY <1>0, Divided
<1> HIDE DEF q, r
<1>2. r = x + (-q) * Pow /\ -q \in Int /\ Pow \in Int
    BY <1>0, <1>1
<1>3. Apart(x, r, Pow)
    BY <1>2, ApartBy
<1>4. QED
    BY <1>1, <1>3, SameBits DEF r

LEMMA LeftBits ==
    ASSUME NEW x \in Int, NEW n \in 0 .. (Bits - 1), NEW i \in 0 .. (Bits - 1)
    PROVE  BitOf(x * Power[n], i) = IF i - n \in 0 .. (Bits - 1) THEN BitOf(x, i - n) ELSE 0
<1>1. Power[i] \in Int /\ Power[i] > 0 /\ Power[n] \in Int /\ Power[n] > 0 /\ Bits \in Nat
    BY PowerAt, BitsAssumption
<1>2. CASE i >= n
  <2> DEFINE j == i - n
             u == x * Power[n]
  <2>1. j \in 0 .. (Bits - 1) /\ j \in 0 .. Bits /\ n \in 0 .. (Bits - j) /\ j + n = i
      BY <1>1, <1>2
  <2> HIDE DEF j
  <2>2. Power[i] = Power[j] * Power[n] /\ Power[j] \in Int /\ Power[j] > 0
      BY <2>1, PowerSum, PowerAt
  <2>3. u \in Int /\ u \div Power[n] = x
    <3>1. u = x * Power[n] + 0 /\ 0 \in 0 .. (Power[n] - 1) /\ u \in Int
        BY <1>1
    <3> HIDE DEF u
    <3>2. QED
        BY <1>1, <3>1, Unique
  <2> HIDE DEF u
  <2>4. (u \div Power[n]) \div Power[j] = u \div (Power[j] * Power[n])
      BY <1>1, <2>2, <2>3, QuotientOfQuotient
  <2>5. u \div Power[i] = x \div Power[j]
      BY <2>2, <2>3, <2>4
  <2>6. QED
      BY <2>1, <2>5 DEF BitOf, j, u
<1>3. CASE i < n
  <2> DEFINE d == n - i
  <2>1. d \in 0 .. (Bits - i) /\ d - 1 \in 0 .. (Bits - 1) /\ (d - 1) + 1 = d /\ i + d = n
        /\ i \in 0 .. Bits /\ d - 1 \in 0 .. Bits
      BY <1>1, <1>3
  <2> HIDE DEF d
  <2>2. Power[n] = Power[i] * Power[d] /\ Power[d] = 2 * Power[d - 1] /\ Power[d - 1] \in Int
      BY <2>1, PowerSum, PowerSteps, PowerType
  <2> DEFINE u == x * Power[n]
             k == (x * Power[d - 1]) * 2
  <2>3. u = k * Power[i] + 0 /\ u \in Int /\ k \in Int /\ x * Power[d - 1] \in Int
        /\ 0 \in 0 .. (Power[i] - 1)
      BY <1>1, <2>2
  <2>4. k % 2 = 0
      BY <2>3
  <2> HIDE DEF u, k
  <2>5. u \div Power[i] = k
      BY <1>1, <2>3, Unique
  <2>6. BitOf(u, i) = 0
      BY <2>4, <2>5 DEF BitOf
  <2>7. i - n \notin 0 .. (Bits - 1)
      BY <1>1, <1>3
  <2>8. QED
      BY <2>6, <2>7 DEF u
<1>4. QED
    BY <1>1, <1>2, <1>3

LEMMA RightBits ==
    ASSUME NEW x \in Int, NEW n \in 0 .. (Bits - 1), NEW i \in 0 .. (Bits - 1),
           i + n \in 0 .. (Bits - 1)
    PROVE  BitOf(x \div Power[n], i) = BitOf(x, i + n)
<1>1. Power[i] \in Int /\ Power[i] > 0 /\ Power[n] \in Int /\ Power[n] > 0
    BY PowerAt
<1>2. Power[i + n] = Power[i] * Power[n]
  <2>1. i \in 0 .. Bits /\ n \in 0 .. (Bits - i)
      BY BitsAssumption
  <2>2. QED
      BY <2>1, PowerSum
<1>3. (x \div Power[n]) \div Power[i] = x \div (Power[i] * Power[n])
    BY <1>1, QuotientOfQuotient
<1>4. QED
    BY <1>2, <1>3 DEF BitOf

LEMMA PowersRise ==
    ASSUME NEW i \in 0 .. Bits, NEW j \in 0 .. i
    PROVE  Power[j] <= Power[i]
<1> DEFINE d == i - j
<1>1. d \in 0 .. (Bits - j) /\ j \in 0 .. Bits /\ d \in 0 .. Bits /\ j + d = i
    BY BitsAssumption
<1> HIDE DEF d
<1>2. /\ Power[i] = Power[j] * Power[d] /\ Power[j] \in Nat
      /\ Power[d] \in Nat /\ Power[d] > 0
    BY <1>1, PowerSum, PowerType
<1>3. 1 * Power[j] <= Power[d] * Power[j]
    BY <1>2, TimesMonotone
<1>4. QED
    BY <1>2, <1>3

\* What a shift to the right brings in: zeros, or copies of the sign.
LEMMA HighBits ==
    ASSUME NEW x \in 0 .. (Pow - 1), NEW n \in 0 .. (Bits - 1), NEW i \in 0 .. (Bits - 1),
           i + n >= Bits
    PROVE  BitOf(x \div Power[n], i) = 0
<1> DEFINE r == Bits - n
           q == x \div Power[n]
<1>1. /\ r \in 0 .. i /\ r \in 0 .. Bits /\ n \in 0 .. (Bits - r) /\ r + n = Bits
      /\ i \in 0 .. Bits /\ x \in Int
    BY BitsAssumption, Sizes
<1> HIDE DEF r
<1>2. Pow = Power[r] * Power[n] /\ Power[r] <= Power[i] /\ Power[r] \in Nat
      /\ Power[n] \in Int /\ Power[n] > 0 /\ Power[i] \in Int /\ Power[i] > 0
    BY <1>1, PowerSum, PowersRise, PowerType, PowerAt DEF Pow
<1>3. 0 * Power[n] <= x /\ x < Power[r] * Power[n]
    BY <1>1, <1>2
<1>4. q \in 0 .. (Power[r] - 1)
    BY <1>1, <1>2, <1>3, QuotientRange
<1> HIDE DEF q
<1>5. q = 0 * Power[i] + q /\ q \in 0 .. (Power[i] - 1)
    BY <1>2, <1>4
<1>6. q \div Power[i] = 0
    BY <1>2, <1>5, Unique
<1>7. QED
    BY <1>6 DEF BitOf, q

\* -1 = (-1) * 2 + 1, and the remainder of a division by 2 is 0 or 1.
LEMMA MinusOneOdd == ASSUME NEW z, z = -1 PROVE z % 2 = 1
<1> DEFINE m == 2
<1>1. m \in Int /\ m > 0 /\ z \in Int /\ z = (-1) * m + 1 /\ 1 \in 0 .. (m - 1)
    OBVIOUS
<1> HIDE DEF m
<1>2. z % m = 1
    BY <1>1, Unique
<1>3. QED
    BY <1>2 DEF m

LEMMA SignBits ==
    ASSUME NEW x \in (-(Pow \div 2)) .. (Pow \div 2 - 1),
           NEW n \in 0 .. (Bits - 1), NEW i \in 0 .. (Bits - 1), i + n >= Bits
    PROVE  BitOf(x \div Power[n], i) = IF x < 0 THEN 1 ELSE 0
<1> DEFINE r == (Bits - 1) - n
           q == x \div Power[n]
<1>1. /\ r \in 0 .. i /\ r \in 0 .. Bits /\ n \in 0 .. (Bits - r) /\ r + n = Bits - 1
      /\ i \in 0 .. Bits /\ x \in Int /\ Bits - 1 \in 0 .. (Bits - 1) /\ (Bits - 1) + 1 = Bits
      /\ Bits - 1 \in 0 .. Bits
    BY BitsAssumption, Sizes
<1> HIDE DEF r
<1>2. /\ Power[Bits - 1] = Power[r] * Power[n] /\ Power[r] <= Power[i] /\ Power[r] \in Nat
      /\ Power[n] \in Int /\ Power[n] > 0 /\ Power[i] \in Int /\ Power[i] > 0
    BY <1>1, PowerSum, PowersRise, PowerType, PowerAt
<1>3. Pow \div 2 = Power[Bits - 1]
  <2>1. Pow = 2 * Power[Bits - 1] /\ Power[Bits - 1] \in Nat
      BY <1>1, PowerSteps, PowerType DEF Pow
  <2>2. QED
      BY <2>1
<1>4. CASE x >= 0
  <2>1. 0 * Power[n] <= x /\ x < Power[r] * Power[n]
      BY <1>1, <1>2, <1>3, <1>4
  <2>2. q \in 0 .. (Power[r] - 1)
      BY <1>1, <1>2, <2>1, QuotientRange
  <2> HIDE DEF q
  <2>3. q = 0 * Power[i] + q /\ q \in 0 .. (Power[i] - 1)
      BY <1>2, <2>2
  <2>4. q \div Power[i] = 0
      BY <1>2, <2>3, Unique
  <2>5. QED
      BY <1>1, <1>4, <2>4 DEF BitOf, q
<1>5. CASE x < 0
  <2>1. (-Power[r]) * Power[n] <= x /\ x < 0 * Power[n] /\ -Power[r] \in Int
    <3>1. (-Power[r]) * Power[n] = -(Power[r] * Power[n])
        BY <1>2
    <3>2. -(Pow \div 2) <= x
        BY <1>1, Sizes
    <3>3. QED
        BY <1>1, <1>2, <1>3, <1>5, <3>1, <3>2
  <2>2. q \in (-Power[r]) .. (0 - 1)
      BY <1>1, <1>2, <2>1, QuotientRange
  <2> HIDE DEF q
  <2> DEFINE s == q + Power[i]
  <2>3. q \in Int /\ s \in 0 .. (Power[i] - 1) /\ q = (-1) * Power[i] + s
      BY <1>2, <2>2
  <2> HIDE DEF s
  <2>4. q \div Power[i] = -1
      BY <1>2, <2>3, Unique
  <2>5. (q \div Power[i]) % 2 = 1
      BY <2>4, MinusOneOdd
  <2>6. QED
      BY <1>1, <1>5, <2>5 DEF BitOf, q
<1>6. QED
    BY <1>1, <1>4, <1>5

LEMMA SignBit ==
    ASSUME NEW w \in Word
    PROVE  BitOf(w, Bits - 1) = IF SignedOf(w) < 0 THEN 1 ELSE 0
<1> DEFINE t == Power[Bits - 1]
<1>1. Bits - 1 \in 0 .. (Bits - 1) /\ (Bits - 1) + 1 = Bits /\ Bits - 1 \in 0 .. Bits
    BY BitsAssumption
<1>2. Pow = 2 * t /\ t \in Int /\ t > 0
    BY <1>1, PowerSteps, PowerType DEF Pow
<1> HIDE DEF t
<1>3. w \in 0 .. (2 * t - 1) /\ w \in Int
    BY <1>2 DEF Word
<1>4. CASE 2 * w < Pow
  <2>1. w = 0 * t + w /\ w \in 0 .. (t - 1)
      BY <1>2, <1>3, <1>4
  <2>2. w \div t = 0
      BY <1>2, <1>3, <2>1, Unique
  <2>3. QED
      BY <1>2, <1>3, <1>4, <2>2 DEF BitOf, SignedOf, t
<1>5. CASE ~(2 * w < Pow)
  <2>1. w = 1 * t + (w - t) /\ w - t \in 0 .. (t - 1)
      BY <1>2, <1>3, <1>5
  <2>2. w \div t = 1
      BY <1>2, <1>3, <2>1, Unique
  <2>3. QED
      BY <1>2, <1>3, <1>5, <2>2 DEF BitOf, SignedOf, t
<1>6. QED
    BY <1>4, <1>5

LEMMA ShiftResults ==
    /\ Result("kSll") = (a * Power[b % Bits]) % Pow
    /\ Result("kSrl") = a \div Power[b % Bits]
    /\ Result("kSra") = (SignedOf(a) \div Power[b % Bits]) % Pow
BY DEF Result, execute, ShiftAmount

LEMMA BitsShifted == Operands => ShiftsBits
<1> SUFFICES ASSUME Operands
             PROVE  ShiftsBits
    OBVIOUS
<1> DEFINE n == b % Bits
           Moved(op, i, j, in) ==
               BitOf(Result(op), i) = IF j \in 0 .. (Bits - 1) THEN BitOf(a, j) ELSE in
<1>1. SUFFICES ASSUME NEW i \in 0 .. (Bits - 1)
               PROVE  /\ Moved("kSll", i, i - n, 0)
                      /\ Moved("kSrl", i, i + n, 0)
                      /\ Moved("kSra", i, i + n, BitOf(a, Bits - 1))
    BY DEF ShiftsBits
<1>2. n \in 0 .. (Bits - 1)
    BY BitsAssumption, OperandRanges, Divided
<1>3. /\ Result("kSll") = (a * Power[n]) % Pow
      /\ Result("kSrl") = a \div Power[n]
      /\ Result("kSra") = (SignedOf(a) \div Power[n]) % Pow
    BY ShiftResults
<1>4. /\ a \in Word /\ a \in 0 .. (Pow - 1) /\ a \in Int
      /\ SignedOf(a) \in (-(Pow \div 2)) .. (Pow \div 2 - 1) /\ SignedOf(a) \in Int
    BY OperandRanges, Sizes DEF Operands, Word
<1> HIDE DEF n
<1>5. Power[n] \in Int /\ Power[n] > 0
    BY <1>2, PowerAt
<1>6. Moved("kSll", i, i - n, 0)
  <2>1. a * Power[n] \in Int
      BY <1>4, <1>5
  <2>2. BitOf((a * Power[n]) % Pow, i) = BitOf(a * Power[n], i)
      BY <2>1, WordBits
  <2>3. QED
      BY <1>2, <1>3, <1>4, <2>2, LeftBits
<1>7. Moved("kSrl", i, i + n, 0)
  <2>1. CASE i + n \in 0 .. (Bits - 1)
      BY <1>2, <1>3, <1>4, <2>1, RightBits
  <2>2. CASE i + n \notin 0 .. (Bits - 1)
    <3>1. i + n >= Bits
        BY <1>2, <2>2, BitsAssumption
    <3>2. QED
        BY <1>2, <1>3, <1>4, <2>2, <3>1, HighBits
  <2>3. QED
      BY <2>1, <2>2
<1>8. Moved("kSra", i, i + n, BitOf(a, Bits - 1))
  <2>1. SignedOf(a) \div Power[n] \in Int
      BY <1>4, <1>5, Divided
  <2>2. BitOf((SignedOf(a) \div Power[n]) % Pow, i) = BitOf(SignedOf(a) \div Power[n], i)
      BY <2>1, WordBits
  <2>3. CASE i + n \in 0 .. (Bits - 1)
    <3>1. BitOf(SignedOf(a) \div Power[n], i) = BitOf(SignedOf(a), i + n)
        BY <1>2, <1>4, <2>3, RightBits
    <3>2. BitOf(SignedOf(a), i + n) = BitOf(a, i + n)
        BY <1>4, <2>3, SignedApart, SameBits
    <3>3. QED
        BY <1>3, <2>2, <2>3, <3>1, <3>2
  <2>4. CASE i + n \notin 0 .. (Bits - 1)
    <3>1. i + n >= Bits
        BY <1>2, <2>4, BitsAssumption
    <3>2. BitOf(SignedOf(a) \div Power[n], i) = IF SignedOf(a) < 0 THEN 1 ELSE 0
        BY <1>2, <1>4, <3>1, SignBits
    <3>3. QED
        BY <1>3, <1>4, <2>2, <2>4, <3>2, SignBit
  <2>5. QED
      BY <2>3, <2>4
<1>9. QED
    BY <1>6, <1>7, <1>8

\* A shift moves every bit by the low bits of its second operand and brings in zeros or
\* the sign (kSll, kSrl and kSra of Alu::execute), for every pair of words.
THEOREM ShiftsRight == Spec => []ShiftsBits
BY AlwaysOperands, BitsShifted, PTL

-----------------------------------------------------------------------------
\* The word of given bits.
Stacked(f, bits, low) ==
    f = [i \in low .. Bits |-> IF i = Bits THEN 0 ELSE bits[i] + 2 * f[i + 1]]

\* The equation by which FromBits is defined has a solution.
LEMMA StackExists == ASSUME NEW bits PROVE \E f : Stacked(f, bits, 0)
<1> DEFINE S == {k \in 0 .. Bits : \E f : Stacked(f, bits, Bits - k)}
<1>0. Bits \in Nat
    BY BitsAssumption
<1>1. 0 \in S
  <2> DEFINE f == [i \in Bits .. Bits |-> 0]
  <2>1. f = [i \in Bits .. Bits |-> IF i = Bits THEN 0 ELSE bits[i] + 2 * f[i + 1]]
      BY <1>0
  <2> HIDE DEF f
  <2>2. Stacked(f, bits, Bits)
      BY <2>1 DEF Stacked
  <2>3. Bits - 0 = Bits /\ 0 \in 0 .. Bits
      BY <1>0
  <2>4. QED
      BY <2>2, <2>3
<1>2. ASSUME NEW k \in 0 .. (Bits - 1), k \in S PROVE k + 1 \in S
  <2> DEFINE low == Bits - k
  <2>1. low \in 1 .. Bits /\ Bits - (k + 1) = low - 1 /\ k + 1 \in 0 .. Bits
      BY <1>0
  <2>2. PICK g : Stacked(g, bits, low)
      BY <1>2
  <2>3. g = [i \in low .. Bits |-> IF i = Bits THEN 0 ELSE bits[i] + 2 * g[i + 1]]
      BY <2>2 DEF Stacked
  <2> HIDE DEF low
  <2> DEFINE f == [i \in (low - 1) .. Bits |->
                      IF i = low - 1 THEN bits[i] + 2 * g[low] ELSE g[i]]
  <2>4. \A i \in low .. Bits : f[i] = g[i]
      BY <1>0, <2>1
  <2>5. ASSUME NEW i \in (low - 1) .. Bits
        PROVE  f[i] = IF i = Bits THEN 0 ELSE bits[i] + 2 * f[i + 1]
    <3>1. CASE i = low - 1
      <4>1. i # Bits /\ i + 1 = low /\ low \in low .. Bits
          BY <1>0, <2>1, <3>1
      <4>2. f[i] = bits[i] + 2 * g[low] /\ f[low] = g[low]
          BY <2>4, <3>1, <4>1
      <4>3. QED
          BY <4>1, <4>2
    <3>2. CASE i # low - 1
      <4>1. i \in low .. Bits /\ (i # Bits => i + 1 \in low .. Bits)
          BY <1>0, <2>1, <3>2
      <4>2. g[i] = IF i = Bits THEN 0 ELSE bits[i] + 2 * g[i + 1]
          BY <2>3, <4>1
      <4>3. f[i] = g[i] /\ (i # Bits => f[i + 1] = g[i + 1])
          BY <2>4, <4>1
      <4>4. QED
          BY <4>2, <4>3
    <3>3. QED
        BY <3>1, <3>2
  <2>6. f = [i \in (low - 1) .. Bits |-> IF i = Bits THEN 0 ELSE bits[i] + 2 * f[i + 1]]
      BY <2>5
  <2> HIDE DEF f
  <2>7. Stacked(f, bits, low - 1)
      BY <2>6 DEF Stacked
  <2>8. QED
      BY <2>1, <2>7
<1> HIDE DEF S
<1>3. 0 .. Bits \subseteq S
    BY <1>0, <1>1, <1>2, SegmentInduction
<1>4. Bits \in S /\ Bits - Bits = 0
    BY <1>0, <1>3
<1>5. QED
    BY <1>4 DEF S

LEMMA StackSteps ==
    ASSUME NEW bits
    PROVE  \E f : /\ FromBits(bits) = f[0]
                  /\ f[Bits] = 0
                  /\ \A i \in 0 .. (Bits - 1) : f[i] = bits[i] + 2 * f[i + 1]
<1> DEFINE above[i \in 0 .. Bits] == IF i = Bits THEN 0 ELSE bits[i] + 2 * above[i + 1]
<1>0. Bits \in Nat
    BY BitsAssumption
<1>1. FromBits(bits) = above[0]
    BY DEF FromBits
<1>2. above = [i \in 0 .. Bits |-> IF i = Bits THEN 0 ELSE bits[i] + 2 * above[i + 1]]
  <2>1. \E f : f = [i \in 0 .. Bits |-> IF i = Bits THEN 0 ELSE bits[i] + 2 * f[i + 1]]
      BY StackExists DEF Stacked
  <2>2. QED
      BY <2>1, Zenon
<1> HIDE DEF above
<1>3. above[Bits] = 0
    BY <1>0, <1>2
<1>4. ASSUME NEW i \in 0 .. (Bits - 1)
      PROVE  above[i] = bits[i] + 2 * above[i + 1]
  <2>1. i \in 0 .. Bits /\ i # Bits
      BY <1>0
  <2>2. QED
      BY <1>2, <2>1
<1>5. QED
    BY <1>1, <1>3, <1>4

LEMMA WordOfBits ==
    ASSUME NEW bits \in [0 .. (Bits - 1) -> 0 .. 1]
    PROVE  /\ FromBits(bits) \in Word
           /\ \A i \in 0 .. (Bits - 1) : BitOf(FromBits(bits), i) = bits[i]
<1>0. Bits \in Nat
    BY BitsAssumption
<1>1. PICK f : /\ FromBits(bits) = f[0]
               /\ f[Bits] = 0
               /\ \A i \in 0 .. (Bits - 1) : f[i] = bits[i] + 2 * f[i + 1]
    BY StackSteps
\* The bits from the highest down make numbers below the powers.
<1> DEFINE S == {k \in 0 .. Bits : f[Bits - k] \in 0 .. (Power[k] - 1)}
<1>2. 0 \in S
    BY <1>0, <1>1, PowerSteps
<1>3. ASSUME NEW k \in 0 .. (Bits - 1), k \in S PROVE k + 1 \in S
  <2> DEFINE i == Bits - (k + 1)
  <2>1. i \in 0 .. (Bits - 1) /\ i + 1 = Bits - k /\ k + 1 \in 0 .. Bits /\ k \in 0 .. Bits
      BY <1>0
  <2>2. f[i + 1] \in 0 .. (Power[k] - 1)
      BY <1>3, <2>1
  <2> HIDE DEF i
  <2>3. f[i] = bits[i] + 2 * f[i + 1] /\ bits[i] \in 0 .. 1
      BY <1>1, <2>1
  <2>4. Power[k + 1] = 2 * Power[k] /\ Power[k] \in Nat
      BY <2>1, PowerSteps, PowerType
  <2>5. f[i] \in 0 .. (Power[k + 1] - 1)
      BY <2>2, <2>3, <2>4
  <2>6. QED
      BY <2>1, <2>5 DEF i
<1> HIDE DEF S
<1>4. 0 .. Bits \subseteq S
    BY <1>0, <1>2, <1>3, SegmentInduction
<1>5. f[0] \in Word
  <2>1. Bits \in S /\ Bits - Bits = 0
      BY <1>0, <1>4
  <2>2. QED
      BY <2>1 DEF S, Word, Pow
<1>6. ASSUME NEW i \in 0 .. Bits PROVE f[i] \in Int
  <2>1. Bits - i \in S /\ Bits - (Bits - i) = i /\ Bits - i \in 0 .. Bits
      BY <1>0, <1>4
  <2>2. f[i] \in 0 .. (Power[Bits - i] - 1) /\ Power[Bits - i] \in Nat
      BY <2>1, PowerType DEF S
  <2>3. QED
      BY <2>2
<1>7. ASSUME NEW i \in 0 .. (Bits - 1)
      PROVE  f[i] \div 2 = f[i + 1] /\ f[i] % 2 = bits[i]
  <2> DEFINE m == 2
             n == f[i]
             q == f[i + 1]
             r == bits[i]
  <2>1. i \in 0 .. Bits /\ i + 1 \in 0 .. Bits
      BY <1>0
  <2>2. n \in Int /\ q \in Int /\ n = r + 2 * q /\ r \in 0 .. 1
      BY <1>1, <1>6, <2>1
  <2> HIDE DEF n, q, r
  <2>3. m \in Int /\ m > 0 /\ n = q * m + r /\ r \in 0 .. (m - 1)
      BY <2>2
  <2> HIDE DEF m
  <2>4. n \div m = q /\ n % m = r
      BY <2>2, <2>3, Unique
  <2>5. QED
      BY <2>4 DEF m, n, q, r
\* What lies above a bit is the quotient by its power.
<1> DEFINE T == {i \in 0 .. Bits : f[0] \div Power[i] = f[i]}
<1>8. 0 \in T
  <2>1. f[0] \in Int /\ Power[0] = 1
      BY <1>0, <1>6, PowerSteps
  <2>2. QED
      BY <1>0, <2>1
<1>9. ASSUME NEW i \in 0 .. (Bits - 1), i \in T PROVE i + 1 \in T
  <2>1. i \in 0 .. Bits /\ i + 1 \in 0 .. Bits /\ 0 \in 0 .. Bits
      BY <1>0
  <2>2. Power[i + 1] = 2 * Power[i] /\ Power[i] \in Int /\ Power[i] > 0 /\ f[0] \in Int
      BY <1>6, <2>1, PowerSteps, PowerType
  <2>3. (f[0] \div Power[i]) \div 2 = f[0] \div (2 * Power[i])
      BY <2>2, QuotientOfQuotient
  <2>4. f[0] \div Power[i + 1] = f[i] \div 2
      BY <1>9, <2>2, <2>3
  <2>5. QED
      BY <1>7, <2>1, <2>4
<1> HIDE DEF T
<1>10. 0 .. Bits \subseteq T
    BY <1>0, <1>8, <1>9, SegmentInduction
<1>11. ASSUME NEW i \in 0 .. (Bits - 1) PROVE BitOf(f[0], i) = bits[i]
  <2>1. f[0] \div Power[i] = f[i]
      BY <1>0, <1>10 DEF T
  <2>2. QED
      BY <1>7, <2>1 DEF BitOf
<1>12. QED
    BY <1>1, <1>5, <1>11

LEMMA BitIsBit ==
    ASSUME NEW w \in Word, NEW i \in 0 .. (Bits - 1)
    PROVE  BitOf(w, i) \in 0 .. 1
<1>1. w \in Int /\ Power[i] \in Int /\ Power[i] > 0
    BY PowerAt, Sizes DEF Word
<1>2. w \div Power[i] \in Int
    BY <1>1, Divided
<1>3. ASSUME NEW q \in Int PROVE q % 2 \in 0 .. 1
    OBVIOUS
<1>4. QED
    BY <1>2, <1>3 DEF BitOf

\* &, | and ^ give words, and combine their operands bit by bit.
LEMMA BitByBit ==
    ASSUME NEW x \in Word, NEW y \in Word
    PROVE  /\ And(x, y) \in Word /\ Or(x, y) \in Word /\ Xor(x, y) \in Word
           /\ \A i \in 0 .. (Bits - 1) :
                 /\ BitOf(And(x, y), i) = 1 <=> BitOf(x, i) = 1 /\ BitOf(y, i) = 1
                 /\ BitOf(Or(x, y), i) = 1 <=> BitOf(x, i) = 1 \/ BitOf(y, i) = 1
                 /\ BitOf(Xor(x, y), i) = 1 <=> BitOf(x, i) # BitOf(y, i)
<1> DEFINE and == [i \in 0 .. (Bits - 1) |-> BitOf(x, i) * BitOf(y, i)]
           or == [i \in 0 .. (Bits - 1) |-> IF BitOf(x, i) + BitOf(y, i) > 0 THEN 1 ELSE 0]
           xor == [i \in 0 .. (Bits - 1) |-> (BitOf(x, i) + BitOf(y, i)) % 2]
<1>1. And(x, y) = FromBits(and) /\ Or(x, y) = FromBits(or) /\ Xor(x, y) = FromBits(xor)
    BY DEF And, Or, Xor
<1>2. ASSUME NEW u \in 0 .. 1, NEW v \in 0 .. 1
      PROVE  /\ u * v \in 0 .. 1 /\ (u * v = 1 <=> u = 1 /\ v = 1)
             /\ u + v > 0 <=> u = 1 \/ v = 1
             /\ (u + v) % 2 \in 0 .. 1 /\ ((u + v) % 2 = 1 <=> u # v)
  <2>1. (u = 0 \/ u = 1) /\ (v = 0 \/ v = 1)
      OBVIOUS
  <2>2. QED
      BY <2>1
<1>3. ASSUME NEW i \in 0 .. (Bits - 1)
      PROVE  /\ and[i] \in 0 .. 1 /\ (and[i] = 1 <=> BitOf(x, i) = 1 /\ BitOf(y, i) = 1)
             /\ or[i] \in 0 .. 1 /\ (or[i] = 1 <=> BitOf(x, i) = 1 \/ BitOf(y, i) = 1)
             /\ xor[i] \in 0 .. 1 /\ (xor[i] = 1 <=> BitOf(x, i) # BitOf(y, i))
    BY <1>2, BitIsBit
<1>4. /\ and \in [0 .. (Bits - 1) -> 0 .. 1]
      /\ or \in [0 .. (Bits - 1) -> 0 .. 1]
      /\ xor \in [0 .. (Bits - 1) -> 0 .. 1]
    BY <1>3
<1> HIDE DEF and, or, xor
<1>5. And(x, y) \in Word /\ Or(x, y) \in Word /\ Xor(x, y) \in Word
    BY <1>1, <1>4, WordOfBits
<1>6. ASSUME NEW i \in 0 .. (Bits - 1)
      PROVE  /\ BitOf(And(x, y), i) = and[i]
             /\ BitOf(Or(x, y), i) = or[i]
             /\ BitOf(Xor(x, y), i) = xor[i]
    BY <1>1, <1>4, WordOfBits
<1>7. QED
    BY <1>3, <1>5, <1>6

\* kAnd, kOr and kXor of Alu::execute set the bits that both operands have, that one of them
\* has, and that they differ in, for words of every even number of bits.
THEOREM BitsCombine ==
    \A x \in Word, y \in Word, i \in 0 .. (Bits - 1) :
        /\ BitOf(execute("kAnd", x, y), i) = 1 <=> BitOf(x, i) = 1 /\ BitOf(y, i) = 1
        /\ BitOf(execute("kOr", x, y), i) = 1 <=> BitOf(x, i) = 1 \/ BitOf(y, i) = 1
        /\ BitOf(execute("kXor", x, y), i) = 1 <=> BitOf(x, i) # BitOf(y, i)
<1> TAKE x \in Word, y \in Word, i \in 0 .. (Bits - 1)
<1>1. /\ execute("kAnd", x, y) = And(x, y)
      /\ execute("kOr", x, y) = Or(x, y)
      /\ execute("kXor", x, y) = Xor(x, y)
    BY DEF execute
<1>2. QED
    BY <1>1, BitByBit

-----------------------------------------------------------------------------
\* Results are words.
LEMMA WordMod == \A n \in Int : n % Pow \in Word
<1>1. Pow \in Int /\ Pow > 0
    BY Sizes
<1>2. QED
    BY <1>1, Divided DEF Word

LEMMA ExtendedWord == \A n \in Int : Extended(n) \in Word
<1> TAKE n \in Int
<1> DEFINE r == n % Pow
<1>1. /\ Half \in Int /\ Half > 0 /\ Pow \in Int /\ Pow > 0
    BY Sizes
<1>2. r \in Int
    BY <1>1, Divided
<1>3. r % Half \in Int
    BY <1>1, <1>2, Divided
<1>4. SignedLow(r) \in Int
    BY <1>1, <1>3 DEF SignedLow, Low
<1>5. QED
    BY <1>4, WordMod DEF Extended, r

\* C++'s quotient and remainder are integers.
LEMMA TruncInt ==
    ASSUME NEW x \in Int, NEW y \in Int, y # 0
    PROVE  TruncDiv(x, y) \in Int /\ TruncRem(x, y) \in Int
<1> DEFINE q == Abs(x) \div Abs(y)
<1>1. Abs(x) \in Int /\ Abs(y) \in Int /\ Abs(y) > 0 /\ Sign(x) \in {-1, 1} /\ Sign(y) \in {-1, 1}
    BY DEF Abs, Sign
<1>2. q \in Int
    BY <1>1, Divided
<1>3. TruncDiv(x, y) = Sign(x) * Sign(y) * q
    BY DEF TruncDiv
<1> HIDE DEF q
<1>4. TruncDiv(x, y) \in Int
    BY <1>1, <1>2, <1>3
<1>5. y * TruncDiv(x, y) \in Int
    BY <1>4
<1>6. QED
    BY <1>4, <1>5 DEF TruncRem

\* Quotients and remainders without signs do not exceed their dividend.
LEMMA SmallerQuotient ==
    ASSUME NEW x \in Nat, NEW y \in Nat, y > 0
    PROVE  x \div y \in 0 .. x /\ x % y \in 0 .. x
<1> DEFINE q == x \div y
           r == x % y
<1>1. x = q * y + r /\ q \in Int /\ r \in 0 .. (y - 1)
    BY Divided
<1>2. 0 * y <= x /\ x < (x + 1) * y
  <2>1. 1 * (x + 1) <= y * (x + 1)
      BY TimesMonotone
  <2>2. QED
      BY <2>1
<1>3. q \in 0 .. ((x + 1) - 1)
    BY <1>2, QuotientRange
<1> HIDE DEF q, r
<1>4. q * y \in Nat
    BY <1>3
<1>5. QED
    BY <1>1, <1>3, <1>4 DEF q, r

\* The numbers the operations compute with.
LEMMA WordNumbers ==
    ASSUME NEW w \in Word
    PROVE  /\ w \in Nat /\ SignedOf(w) \in Int /\ SignedLow(w) \in Int
           /\ Low(w) \in Nat /\ Low(w) \in Word /\ 0 .. w \subseteq Word
           /\ 0 .. Low(w) \subseteq Word
<1>1. w \in Nat /\ w \in Int /\ Half \in Int /\ Half > 0 /\ Pow \in Nat /\ Half <= Pow
    BY Sizes DEF Word
<1>2. w % Half \in 0 .. (Half - 1)
    BY <1>1, Divided
<1>3. QED
    BY <1>1, <1>2 DEF Word, SignedOf, SignedLow, Low

LEMMA ShiftPowers ==
    ASSUME NEW w \in Word
    PROVE  /\ Power[ShiftAmount(w)] \in Nat /\ Power[ShiftAmount(w)] > 0
           /\ Power[ShiftAmountw(w)] \in Nat /\ Power[ShiftAmountw(w)] > 0
<1>1. w \in Int /\ Bits \in Int /\ Bits > 0 /\ Bits \div 2 \in Int /\ Bits \div 2 > 0
      /\ Bits \div 2 <= Bits
    BY WordNumbers, BitsAssumption
<1>2. w % Bits \in 0 .. (Bits - 1) /\ w % (Bits \div 2) \in 0 .. (Bits \div 2 - 1)
    BY <1>1, Divided
<1>3. QED
    BY <1>1, <1>2, PowerType DEF ShiftAmount, ShiftAmountw

LEMMA HalvesOfWords ==
    ASSUME NEW op, NEW x \in Word, NEW y \in Word
    PROVE  executew(op, x, y) \in Word
<1> DEFINE sx == SignedLow(x)
           sy == SignedLow(y)
           p == Power[ShiftAmountw(y)]
<1>1. /\ sx \in Int /\ sy \in Int /\ Low(x) \in Nat /\ Low(y) \in Nat /\ p \in Nat /\ p > 0
      /\ Low(x) \in Word /\ 0 .. Low(x) \subseteq Word
    BY WordNumbers, ShiftPowers
<1>2. 0 \in Word
    BY Sizes DEF Word
<1>3. Extended(sx + sy) \in Word /\ Extended(sx - sy) \in Word /\ Extended(sx) \in Word
    BY <1>1, ExtendedWord
<1>4. Extended(sx * sy) \in Word /\ Extended(Low(x) * p) \in Word
  <2>1. sx * sy \in Int /\ Low(x) * p \in Int
      BY <1>1
  <2>2. QED
      BY <2>1, ExtendedWord
<1>5. sy # 0 => Extended(TruncDiv(sx, sy)) \in Word /\ Extended(TruncRem(sx, sy)) \in Word
    BY <1>1, TruncInt, ExtendedWord
<1>6. Low(y) # 0 => Low(x) \div Low(y) \in Word /\ Low(x) % Low(y) \in Word
    BY <1>1, SmallerQuotient
<1>7. Extended(Low(x) \div p) \in Word /\ Extended(sx \div p) \in Word
    BY <1>1, Divided, ExtendedWord
<1> HIDE DEF Word
<1>8. QED
    BY <1>1, <1>2, <1>3, <1>4, <1>5, <1>6, <1>7 DEF executew

\* Alu::execute gives a word for words: this is AluAssumption of the engines, for words of
\* every even number of bits and every operation, *w and unknown ones included.
THEOREM ResultsAreWords ==
    \A op, x \in Word, y \in Word : execute(op, x, y) \in Word
<1> TAKE op, x \in Word, y \in Word
<1> DEFINE sx == SignedOf(x)
           sy == SignedOf(y)
           p == Power[ShiftAmount(y)]
<1>1. /\ sx \in Int /\ sy \in Int /\ x \in Nat /\ y \in Nat /\ p \in Nat /\ p > 0
      /\ 0 .. x \subseteq Word
    BY WordNumbers, ShiftPowers
<1>2. 0 \in Word /\ 1 \in Word /\ (Pow \div 2) - 1 \in Word /\ Pow \in Int /\ Pow > 0
    BY Sizes DEF Word
<1>3. sx * sy \in Int /\ sx * y \in Int /\ x * y \in Int /\ x * p \in Int
    BY <1>1
<1>4. (sx + sy) % Pow \in Word /\ (sx - sy) % Pow \in Word
    BY <1>1, WordMod
<1>5. (sx * sy) % Pow \in Word /\ (x * p) % Pow \in Word
    BY <1>3, WordMod
<1>6. High(sx * sy) \in Word /\ High(sx * y) \in Word /\ High(x * y) \in Word
  <2>1. ASSUME NEW n \in Int PROVE High(n) \in Word
      BY <1>2, Divided, WordMod DEF High
  <2>2. QED
      BY <1>3, <2>1
<1>7. sy # 0 => TruncDiv(sx, sy) % Pow \in Word /\ TruncRem(sx, sy) % Pow \in Word
    BY <1>1, TruncInt, WordMod
<1>8. y # 0 => x \div y \in Word /\ x % y \in Word
    BY <1>1, SmallerQuotient
<1>9. sy = 0 => y = 0
    BY <1>2 DEF SignedOf, Word
<1>10. x \div p \in Word /\ (sx \div p) % Pow \in Word
    BY <1>1, SmallerQuotient, Divided, WordMod
<1>11. BoolWord(sx < sy) \in Word /\ BoolWord(x < y) \in Word
    BY <1>2 DEF BoolWord
<1>12. And(x, y) \in Word /\ Or(x, y) \in Word /\ Xor(x, y) \in Word
    BY BitByBit
<1>13. executew(op, x, y) \in Word
    BY HalvesOfWords
<1> HIDE DEF Word
<1>14. QED
    BY <1>2, <1>4, <1>5, <1>6, <1>7, <1>8, <1>9, <1>10, <1>11, <1>12, <1>13 DEF execute
=============================================================================
