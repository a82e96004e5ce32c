-------------------------- MODULE TapiRouterProofs ---------------------------
(***************************************************************************)
(* Proofs about the messages and the router, for bytes of any base, words  *)
(* and handles of any size, and any messages, contexts and setups.         *)
(***************************************************************************)
EXTENDS TapiRouter, TLAPS, WellFoundedInduction, SequenceTheorems

-----------------------------------------------------------------------------
(* Induction, and arithmetic.                                              *)

\* A set of numbers with 0 and the successors of its elements has them all.
LEMMA Induction ==
  ASSUME NEW T \in SUBSET Nat, 0 \in T, \A n \in T : n + 1 \in T
  PROVE  T = Nat
<1> DEFINE R == {ss \in Nat \X Nat : ss[1] < ss[2]}
           U == Nat \ T
<1>1. SUFFICES ASSUME T # Nat PROVE FALSE
  OBVIOUS
<1>2. IsWellFoundedOn(R, Nat)
  BY NatLessThanWellFounded DEF OpToRel
<1>3. \A x, y \in Nat : y < x => <<y, x>> \in R
  OBVIOUS
<1>4. U \in SUBSET Nat /\ U # {}
  BY <1>1
<1> HIDE DEF R, U
<1>5. PICK x \in U : \A y \in U : ~(<<y, x>> \in R)
  BY <1>2, <1>4, WFMin
<1>6. x \in Nat /\ x \notin T
  BY <1>5 DEF U
<1>7. x # 0
  BY <1>6
<1>8. x - 1 \in Nat /\ x - 1 < x
  BY <1>6, <1>7
<1>9. x - 1 \in T
  BY <1>3, <1>5, <1>6, <1>8 DEF U
<1> QED
  BY <1>6, <1>8, <1>9

LEMMA Divided ==
  ASSUME NEW a \in Int, NEW b \in Nat \ {0}
  PROVE  a \div b \in Int /\ a % b \in 0..b - 1 /\ a = b * (a \div b) + (a % b)
OBVIOUS

LEMMA NotLess ==
  ASSUME NEW d \in Nat \ {0}, NEW p \in Int, NEW q \in Int, NEW r \in 0..d - 1,
         NEW s \in 0..d - 1, d * p + r = d * q + s
  PROVE  ~(p < q)
<1>1. SUFFICES ASSUME p < q PROVE FALSE
  OBVIOUS
<1>2. PICK c \in Nat : q = p + (1 + c)
  <2>1. q - p - 1 \in Nat /\ q = p + (1 + (q - p - 1))
    BY <1>1
  <2> QED BY <2>1
<1>3. d * q = d * p + d * (1 + c) /\ d * (1 + c) = d + d * c /\ d * c \in Nat
  BY <1>2
<1> QED BY <1>3

\* Quotient and remainder are unique.
LEMMA Quotient ==
  ASSUME NEW d \in Nat \ {0}, NEW a \in Int, NEW q \in Int, NEW r \in 0..d - 1, a = d * q + r
  PROVE  a \div d = q /\ a % d = r
<1>1. PICK p \in Int, s \in 0..d - 1 : p = a \div d /\ s = a % d /\ a = d * p + s
  BY Divided
<1>2. ~(p < q) /\ ~(q < p)
  BY <1>1, NotLess
<1>3. p = q
  BY <1>2
<1> QED BY <1>1, <1>3

\* To divide twice is to divide by the product.
LEMMA DividedTwice ==
  ASSUME NEW v \in Int, NEW d \in Nat \ {0}, NEW b \in Nat \ {0}
  PROVE  (v \div d) \div b = v \div (b * d)
<1>1. PICK x \in Int, y \in 0..d - 1 : x = v \div d /\ v = d * x + y
  BY Divided
<1>2. PICK z \in Int, w \in 0..b - 1 : z = x \div b /\ x = b * z + w
  BY Divided
<1>3. PICK e \in Nat \ {0} : e = b * d
  OBVIOUS
<1>4. v = e * z + (d * w + y)
  <2>1. d * x = d * (b * z) + d * w
    BY <1>2
  <2>2. d * (b * z) = e * z
    BY <1>3
  <2> QED BY <1>1, <2>1, <2>2
<1>5. d * w + y \in 0..e - 1
  <2>1. PICK u \in Nat : b = w + 1 + u
    <3>1. b - w - 1 \in Nat /\ b = w + 1 + (b - w - 1)
      BY <1>2
    <3> QED BY <3>1
  <2>2. e = d * w + d + d * u /\ d * u \in Nat /\ d * w \in Nat
    BY <1>2, <1>3, <2>1
  <2> QED BY <1>1, <2>2
<1>6. v \div e = z
  BY <1>4, <1>5, <1>3, Quotient
<1> QED BY <1>1, <1>2, <1>3, <1>6

\* A multiple of the divisor does not change the remainder.
LEMMA SameRemainder ==
  ASSUME NEW v \in Int, NEW d \in Nat \ {0}, NEW c \in Int
  PROVE  (v + d * c) \div d = (v \div d) + c /\ (v + d * c) % d = v % d
<1>1. PICK x \in Int, y \in 0..d - 1 : x = v \div d /\ y = v % d /\ v = d * x + y
  BY Divided
<1>2. PICK m \in Int, q \in Int : m = v + d * c /\ q = x + c
  OBVIOUS
<1>3. m = d * q + y
  BY <1>1, <1>2
<1>4. m \div d = q /\ m % d = y
  BY <1>3, Quotient
<1> QED BY <1>1, <1>2, <1>4

-----------------------------------------------------------------------------
(* Words.                                                                  *)

Weights(n, g) == g = [k \in 0..n |-> IF k = 0 THEN 1 ELSE Base * g[k - 1]]

LEMMA WeightsExist == \A n \in Nat : \E g : Weights(n, g)
<1> DEFINE T == {n \in Nat : \E g : Weights(n, g)}
<1>1. 0 \in T
  <2>1. Weights(0, [k \in 0..0 |-> 1])
    BY DEF Weights
  <2> QED BY <2>1
<1>2. ASSUME NEW n \in T PROVE n + 1 \in T
  <2>1. PICK g : Weights(n, g)
    OBVIOUS
  <2> DEFINE h == [k \in 0..(n + 1) |-> IF k <= n THEN g[k] ELSE Base * g[k - 1]]
  <2>2. \A k \in 0..n : g[k] = IF k = 0 THEN 1 ELSE Base * g[k - 1]
    BY <2>1 DEF Weights
  <2>3. \A k \in 0..(n + 1) : h[k] = IF k = 0 THEN 1 ELSE Base * h[k - 1]
    <3> TAKE k \in 0..(n + 1)
    <3>1. k # 0 => h[k - 1] = g[k - 1]
      OBVIOUS
    <3> QED BY <2>2, <3>1
  <2>4. Weights(n + 1, h)
    <3> HIDE DEF h
    <3>1. h = [k \in 0..(n + 1) |-> h[k]]
      BY DEF h
    <3> QED BY <2>3, <3>1 DEF Weights
  <2> QED BY <2>4
<1>3. T = Nat
  <2> HIDE DEF T
  <2>1. T \subseteq Nat
    BY DEF T
  <2> QED BY <1>1, <1>2, <2>1, Induction
<1> QED BY <1>3

LEMMA WeightIs ==
  /\ Weight[0] = 1
  /\ \A k \in 1..WordSize : Weight[k] = Base * Weight[k - 1]
  /\ \A k \in 0..WordSize : Weight[k] \in Nat \ {0}
<1> USE PackAssumption
<1> DEFINE w == CHOOSE g : Weights(WordSize, g)
<1>1. Weights(WordSize, w)
  BY WeightsExist
<1>2. Weight = w
  BY DEF Weight, Weights
<1> HIDE DEF w
<1>3. \A k \in 0..WordSize : Weight[k] = IF k = 0 THEN 1 ELSE Base * Weight[k - 1]
  BY <1>1, <1>2 DEF Weights
<1> DEFINE T == {k \in Nat : k \in 0..WordSize => Weight[k] \in Nat \ {0}}
<1>4. 0 \in T
  BY <1>3
<1>5. ASSUME NEW k \in T PROVE k + 1 \in T
  <2>1. CASE k + 1 \in 0..WordSize
    <3>1. k \in 0..WordSize /\ Weight[k + 1] = Base * Weight[k]
      BY <1>3, <2>1
    <3>2. PICK x \in Nat \ {0} : x = Weight[k]
      BY <3>1
    <3>3. Base * x \in Nat \ {0}
      OBVIOUS
    <3> QED BY <3>1, <3>2, <3>3
  <2> QED BY <2>1
<1>6. T = Nat
  <2> HIDE DEF T
  <2>1. T \subseteq Nat
    BY DEF T
  <2> QED BY <1>4, <1>5, <2>1, Induction
<1>7. \A k \in 0..WordSize : Weight[k] \in Nat \ {0}
  BY <1>6
<1> QED BY <1>3, <1>7

\* A digit higher up counts for a multiple of what one lower down does.
LEMMA HigherWeight ==
  ASSUME NEW k \in 0..WordSize - 1
  PROVE  \E c \in Nat : Weight[WordSize] = Weight[k] * (Base * c)
<1> USE PackAssumption
<1> DEFINE T == {n \in Nat : n \in 1..WordSize - k =>
                  \E c \in Nat : Weight[k + n] = Weight[k] * (Base * c)}
<1>1. 0 \in T
  OBVIOUS
<1>2. ASSUME NEW n \in T PROVE n + 1 \in T
  <2>1. CASE n + 1 \in 1..WordSize - k
    <3>1. k + (n + 1) \in 1..WordSize /\ (k + (n + 1)) - 1 = k + n /\ k \in 0..WordSize
      BY <2>1
    <3>2. Weight[k + (n + 1)] = Base * Weight[k + n]
      BY <3>1, WeightIs
    <3>3. PICK x \in Nat : x = Weight[k]
      BY <3>1, WeightIs
    <3>4. ASSUME n = 0 PROVE \E c \in Nat : Weight[k + (n + 1)] = x * (Base * c)
      <4>1. PICK c \in Nat : c = 1 /\ Base * c = Base
        OBVIOUS
      <4>2. Weight[k + n] = x
        BY <3>3, <3>4
      <4>3. Weight[k + (n + 1)] = x * (Base * c)
        BY <3>2, <4>1, <4>2
      <4> QED BY <4>3
    <3>5. ASSUME n # 0 PROVE \E c \in Nat : Weight[k + (n + 1)] = x * (Base * c)
      <4>1. PICK c \in Nat : Weight[k + n] = x * (Base * c)
        BY <2>1, <3>3, <3>5
      <4>2. PICK e \in Nat : e = Base * c
        OBVIOUS
      <4>3. Weight[k + (n + 1)] = x * (Base * e)
        <5>1. Base * (x * e) = x * (Base * e)
          OBVIOUS
        <5> QED BY <3>2, <4>1, <4>2, <5>1
      <4> QED BY <4>3
    <3>6. \E c \in Nat : Weight[k + (n + 1)] = Weight[k] * (Base * c)
      BY <3>3, <3>4, <3>5
    <3> QED BY <3>6
  <2> QED BY <2>1
<1>3. T = Nat
  <2> HIDE DEF T
  <2>1. T \subseteq Nat
    BY DEF T
  <2> QED BY <1>1, <1>2, <2>1, Induction
<1>4. PICK n \in Nat : n \in 1..WordSize - k /\ k + n = WordSize
  <2>1. /\ WordSize - k \in Nat
        /\ WordSize - k \in 1..WordSize - k
        /\ k + (WordSize - k) = WordSize
    OBVIOUS
  <2> QED BY <2>1
<1>5. \E c \in Nat : Weight[k + n] = Weight[k] * (Base * c)
  <2>1. n \in T
    <3> HIDE DEF T
    <3> QED BY <1>3
  <2> QED BY <1>4, <2>1
<1> QED BY <1>4, <1>5

\* A word and the number it is the two's complement of have the same bytes.
LEMMA SameBytes ==
  ASSUME NEW value \in Int
  PROVE  PutWord(value + Weight[WordSize]) = PutWord(value)
<1> USE PackAssumption
<1>1. ASSUME NEW i \in 1..WordSize
      PROVE  ((value + Weight[WordSize]) \div Weight[WordSize - i]) % Base
               = (value \div Weight[WordSize - i]) % Base
  <2>1. PICK k \in 0..WordSize - 1 : k = WordSize - i
    OBVIOUS
  <2>2. PICK d \in Nat \ {0} : d = Weight[k]
    BY WeightIs
  <2>3. PICK c \in Nat : Weight[WordSize] = d * (Base * c)
    BY <2>2, HigherWeight
  <2>4. PICK e \in Int : e = Base * c
    OBVIOUS
  <2>5. PICK q \in Int : q = value \div d
    BY Divided
  <2>6. (value + d * e) \div d = q + e
    BY <2>5, SameRemainder
  <2>7. (q + Base * c) % Base = q % Base
    <3>1. c \in Int /\ Base \in Nat \ {0}
      OBVIOUS
    <3> QED BY ONLY <2>5, <3>1, SameRemainder
  <2> QED BY <2>1, <2>2, <2>3, <2>4, <2>5, <2>6, <2>7
<1> QED BY <1>1 DEF PutWord

LEMMA PutWordTyped ==
  ASSUME NEW value \in Int
  PROVE  PutWord(value) \in [1..WordSize -> Byte]
<1> USE PackAssumption
<1>1. ASSUME NEW i \in 1..WordSize
      PROVE  (value \div Weight[WordSize - i]) % Base \in Byte
  <2>1. PICK d \in Nat \ {0} : d = Weight[WordSize - i]
    BY WeightIs
  <2>2. PICK q \in Int : q = value \div d
    BY Divided
  <2> QED BY <2>1, <2>2, Divided DEF Byte
<1> QED BY <1>1 DEF PutWord

\* The words GetWord computes from the first bytes of an image.
Read(image, n, g) ==
  g = [k \in 0..n |-> IF k = 0 THEN 0 ELSE (g[k - 1] * Base + image[k]) % Weight[WordSize]]

LEMMA ReadsExist ==
  ASSUME NEW image
  PROVE  \A n \in Nat : \E g : Read(image, n, g)
<1> DEFINE T == {n \in Nat : \E g : Read(image, n, g)}
           Step(g, k) == (g[k - 1] * Base + image[k]) % Weight[WordSize]
<1>1. 0 \in T
  <2>1. Read(image, 0, [k \in 0..0 |-> 0])
    BY DEF Read
  <2> QED BY <2>1
<1>2. ASSUME NEW n \in T PROVE n + 1 \in T
  <2>1. PICK g : Read(image, n, g)
    OBVIOUS
  <2> DEFINE h == [k \in 0..(n + 1) |-> IF k <= n THEN g[k] ELSE Step(g, k)]
  <2>2. \A k \in 0..n : g[k] = IF k = 0 THEN 0 ELSE Step(g, k)
    BY <2>1 DEF Read
  <2>3. \A k \in 0..(n + 1) : h[k] = IF k = 0 THEN 0 ELSE Step(h, k)
    <3> TAKE k \in 0..(n + 1)
    <3>1. k # 0 => h[k - 1] = g[k - 1]
      OBVIOUS
    <3> HIDE DEF h
    <3>2. k # 0 => Step(h, k) = Step(g, k)
      BY <3>1
    <3>3. h[k] = IF k <= n THEN g[k] ELSE Step(g, k)
      BY DEF h
    <3> HIDE DEF Step
    <3> QED BY <2>2, <3>2, <3>3
  <2>4. Read(image, n + 1, h)
    <3> HIDE DEF h
    <3>1. h = [k \in 0..(n + 1) |-> h[k]]
      BY DEF h
    <3> QED BY <2>3, <3>1 DEF Read
  <2> QED BY <2>4
<1>3. T = Nat
  <2> HIDE DEF T
  <2>1. T \subseteq Nat
    BY DEF T
  <2> QED BY <1>1, <1>2, <2>1, Induction
<1> QED BY <1>3

LEMMA GetWordIs ==
  ASSUME NEW image
  PROVE  \E g : /\ g[0] = 0
                /\ \A k \in 1..WordSize : g[k] = (g[k - 1] * Base + image[k]) % Weight[WordSize]
                /\ GetWord(image) = g[WordSize]
<1> USE PackAssumption
<1> DEFINE f == CHOOSE g : Read(image, WordSize, g)
<1>1. Read(image, WordSize, f)
  BY ReadsExist
<1>2. GetWord(image) = f[WordSize]
  BY DEF GetWord, Read
<1> HIDE DEF f
<1>3. \A k \in 0..WordSize :
        f[k] = IF k = 0 THEN 0 ELSE (f[k - 1] * Base + image[k]) % Weight[WordSize]
  BY <1>1 DEF Read
<1>4. f[0] = 0
  BY <1>3
<1>5. \A k \in 1..WordSize : f[k] = (f[k - 1] * Base + image[k]) % Weight[WordSize]
  BY <1>3
<1> QED BY <1>2, <1>4, <1>5

\* What sysv_byte_put stored, sysv_byte_get reads.
LEMMA WordRead ==
  ASSUME NEW value \in Word, NEW image, \A i \in 1..WordSize : image[i] = PutWord(value)[i]
  PROVE  GetWord(image) = value
<1> USE PackAssumption
<1>1. PICK g : /\ g[0] = 0
               /\ \A k \in 1..WordSize : g[k] = (g[k - 1] * Base + image[k]) % Weight[WordSize]
               /\ GetWord(image) = g[WordSize]
  BY GetWordIs
<1>2. PICK max \in Nat \ {0} : max = Weight[WordSize]
  BY WeightIs
<1>3. value \in Nat /\ value < max
  BY <1>2 DEF Word
<1> DEFINE T == {k \in Nat : k \in 0..WordSize => g[k] = value \div Weight[WordSize - k]}
<1>4. 0 \in T
  <2>1. value = max * 0 + value /\ value \in 0..max - 1
    BY <1>2, <1>3
  <2>2. value \div max = 0
    BY <1>3, <2>1, Quotient
  <2> QED BY <1>1, <1>2, <2>2
<1>5. ASSUME NEW k \in T PROVE k + 1 \in T
  <2>1. CASE k + 1 \in 0..WordSize
    <3>1. k + 1 \in 1..WordSize /\ k \in 0..WordSize /\ (k + 1) - 1 = k
      BY <2>1
    <3>2. PICK j \in 0..WordSize - 1 : j = WordSize - (k + 1) /\ j + 1 = WordSize - k
      BY <3>1
    <3>3. PICK d \in Nat \ {0} : d = Weight[j]
      BY WeightIs
    <3>4. Weight[j + 1] = Base * d
      <4>1. j + 1 \in 1..WordSize /\ (j + 1) - 1 = j
        OBVIOUS
      <4> QED BY <3>3, <4>1, WeightIs
    <3>5. PICK q \in Int, b \in 0..Base - 1 :
            q = value \div d /\ b = q % Base /\ q = Base * (q \div Base) + b
      <4>1. PICK q \in Int : q = value \div d
        BY ONLY <1>3, <3>3, Divided
      <4>2. Base \in Nat \ {0}
        OBVIOUS
      <4> QED BY ONLY <4>1, <4>2, Divided
    <3>6. q \div Base = value \div (Base * d)
      <4>1. Base \in Nat \ {0} /\ value \in Int /\ d \in Nat \ {0}
        BY <1>3
      <4>2. (value \div d) \div Base = value \div (Base * d)
        BY ONLY <4>1, DividedTwice
      <4> QED BY <3>5, <4>2
    <3>7. g[k] = q \div Base
      BY <3>1, <3>2, <3>4, <3>6
    <3>8. image[k + 1] = b
      <4>1. PutWord(value)[k + 1] = (value \div Weight[WordSize - (k + 1)]) % Base
        BY <3>1 DEF PutWord
      <4> QED BY <3>1, <3>2, <3>3, <3>5, <4>1
    <3>9. g[k + 1] = (g[k] * Base + b) % max
      BY <1>1, <1>2, <3>1, <3>8
    <3>10. q \in 0..max - 1
      <4>1. PICK r \in 0..d - 1 : value = d * q + r
        <5>1. value \in Int /\ d \in Nat \ {0}
          BY <1>3
        <5>2. value % d \in 0..d - 1 /\ value = d * (value \div d) + (value % d)
          BY ONLY <5>1, Divided
        <5> QED BY <3>5, <5>2
      <4>2. ~(q < 0)
        <5>1. SUFFICES ASSUME q < 0 PROVE FALSE
          OBVIOUS
        <5>2. PICK c \in Nat : q = -1 - c
          <6>1. -1 - q \in Nat /\ q = -1 - (-1 - q)
            BY <5>1
          <6> QED BY <6>1
        <5>3. d * q = -d - d * c /\ d * c \in Nat
          BY <5>2
        <5> QED BY <1>3, <4>1, <5>3
      <4>3. d * q >= q
        <5>1. PICK c \in Nat : d = 1 + c
          <6>1. d - 1 \in Nat /\ d = 1 + (d - 1)
            OBVIOUS
          <6> QED BY <6>1
        <5>2. q \in Nat
          BY <4>2
        <5>3. d * q = q + c * q /\ c * q \in Nat
          BY <5>1, <5>2
        <5> QED BY <5>2, <5>3
      <4> QED BY <1>3, <4>1, <4>2, <4>3
    <3>11. q % max = q
      <4>1. q = max * 0 + q
        OBVIOUS
      <4> QED BY <3>10, <4>1, Quotient
    <3>12. g[k] * Base + b = q
      <4>1. PICK u \in Int : u = q \div Base
        BY Divided
      <4> QED BY <3>5, <3>7, <4>1
    <3> QED BY <3>2, <3>3, <3>5, <3>9, <3>11, <3>12
  <2> QED BY <2>1
<1>6. T = Nat
  <2> HIDE DEF T
  <2>1. T \subseteq Nat
    BY DEF T
  <2> QED BY <1>4, <1>5, <2>1, Induction
<1>7. g[WordSize] = value \div Weight[0]
  <2>1. WordSize \in T /\ WordSize - WordSize = 0
    BY <1>6
  <2> QED BY <2>1
<1>8. value = 1 * value + 0
  BY <1>3
<1>9. value \div 1 = value
  BY <1>3, <1>8, Quotient
<1> QED BY <1>1, <1>7, <1>9, WeightIs

LEMMA IntRead ==
  ASSUME NEW value \in Int32, NEW image, \A i \in 1..WordSize : image[i] = PutWord(value)[i]
  PROVE  Signed(GetWord(image)) = value
<1> USE PackAssumption
<1>1. PICK max \in Nat \ {0} : max = Weight[WordSize]
  BY WeightIs
<1>2. PICK half \in Nat : half = max \div 2 /\ max - 1 <= 2 * half /\ 2 * half <= max
  <2>1. PICK h \in Int, r \in 0..1 : h = max \div 2 /\ max = 2 * h + r
    BY Divided
  <2> QED BY <2>1
<1>3. value \in Int /\ -(max - half) <= value /\ value < half
  BY <1>1, <1>2 DEF Int32
<1>4. CASE value < 0
  <2>1. PICK w \in Word : w = value + max
    BY <1>1, <1>2, <1>3, <1>4 DEF Word
  <2>2. \A i \in 1..WordSize : image[i] = PutWord(w)[i]
    BY <1>1, <1>3, <2>1, SameBytes
  <2>3. GetWord(image) = w
    BY <2>2, WordRead
  <2> QED BY <1>1, <1>2, <1>3, <2>1, <2>3 DEF Signed
<1>5. CASE value >= 0
  <2>1. value \in Word
    BY <1>1, <1>2, <1>3, <1>5 DEF Word
  <2>2. GetWord(image) = value
    BY <2>1, WordRead
  <2> QED BY <1>1, <1>2, <1>3, <2>2 DEF Signed
<1> QED BY <1>3, <1>4, <1>5

-----------------------------------------------------------------------------
(* Fields and their places.                                                *)

FieldName ==
  {"context_id", "sm_id", "cmd", "req_context_id", "req_cmd", "context_handle",
   "session_handle", "taid", "memory_id", "memory_size", "flag", "addr", "status"}

FieldType == [name : FieldName, kind : {"word", "int", "buf"}]

LEMMA SizeTyped == \A f : Size(f) \in Nat \ {0}
BY PackAssumption DEF Size

Sizes(list, n, g) == g = [k \in 0..n |-> IF k = 0 THEN 0 ELSE g[k - 1] + Size(list[k])]

LEMMA SizesExist ==
  ASSUME NEW list
  PROVE  \A n \in Nat : \E g : Sizes(list, n, g)
<1> DEFINE T == {n \in Nat : \E g : Sizes(list, n, g)}
<1>1. 0 \in T
  <2>1. Sizes(list, 0, [k \in 0..0 |-> 0])
    BY DEF Sizes
  <2> QED BY <2>1
<1>2. ASSUME NEW n \in T PROVE n + 1 \in T
  <2>1. PICK g : Sizes(list, n, g)
    OBVIOUS
  <2> DEFINE h == [k \in 0..(n + 1) |-> IF k <= n THEN g[k] ELSE g[k - 1] + Size(list[k])]
  <2>2. \A k \in 0..n : g[k] = IF k = 0 THEN 0 ELSE g[k - 1] + Size(list[k])
    BY <2>1 DEF Sizes
  <2>3. \A k \in 0..(n + 1) : h[k] = IF k = 0 THEN 0 ELSE h[k - 1] + Size(list[k])
    <3> TAKE k \in 0..(n + 1)
    <3>1. k # 0 => h[k - 1] = g[k - 1]
      OBVIOUS
    <3> QED BY <2>2, <3>1
  <2>4. Sizes(list, n + 1, h)
    <3> HIDE DEF h
    <3>1. h = [k \in 0..(n + 1) |-> h[k]]
      BY DEF h
    <3> QED BY <2>3, <3>1 DEF Sizes
  <2> QED BY <2>4
<1>3. T = Nat
  <2> HIDE DEF T
  <2>1. T \subseteq Nat
    BY DEF T
  <2> QED BY <1>1, <1>2, <2>1, Induction
<1> QED BY <1>3

LEMMA OffsetIs ==
  ASSUME NEW list, Len(list) \in Nat
  PROVE  /\ Offset(list, 0) = 0
         /\ \A k \in 1..Len(list) : Offset(list, k) = Offset(list, k - 1) + Size(list[k])
<1> DEFINE f == CHOOSE g : Sizes(list, Len(list), g)
<1>1. Sizes(list, Len(list), f)
  BY SizesExist
<1>2. \A k : Offset(list, k) = f[k]
  BY DEF Offset, Sizes
<1> HIDE DEF f
<1>3. \A k \in 0..Len(list) : f[k] = IF k = 0 THEN 0 ELSE f[k - 1] + Size(list[k])
  BY <1>1 DEF Sizes
<1> QED BY <1>2, <1>3

LEMMA OffsetTyped ==
  ASSUME NEW list, Len(list) \in Nat
  PROVE  \A k \in 0..Len(list) : Offset(list, k) \in Nat
<1> DEFINE T == {k \in Nat : k \in 0..Len(list) => Offset(list, k) \in Nat}
<1>1. 0 \in T
  BY OffsetIs
<1>2. ASSUME NEW k \in T PROVE k + 1 \in T
  <2>1. CASE k + 1 \in 0..Len(list)
    <3>1. k + 1 \in 1..Len(list) /\ (k + 1) - 1 = k /\ k \in 0..Len(list)
      BY <2>1
    <3>2. Offset(list, k + 1) = Offset(list, k) + Size(list[k + 1])
      BY <3>1, OffsetIs
    <3> QED BY <3>1, <3>2, SizeTyped
  <2> QED BY <2>1
<1>3. T = Nat
  <2> HIDE DEF T
  <2>1. T \subseteq Nat
    BY DEF T
  <2> QED BY <1>1, <1>2, <2>1, Induction
<1> QED BY <1>3

LEMMA OffsetIncreases ==
  ASSUME NEW list, Len(list) \in Nat, NEW i \in 0..Len(list)
  PROVE  \A k \in i..Len(list) : Offset(list, i) <= Offset(list, k)
<1> DEFINE T == {n \in Nat : i + n \in 0..Len(list) => Offset(list, i) <= Offset(list, i + n)}
<1>1. 0 \in T
  BY OffsetTyped
<1>2. ASSUME NEW n \in T PROVE n + 1 \in T
  <2>1. CASE i + (n + 1) \in 0..Len(list)
    <3>1. PICK k \in 0..Len(list) :
            /\ k = i + n /\ k + 1 = i + (n + 1)
            /\ k + 1 \in 1..Len(list) /\ (k + 1) - 1 = k
      BY <2>1
    <3>2. Offset(list, k + 1) = Offset(list, k) + Size(list[k + 1])
      BY <3>1, OffsetIs
    <3>3. Offset(list, i) <= Offset(list, k)
      BY <3>1
    <3>4. Offset(list, i) \in Nat /\ Offset(list, k) \in Nat
      BY OffsetTyped
    <3> QED BY <3>1, <3>2, <3>3, <3>4, SizeTyped
  <2> QED BY <2>1
<1>3. T = Nat
  <2> HIDE DEF T
  <2>1. T \subseteq Nat
    BY DEF T
  <2> QED BY <1>1, <1>2, <2>1, Induction
<1>4. ASSUME NEW k \in i..Len(list) PROVE Offset(list, i) <= Offset(list, k)
  <2>1. PICK n \in Nat : n = k - i /\ i + n = k
    <3>1. k - i \in Nat /\ i + (k - i) = k
      OBVIOUS
    <3> QED BY <3>1
  <2>2. n \in T
    <3> HIDE DEF T
    <3> QED BY <1>3
  <2> QED BY <2>1, <2>2
<1> QED BY <1>4

\* Lists that begin alike have the same places there.
Begins(known, list) ==
  Len(known) <= Len(list) /\ \A i \in 1..Len(known) : known[i] = list[i]

LEMMA OffsetSame ==
  ASSUME NEW list, Len(list) \in Nat, NEW known, Len(known) \in Nat, Begins(known, list)
  PROVE  \A k \in 0..Len(known) : Offset(known, k) = Offset(list, k)
<1> DEFINE T == {k \in Nat : k \in 0..Len(known) => Offset(known, k) = Offset(list, k)}
<1>1. 0 \in T
  BY OffsetIs
<1>2. ASSUME NEW k \in T PROVE k + 1 \in T
  <2>1. CASE k + 1 \in 0..Len(known)
    <3>1. /\ k + 1 \in 1..Len(known) /\ k + 1 \in 1..Len(list) /\ (k + 1) - 1 = k
          /\ k \in 0..Len(known) /\ known[k + 1] = list[k + 1]
      BY <2>1 DEF Begins
    <3>2. Offset(list, k + 1) = Offset(list, k) + Size(list[k + 1])
      BY <3>1, OffsetIs
    <3>3. Offset(known, k + 1) = Offset(known, k) + Size(known[k + 1])
      BY <3>1, OffsetIs
    <3> QED BY <3>1, <3>2, <3>3
  <2> QED BY <2>1
<1>3. T = Nat
  <2> HIDE DEF T
  <2>1. T \subseteq Nat
    BY DEF T
  <2> QED BY <1>1, <1>2, <2>1, Induction
<1> QED BY <1>3

\* One sequence behind another, a name the provers need not look into.
Then(s, t) == s \o t

LEMMA ThenProperties ==
  ASSUME NEW S, NEW s \in Seq(S), NEW t \in Seq(S)
  PROVE  /\ Then(s, t) \in Seq(S)
         /\ Len(Then(s, t)) = Len(s) + Len(t)
         /\ \A j \in 1..Len(s) + Len(t) :
              Then(s, t)[j] = IF j <= Len(s) THEN s[j] ELSE t[j - Len(s)]
BY ConcatProperties DEF Then

Images(list, rec, n, g) ==
  g = [k \in 0..n |-> IF k = 0 THEN <<>> ELSE Then(g[k - 1], Bytes(list[k], rec))]

LEMMA ImagesExist ==
  ASSUME NEW list, NEW rec
  PROVE  \A n \in Nat : \E g : Images(list, rec, n, g)
<1> DEFINE T == {n \in Nat : \E g : Images(list, rec, n, g)}
<1>1. 0 \in T
  <2>1. Images(list, rec, 0, [k \in 0..0 |-> <<>>])
    BY DEF Images
  <2> QED BY <2>1
<1>2. ASSUME NEW n \in T PROVE n + 1 \in T
  <2>1. PICK g : Images(list, rec, n, g)
    OBVIOUS
  <2> DEFINE h == [k \in 0..(n + 1) |->
                    IF k <= n THEN g[k] ELSE Then(g[k - 1], Bytes(list[k], rec))]
  <2>2. \A k \in 0..n : g[k] = IF k = 0 THEN <<>> ELSE Then(g[k - 1], Bytes(list[k], rec))
    BY <2>1 DEF Images
  <2>3. \A k \in 0..(n + 1) : h[k] = IF k = 0 THEN <<>> ELSE Then(h[k - 1], Bytes(list[k], rec))
    <3> TAKE k \in 0..(n + 1)
    <3>1. k # 0 => h[k - 1] = g[k - 1]
      OBVIOUS
    <3> QED BY <2>2, <3>1
  <2>4. Images(list, rec, n + 1, h)
    <3> HIDE DEF h
    <3>1. h = [k \in 0..(n + 1) |-> h[k]]
      BY DEF h
    <3> QED BY <2>3, <3>1 DEF Images
  <2> QED BY <2>4
<1>3. T = Nat
  <2> HIDE DEF T
  <2>1. T \subseteq Nat
    BY DEF T
  <2> QED BY <1>1, <1>2, <2>1, Induction
<1> QED BY <1>3

LEMMA ImageIs ==
  ASSUME NEW list, Len(list) \in Nat, NEW rec
  PROVE  /\ Image(list, rec, 0) = <<>>
         /\ \A k \in 1..Len(list) :
              Image(list, rec, k) = Then(Image(list, rec, k - 1), Bytes(list[k], rec))
<1> DEFINE f == CHOOSE g : Images(list, rec, Len(list), g)
<1>1. Images(list, rec, Len(list), f)
  BY ImagesExist
<1>2. \A k : Image(list, rec, k) = f[k]
  BY DEF Image, Images, Then
<1> HIDE DEF f
<1>3. \A k \in 0..Len(list) : f[k] = IF k = 0 THEN <<>> ELSE Then(f[k - 1], Bytes(list[k], rec))
  BY <1>1 DEF Images
<1>4. Image(list, rec, 0) = <<>>
  BY <1>2, <1>3
<1>5. ASSUME NEW k \in 1..Len(list)
      PROVE  Image(list, rec, k) = Then(Image(list, rec, k - 1), Bytes(list[k], rec))
  <2>1. f[k] = Then(f[k - 1], Bytes(list[k], rec))
    BY <1>3
  <2>2. Image(list, rec, k) = f[k] /\ Image(list, rec, k - 1) = f[k - 1]
    BY <1>2
  <2> QED BY <2>1, <2>2
<1> QED BY <1>4, <1>5


\* STORE puts as many bytes as the place of a field has.
LEMMA BytesTyped ==
  ASSUME NEW list \in Seq(FieldType), NEW rec, HasFields(list, rec), NEW i \in 1..Len(list)
  PROVE  /\ Bytes(list[i], rec) \in Seq(Byte)
         /\ Len(Bytes(list[i], rec)) = Size(list[i])
<1> USE PackAssumption
<1>1. PICK f \in FieldType : f = list[i]
  OBVIOUS
<1>2. HasType(f, rec[f.name])
  BY <1>1 DEF HasFields
<1>3. ASSUME NEW n \in Nat, NEW s \in [1..n -> Byte]
      PROVE  s \in Seq(Byte) /\ Len(s) = n
  OBVIOUS
<1>4. CASE f.kind = "buf"
  <2>1. rec[f.name] \in [1..BufSize -> Byte]
    BY <1>2, <1>4 DEF HasType
  <2> QED BY <1>1, <1>3, <1>4, <2>1 DEF Bytes, Size
<1>5. CASE f.kind # "buf"
  <2>1. rec[f.name] \in Int
    <3>1. PICK max \in Nat \ {0} : max = Weight[WordSize]
      BY WeightIs
    <3>4. max \div 2 \in Int
      BY Divided
    <3>5. PICK half \in Int : half = Weight[WordSize] \div 2
      BY <3>1, <3>4
    <3>2. CASE f.kind = "word"
      <4>1. rec[f.name] \in Word
        BY <1>2, <3>2 DEF HasType
      <4> QED BY <3>1, <4>1 DEF Word
    <3>3. CASE f.kind = "int"
      <4>1. rec[f.name] \in Int32
        BY <1>2, <3>3 DEF HasType
      <4> QED BY <3>1, <3>5, <4>1 DEF Int32
    <3> QED BY <1>5, <3>2, <3>3 DEF FieldType
  <2>2. PutWord(rec[f.name]) \in [1..WordSize -> Byte]
    BY <2>1, PutWordTyped
  <2> QED BY <1>1, <1>3, <1>5, <2>2 DEF Bytes, Size
<1> QED BY <1>4, <1>5

LEMMA ImageTyped ==
  ASSUME NEW list \in Seq(FieldType), NEW rec, HasFields(list, rec)
  PROVE  \A k \in 0..Len(list) : /\ Image(list, rec, k) \in Seq(Byte)
                                 /\ Len(Image(list, rec, k)) = Offset(list, k)
<1> DEFINE P(k) == /\ Image(list, rec, k) \in Seq(Byte)
                   /\ Len(Image(list, rec, k)) = Offset(list, k)
           T == {k \in Nat : k \in 0..Len(list) => P(k)}
<1>1. 0 \in T
  <2>1. Image(list, rec, 0) = <<>> /\ Offset(list, 0) = 0
    BY ImageIs, OffsetIs
  <2> QED BY <2>1, EmptySeq
<1>2. ASSUME NEW k \in T PROVE k + 1 \in T
  <2>1. CASE k + 1 \in 0..Len(list)
    <3>1. PICK j \in 1..Len(list) : j = k + 1 /\ j - 1 = k /\ k \in 0..Len(list)
      BY <2>1
    <3>2. PICK u \in Seq(Byte), v \in Seq(Byte) :
            u = Image(list, rec, k) /\ v = Bytes(list[j], rec) /\ Len(v) = Size(list[j])
      BY <3>1, BytesTyped
    <3>3. Image(list, rec, j) = Then(u, v) /\ Offset(list, j) = Offset(list, k) + Size(list[j])
      <4>1. Len(list) \in Nat
        OBVIOUS
      <4>2. Image(list, rec, j) = Then(Image(list, rec, j - 1), Bytes(list[j], rec))
        BY <4>1, ImageIs
      <4>3. Offset(list, j) = Offset(list, j - 1) + Size(list[j])
        BY <4>1, OffsetIs
      <4> QED BY <3>1, <3>2, <4>2, <4>3
    <3>4. Then(u, v) \in Seq(Byte) /\ Len(Then(u, v)) = Len(u) + Len(v)
      BY ThenProperties
    <3>5. PICK w : w = Then(u, v)
      OBVIOUS
    <3>6. P(j)
      <4>1. Len(u) = Offset(list, k)
        BY <3>1, <3>2
      <4> QED BY <3>2, <3>3, <3>4, <3>5, <4>1
    <3> HIDE DEF P
    <3> QED BY <3>1, <3>6
  <2> QED BY <2>1
<1>3. T = Nat
  <2> HIDE DEF T
  <2>1. T \subseteq Nat
    BY DEF T
  <2> QED BY <1>1, <1>2, <2>1, Induction
<1> QED BY <1>3

\* Fields that are stored later leave the bytes of the ones before.
LEMMA ImageKeeps ==
  ASSUME NEW list \in Seq(FieldType), NEW rec, HasFields(list, rec), NEW i \in 0..Len(list)
  PROVE  \A k \in i..Len(list) : \A j \in 1..Offset(list, i) :
           Image(list, rec, k)[j] = Image(list, rec, i)[j]
<1> DEFINE P(k) == \A j \in 1..Offset(list, i) : Image(list, rec, k)[j] = Image(list, rec, i)[j]
           T == {n \in Nat : i + n \in 0..Len(list) => P(i + n)}
<1>1. 0 \in T
  OBVIOUS
<1>2. ASSUME NEW n \in T PROVE n + 1 \in T
  <2>1. CASE i + (n + 1) \in 0..Len(list)
    <3>1. PICK k \in 0..Len(list), m \in 1..Len(list) :
            k = i + n /\ m = i + (n + 1) /\ m - 1 = k /\ k \in i..Len(list)
      <4>1. i + n \in 0..Len(list) /\ i + (n + 1) \in 1..Len(list) /\ (i + (n + 1)) - 1 = i + n
            /\ i + n \in i..Len(list)
        BY <2>1
      <4> QED BY <4>1
    <3>2. PICK u \in Seq(Byte), v \in Seq(Byte) :
            u = Image(list, rec, k) /\ v = Bytes(list[m], rec) /\ Len(u) = Offset(list, k)
      BY <3>1, BytesTyped, ImageTyped
    <3>3. Image(list, rec, m) = Then(u, v)
      <4>1. Len(list) \in Nat
        OBVIOUS
      <4>2. Image(list, rec, m) = Then(Image(list, rec, m - 1), Bytes(list[m], rec))
        BY <4>1, ImageIs
      <4> QED BY <3>1, <3>2, <4>2
    <3>4. \A j \in 1..Len(u) + Len(v) :
            Then(u, v)[j] = IF j <= Len(u) THEN u[j] ELSE v[j - Len(u)]
      BY ThenProperties
    <3>5. /\ Offset(list, i) <= Len(u)
          /\ Offset(list, i) \in Nat
          /\ Len(v) \in Nat
          /\ Len(u) \in Nat
      <4>1. /\ Offset(list, i) <= Offset(list, k)
            /\ Offset(list, i) \in Nat
            /\ Offset(list, k) \in Nat
        BY <3>1, OffsetTyped, OffsetIncreases
      <4> QED BY <3>2, <4>1
    <3>6. \A j \in 1..Offset(list, i) : Image(list, rec, m)[j] = u[j]
      BY <3>3, <3>4, <3>5
    <3>7. \A j \in 1..Offset(list, i) : u[j] = Image(list, rec, i)[j]
      BY <3>1, <3>2
    <3>8. P(m)
      BY <3>6, <3>7
    <3> HIDE DEF P
    <3> QED BY <3>1, <3>8
  <2> QED BY <2>1
<1>3. T = Nat
  <2> HIDE DEF T
  <2>1. T \subseteq Nat
    BY DEF T
  <2> QED BY <1>1, <1>2, <2>1, Induction
<1>4. ASSUME NEW k \in i..Len(list) PROVE P(k)
  <2>1. PICK n \in Nat : n = k - i /\ i + n = k
    <3>1. k - i \in Nat /\ i + (k - i) = k
      OBVIOUS
    <3> QED BY <3>1
  <2>2. n \in T
    <3> HIDE DEF T
    <3> QED BY <1>3
  <2> HIDE DEF P
  <2> QED BY <2>1, <2>2
<1> QED BY <1>4

\* The bytes of a field lie at its place.
LEMMA FieldBytes ==
  ASSUME NEW list \in Seq(FieldType), NEW rec, HasFields(list, rec), NEW i \in 1..Len(list)
  PROVE  \A j \in 1..Size(list[i]) :
           /\ Offset(list, i - 1) + j \in 1..Offset(list, Len(list))
           /\ Image(list, rec, Len(list))[Offset(list, i - 1) + j] = Bytes(list[i], rec)[j]
<1>1. PICK u \in Seq(Byte), v \in Seq(Byte) :
        /\ u = Image(list, rec, i - 1) /\ v = Bytes(list[i], rec)
        /\ Len(u) = Offset(list, i - 1) /\ Len(v) = Size(list[i])
  <2>1. i - 1 \in 0..Len(list)
    OBVIOUS
  <2> QED BY <2>1, BytesTyped, ImageTyped
<1>2. Image(list, rec, i) = Then(u, v)
  <2>1. Len(list) \in Nat
    OBVIOUS
  <2>2. Image(list, rec, i) = Then(Image(list, rec, i - 1), Bytes(list[i], rec))
    BY <2>1, ImageIs
  <2> QED BY <1>1, <2>2
<1>3. \A j \in 1..Len(u) + Len(v) : Then(u, v)[j] = IF j <= Len(u) THEN u[j] ELSE v[j - Len(u)]
  BY ThenProperties
<1>4. PICK n \in Nat, m \in Nat : n = Len(u) /\ m = Len(v)
  OBVIOUS
<1>5. Offset(list, i) = n + m
  BY <1>1, <1>4, OffsetIs
<1>6. Offset(list, i) <= Offset(list, Len(list)) /\ Offset(list, Len(list)) \in Nat
  <2>1. i \in 0..Len(list) /\ Len(list) \in i..Len(list) /\ Len(list) \in 0..Len(list)
    OBVIOUS
  <2> QED BY <2>1, OffsetIncreases, OffsetTyped
<1>7. ASSUME NEW j \in 1..m
      PROVE  /\ n + j \in 1..Offset(list, Len(list))
             /\ Image(list, rec, Len(list))[n + j] = v[j]
  <2>1. n + j \in 1..Offset(list, i) /\ n + j \in 1..Offset(list, Len(list))
    BY <1>5, <1>6
  <2>2. Image(list, rec, Len(list))[n + j] = Image(list, rec, i)[n + j]
    <3>1. i \in 0..Len(list) /\ Len(list) \in i..Len(list)
      OBVIOUS
    <3> QED BY <2>1, <3>1, ImageKeeps
  <2>3. Image(list, rec, i)[n + j] = v[j]
    <3>1. n + j \in 1..n + m /\ ~(n + j <= n) /\ (n + j) - n = j
      OBVIOUS
    <3> QED BY <1>2, <1>3, <1>4, <3>1
  <2> QED BY <2>1, <2>2, <2>3
<1> QED BY <1>1, <1>4, <1>7

-----------------------------------------------------------------------------
(* What is read is what was stored.                                        *)

LEMMA SeqTyped ==
  ASSUME NEW s \in Seq(Byte), NEW n \in Nat, Len(s) = n
  PROVE  s \in [1..n -> Byte]
<1> HIDE DEF Byte
<1> QED OBVIOUS

\* The bytes behind the first ones.
LEMMA PartIs ==
  ASSUME NEW image, NEW first \in Nat, NEW size \in Nat,
         \A j \in 1..first + size : image[j] \in Byte
  PROVE  /\ SubSeq(image, first + 1, first + size) \in Seq(Byte)
         /\ Len(SubSeq(image, first + 1, first + size)) = size
         /\ \A j \in 1..size : SubSeq(image, first + 1, first + size)[j] = image[first + j]
<1>1. PICK m \in Int, k \in Int : m = first + 1 /\ k = first + size
  OBVIOUS
<1>2. /\ (k - m) + 1 = size /\ (~(m <= k) => size = 0)
      /\ \A j \in 1..size : (m + j) - 1 = first + j
  BY <1>1
<1>3. \A j \in m..k : image[j] \in Byte
  BY <1>1
<1> DEFINE part == SubSeq(image, m, k)
<1>4. /\ part \in Seq(Byte)
      /\ Len(part) = IF m <= k THEN k - m + 1 ELSE 0
      /\ \A j \in 1..k - m + 1 : part[j] = image[m + j - 1]
  BY <1>3, SubSeqProperties
<1>5. part = SubSeq(image, first + 1, first + size)
  BY <1>1
<1> HIDE DEF part
<1>6. Len(part) = size
  BY <1>2, <1>4
<1>7. ASSUME NEW j \in 1..size PROVE part[j] = image[first + j]
  <2>1. j \in 1..k - m + 1 /\ (m + j) - 1 = first + j
    BY <1>2
  <2> QED BY <1>4, <2>1
<1> QED BY <1>4, <1>5, <1>6, <1>7

\* The field at i of what is read, if what is stored begins with the fields
\* that are read.
LEMMA FieldRead ==
  ASSUME NEW list \in Seq(FieldType), NEW rec, HasFields(list, rec),
         NEW known \in Seq(FieldType), Begins(known, list),
         NEW n \in Nat, NEW image \in [1..n -> Byte], Offset(known, Len(known)) <= n,
         \A j \in 1..Offset(known, Len(known)) : image[j] = Image(list, rec, Len(list))[j],
         NEW i \in 1..Len(known)
  PROVE  Value(known, i, image) = rec[known[i].name]
<1> USE PackAssumption
<1>1. PICK f \in FieldType : f = known[i] /\ f = list[i] /\ i \in 1..Len(list)
  BY DEF Begins
<1>2. HasType(f, rec[f.name])
  BY <1>1 DEF HasFields
<1>3. PICK size \in Nat \ {0}, first \in Nat, whole \in Nat :
        /\ size = Size(f) /\ first = Offset(known, i - 1) /\ whole = Offset(known, Len(known))
        /\ first = Offset(list, i - 1) /\ Offset(known, i) = first + size
        /\ first + size <= whole
  <2>1. Len(known) \in Nat /\ Len(list) \in Nat
    OBVIOUS
  <2>2. /\ i - 1 \in 0..Len(known) /\ i \in 0..Len(known)
        /\ Len(known) \in 0..Len(known) /\ Len(known) \in i..Len(known)
    BY <2>1
  <2>3. Offset(known, i - 1) \in Nat /\ Offset(known, Len(known)) \in Nat
    BY <2>1, <2>2, OffsetTyped
  <2>4. Offset(known, i - 1) = Offset(list, i - 1)
    BY <2>1, <2>2, OffsetSame
  <2>5. Offset(known, i) = Offset(known, i - 1) + Size(known[i])
    BY <2>1, OffsetIs
  <2>6. Offset(known, i) <= Offset(known, Len(known))
    BY <2>1, <2>2, OffsetIncreases
  <2>7. Size(f) \in Nat \ {0}
    BY SizeTyped
  <2> QED BY <1>1, <2>3, <2>4, <2>5, <2>6, <2>7
<1>4. PICK bytes \in [1..size -> Byte] :
        /\ bytes = SubSeq(image, first + 1, first + size)
        /\ \A j \in 1..size : bytes[j] = image[first + j]
  <2>1. first + size <= n
    <3>1. whole <= n /\ first + size <= whole
      BY <1>3
    <3> QED BY <3>1
  <2>2. first \in Nat /\ size \in Nat /\ \A j \in 1..first + size : image[j] \in Byte
    BY <2>1
  <2>3. /\ SubSeq(image, first + 1, first + size) \in Seq(Byte)
        /\ Len(SubSeq(image, first + 1, first + size)) = size
        /\ \A j \in 1..size : SubSeq(image, first + 1, first + size)[j] = image[first + j]
    BY ONLY <2>2, PartIs
  <2> DEFINE s == SubSeq(image, first + 1, first + size)
  <2>4. s \in Seq(Byte) /\ Len(s) = size /\ \A j \in 1..size : s[j] = image[first + j]
    BY <2>3
  <2> HIDE DEF s
  <2>5. s \in [1..size -> Byte]
    BY <2>4, SeqTyped
  <2> QED BY <2>4, <2>5 DEF s
<1>5. \A j \in 1..size : bytes[j] = Bytes(f, rec)[j]
  <2> TAKE j \in 1..size
  <2>1. /\ Offset(list, i - 1) + j \in 1..Offset(list, Len(list))
        /\ Image(list, rec, Len(list))[Offset(list, i - 1) + j] = Bytes(list[i], rec)[j]
    <3>1. list \in Seq(FieldType) /\ HasFields(list, rec) /\ i \in 1..Len(list)
      BY <1>1
    <3>2. \A k \in 1..Size(list[i]) :
            /\ Offset(list, i - 1) + k \in 1..Offset(list, Len(list))
            /\ Image(list, rec, Len(list))[Offset(list, i - 1) + k] = Bytes(list[i], rec)[k]
      BY ONLY <3>1, FieldBytes
    <3>3. j \in 1..Size(list[i])
      BY <1>1, <1>3
    <3> QED BY ONLY <3>2, <3>3
  <2>2. first + j \in 1..whole
    <3>1. first + size <= whole
      BY <1>3
    <3> QED BY <3>1
  <2>3. image[first + j] = Image(list, rec, Len(list))[first + j]
    BY <1>3, <2>2
  <2>4. bytes[j] = image[first + j]
    BY <1>4
  <2> QED BY <1>1, <1>3, <2>1, <2>3, <2>4
<1>6. Value(known, i, image) = CASE f.kind = "buf"  -> bytes
                                 [] f.kind = "word" -> GetWord(bytes)
                                 [] f.kind = "int"  -> Signed(GetWord(bytes))
  BY <1>1, <1>3, <1>4 DEF Value
<1>7. CASE f.kind = "buf"
  <2>1. rec[f.name] \in [1..BufSize -> Byte] /\ size = BufSize /\ Bytes(f, rec) = rec[f.name]
    BY <1>2, <1>3, <1>7 DEF HasType, Size, Bytes
  <2>2. bytes = rec[f.name]
    BY <1>4, <1>5, <2>1
  <2> QED BY <1>1, <1>6, <1>7, <2>2
<1>8. CASE f.kind = "word"
  <2>1. rec[f.name] \in Word /\ size = WordSize /\ Bytes(f, rec) = PutWord(rec[f.name])
    BY <1>2, <1>3, <1>8 DEF HasType, Size, Bytes
  <2>2. GetWord(bytes) = rec[f.name]
    BY <1>5, <2>1, WordRead
  <2> QED BY <1>1, <1>6, <1>8, <2>2
<1>9. CASE f.kind = "int"
  <2>1. rec[f.name] \in Int32 /\ size = WordSize /\ Bytes(f, rec) = PutWord(rec[f.name])
    BY <1>2, <1>3, <1>9 DEF HasType, Size, Bytes
  <2>2. Signed(GetWord(bytes)) = rec[f.name]
    BY <1>5, <2>1, IntRead
  <2> QED BY <1>1, <1>6, <1>9, <2>2
<1> QED BY <1>7, <1>8, <1>9 DEF FieldType

Names(list) == {list[i].name : i \in 1..Len(list)}

\* Of what is packed, the part that is read is there.
Present(image, list, m, known) ==
  \A j \in 1..Offset(known, Len(known)) : image[j] = Image(list, m, Len(list))[j]

LEMMA ValuesRead ==
  ASSUME NEW list \in Seq(FieldType), NEW rec, HasFields(list, rec),
         NEW known \in Seq(FieldType), Begins(known, list),
         NEW image \in Seq(Byte), Offset(known, Len(known)) <= Len(image),
         Present(image, list, rec, known)
  PROVE  /\ DOMAIN Values(known, image) = Names(known)
         /\ \A name \in DOMAIN Values(known, image) : Values(known, image)[name] = rec[name]
<1> DEFINE place(name) == CHOOSE i \in 1..Len(known) : known[i].name = name
<1>1. DOMAIN Values(known, image) = Names(known)
  BY DEF Values, Names
<1>2. ASSUME NEW name \in DOMAIN Values(known, image)
      PROVE  Values(known, image)[name] = rec[name]
  <2>1. Values(known, image)[name] = Value(known, place(name), image)
    BY <1>1, <1>2 DEF Values, Names
  <2>2. PICK i \in 1..Len(known) : i = place(name) /\ known[i].name = name
    BY <1>1, <1>2 DEF Names
  <2>3. Value(known, i, image) = rec[known[i].name]
    <3>1. PICK n \in Nat : n = Len(image) /\ image \in [1..n -> Byte]
      OBVIOUS
    <3> QED BY <3>1, FieldRead DEF Present
  <2> QED BY <2>1, <2>2, <2>3
<1> QED BY <1>1, <1>2

-----------------------------------------------------------------------------
(* The lists of the commands.                                              *)

LEMMA FieldTyped ==
  ASSUME NEW n \in FieldName
  PROVE  word(n) \in FieldType /\ int(n) \in FieldType /\ buf(n) \in FieldType
BY DEF word, int, buf, FieldType

\* Sequences of up to four fields.
LEMMA FewTyped ==
  ASSUME NEW a \in FieldType, NEW b \in FieldType, NEW c \in FieldType, NEW d \in FieldType
  PROVE  /\ <<>> \in Seq(FieldType) /\ <<a>> \in Seq(FieldType) /\ <<a, b>> \in Seq(FieldType)
         /\ <<a, b, c>> \in Seq(FieldType) /\ <<a, b, c, d>> \in Seq(FieldType)
<1> HIDE DEF FieldType
<1> QED OBVIOUS

LEMMA HeaderTyped ==
  /\ Header \in Seq(FieldType) /\ Len(Header) = 3
  /\ Header[1].name = "context_id" /\ Header[1].kind = "word"
  /\ Header[2].name = "sm_id" /\ Header[2].kind = "word"
  /\ Header[3].name = "cmd" /\ Header[3].kind = "word"
<1>1. Header \in Seq(FieldType)
  <2>1. /\ word("context_id") \in FieldType
        /\ word("sm_id") \in FieldType
        /\ word("cmd") \in FieldType
    BY FieldTyped DEF FieldName
  <2>2. <<word("context_id"), word("sm_id"), word("cmd")>> \in Seq(FieldType)
    BY ONLY <2>1, FewTyped
  <2> QED BY <2>2, Zenon DEF Header
<1>2. Len(Header) = 3
  BY DEF Header
<1>3. Header[1] = word("context_id") /\ Header[2] = word("sm_id") /\ Header[3] = word("cmd")
  BY DEF Header
<1> QED BY <1>1, <1>2, <1>3 DEF word

LEMMA StoredTyped ==
  ASSUME NEW c \in Requestable
  PROVE  Stored[c].req \in Seq(FieldType) /\ Stored[c].resp \in Seq(FieldType)
<1> DEFINE Typed(p) == p.req \in Seq(FieldType) /\ p.resp \in Seq(FieldType)
<1>1. Typed(open_context_pack)
  <2>1. /\ word("req_context_id") \in FieldType
        /\ buf("context_handle") \in FieldType
        /\ int("status") \in FieldType
    BY FieldTyped DEF FieldName
  <2>2. /\ <<word("req_context_id")>> \in Seq(FieldType)
        /\ <<buf("context_handle"), int("status")>> \in Seq(FieldType)
    BY ONLY <2>1, FewTyped
  <2>3. /\ open_context_pack.req = <<word("req_context_id")>>
        /\ open_context_pack.resp = <<buf("context_handle"), int("status")>>
    BY DEF open_context_pack
  <2> QED BY <2>2, <2>3, Zenon
<1>2. Typed(close_context_pack)
  <2>1. buf("context_handle") \in FieldType /\ int("status") \in FieldType
    BY FieldTyped DEF FieldName
  <2>2. <<buf("context_handle")>> \in Seq(FieldType) /\ <<int("status")>> \in Seq(FieldType)
    BY ONLY <2>1, FewTyped
  <2>3. /\ close_context_pack.req = <<buf("context_handle")>>
        /\ close_context_pack.resp = <<int("status")>>
    BY DEF close_context_pack
  <2> QED BY <2>2, <2>3, Zenon
<1>3. Typed(open_session_pack)
  <2>1. /\ buf("context_handle") \in FieldType
        /\ buf("taid") \in FieldType
        /\ buf("session_handle") \in FieldType
        /\ int("status") \in FieldType
    BY FieldTyped DEF FieldName
  <2>2. /\ <<buf("context_handle"), buf("taid")>> \in Seq(FieldType)
        /\ <<buf("session_handle"), int("status")>> \in Seq(FieldType)
    BY ONLY <2>1, FewTyped
  <2>3. /\ open_session_pack.req = <<buf("context_handle"), buf("taid")>>
        /\ open_session_pack.resp = <<buf("session_handle"), int("status")>>
    BY DEF open_session_pack
  <2> QED BY <2>2, <2>3, Zenon
<1>4. Typed(close_session_pack)
  <2>1. /\ buf("context_handle") \in FieldType
        /\ buf("session_handle") \in FieldType
        /\ int("status") \in FieldType
    BY FieldTyped DEF FieldName
  <2>2. /\ <<buf("context_handle"), buf("session_handle")>> \in Seq(FieldType)
        /\ <<int("status")>> \in Seq(FieldType)
    BY ONLY <2>1, FewTyped
  <2>3. /\ close_session_pack.req = <<buf("context_handle"), buf("session_handle")>>
        /\ close_session_pack.resp = <<int("status")>>
    BY DEF close_session_pack
  <2> QED BY <2>2, <2>3, Zenon
<1>5. Typed(invoke_command_pack)
  <2>1. /\ buf("context_handle") \in FieldType
        /\ buf("session_handle") \in FieldType
        /\ word("req_cmd") \in FieldType
        /\ int("status") \in FieldType
    BY FieldTyped DEF FieldName
  <2>2. /\ <<buf("context_handle"), buf("session_handle"), word("req_cmd")>> \in Seq(FieldType)
        /\ <<int("status")>> \in Seq(FieldType)
    BY ONLY <2>1, FewTyped
  <2>3. /\ invoke_command_pack.req = <<buf("context_handle"), buf("session_handle"), word("req_cmd")>>
        /\ invoke_command_pack.resp = <<int("status")>>
    BY DEF invoke_command_pack
  <2> QED BY <2>2, <2>3, Zenon
<1>6. Typed(register_memory_pack)
  <2>1. /\ buf("context_handle") \in FieldType
        /\ word("memory_size") \in FieldType
        /\ word("flag") \in FieldType
        /\ word("addr") \in FieldType
        /\ buf("memory_id") \in FieldType
        /\ int("status") \in FieldType
    BY FieldTyped DEF FieldName
  <2>2. /\ <<buf("context_handle"), word("memory_size"), word("flag"), word("addr")>> \in Seq(FieldType)
        /\ <<word("addr"), buf("memory_id"), int("status")>> \in Seq(FieldType)
    BY ONLY <2>1, FewTyped
  <2>3. /\ register_memory_pack.req = <<buf("context_handle"), word("memory_size"), word("flag"), word("addr")>>
        /\ register_memory_pack.resp = <<word("addr"), buf("memory_id"), int("status")>>
    BY DEF register_memory_pack
  <2> QED BY <2>2, <2>3, Zenon
<1>7. Typed(unregister_memory_pack)
  <2>1. /\ buf("context_handle") \in FieldType
        /\ buf("memory_id") \in FieldType
        /\ int("status") \in FieldType
    BY FieldTyped DEF FieldName
  <2>2. /\ <<buf("context_handle"), buf("memory_id")>> \in Seq(FieldType)
        /\ <<int("status")>> \in Seq(FieldType)
    BY ONLY <2>1, FewTyped
  <2>3. /\ unregister_memory_pack.req = <<buf("context_handle"), buf("memory_id")>>
        /\ unregister_memory_pack.resp = <<int("status")>>
    BY DEF unregister_memory_pack
  <2> QED BY <2>2, <2>3, Zenon
<1>8. Typed(check_pack)
  <2>1. int("status") \in FieldType
    BY FieldTyped DEF FieldName
  <2>2. <<>> \in Seq(FieldType) /\ <<int("status")>> \in Seq(FieldType)
    BY ONLY <2>1, FewTyped
  <2>3. check_pack.req = <<>> /\ check_pack.resp = <<int("status")>>
    BY DEF check_pack
  <2> QED BY <2>2, <2>3, Zenon
<1> HIDE DEF Typed
<1>9. Typed(Stored[c])
  BY <1>1, <1>2, <1>3, <1>4, <1>5, <1>6, <1>7, <1>8 DEF Requestable, Stored
<1> QED BY <1>9 DEF Typed

\* The unpack functions read what the pack functions store.
LEMMA ReadAsStored == Expected = Stored
BY DEF Expected, Stored, sys_tapi_pack, sys_tapi_unpack, open_context_pack, open_context_unpack,
       close_context_pack, close_context_unpack, open_session_pack, open_session_unpack,
       close_session_pack, close_session_unpack, invoke_command_pack, invoke_command_unpack,
       register_memory_pack, register_memory_unpack, unregister_memory_pack,
       unregister_memory_unpack, check_pack, check_unpack

\* No two commands have one number.
LEMMA CommandsDiffer ==
  ASSUME NEW c \in Requestable, NEW d \in Requestable, Command[c] = Command[d]
  PROVE  c = d
BY DEF Requestable, Stored, Command

\* A list behind the header.
LEMMA AllTyped ==
  ASSUME NEW list \in Seq(FieldType)
  PROVE  /\ Then(Header, list) \in Seq(FieldType)
         /\ Len(Then(Header, list)) = 3 + Len(list)
         /\ \A i \in 1..3 + Len(list) :
              Then(Header, list)[i] = IF i <= 3 THEN Header[i] ELSE list[i - 3]
<1>1. Header \in Seq(FieldType) /\ Len(Header) = 3
  BY HeaderTyped
<1>2. /\ Then(Header, list) \in Seq(FieldType)
      /\ Len(Then(Header, list)) = Len(Header) + Len(list)
      /\ \A i \in 1..Len(Header) + Len(list) :
           Then(Header, list)[i] = IF i <= Len(Header) THEN Header[i] ELSE list[i - Len(Header)]
  BY <1>1, ThenProperties
<1> QED BY <1>1, <1>2

LEMMA AllBegins ==
  ASSUME NEW known \in Seq(FieldType), NEW list \in Seq(FieldType), Begins(known, list)
  PROVE  Begins(Then(Header, known), Then(Header, list))
<1>1. /\ Len(Then(Header, list)) = 3 + Len(list)
      /\ \A i \in 1..3 + Len(list) :
           Then(Header, list)[i] = IF i <= 3 THEN Header[i] ELSE list[i - 3]
  BY AllTyped
<1>2. /\ Len(Then(Header, known)) = 3 + Len(known)
      /\ \A i \in 1..3 + Len(known) :
           Then(Header, known)[i] = IF i <= 3 THEN Header[i] ELSE known[i - 3]
  BY AllTyped
<1>3. PICK n \in Nat, k \in Nat : n = Len(list) /\ k = Len(known) /\ k <= n
  BY DEF Begins
<1>4. ASSUME NEW i \in 1..3 + k
      PROVE  Then(Header, known)[i] = Then(Header, list)[i]
  <2>1. CASE i <= 3
    BY <1>1, <1>2, <1>3, <2>1
  <2>2. CASE i > 3
    <3>1. i - 3 \in 1..k /\ ~(i <= 3) /\ i \in 1..3 + n
      BY <1>3, <2>2
    <3>2. known[i - 3] = list[i - 3]
      BY <1>3, <3>1 DEF Begins
    <3> QED BY <1>1, <1>2, <1>3, <3>1, <3>2
  <2> QED BY <2>1, <2>2
<1> QED BY <1>1, <1>2, <1>3, <1>4 DEF Begins

LEMMA AllFields ==
  ASSUME NEW list \in Seq(FieldType), NEW m
  PROVE  HasFields(Then(Header, list), m) <=> HasFields(Header, m) /\ HasFields(list, m)
<1>1. /\ Len(Then(Header, list)) = 3 + Len(list)
      /\ \A i \in 1..3 + Len(list) :
           Then(Header, list)[i] = IF i <= 3 THEN Header[i] ELSE list[i - 3]
  BY AllTyped
<1>2. PICK n \in Nat : n = Len(list)
  OBVIOUS
<1>3. Len(Header) = 3
  BY HeaderTyped
<1>4. ASSUME HasFields(Then(Header, list), m) PROVE HasFields(Header, m) /\ HasFields(list, m)
  <2>1. ASSUME NEW i \in 1..3
        PROVE  Header[i].name \in DOMAIN m /\ HasType(Header[i], m[Header[i].name])
    <3>1. i \in 1..3 + n /\ Then(Header, list)[i] = Header[i]
      BY <1>1, <1>2
    <3> QED BY <1>1, <1>2, <1>4, <3>1 DEF HasFields
  <2>2. ASSUME NEW i \in 1..n
        PROVE  list[i].name \in DOMAIN m /\ HasType(list[i], m[list[i].name])
    <3>1. 3 + i \in 1..3 + n /\ ~(3 + i <= 3) /\ (3 + i) - 3 = i
      OBVIOUS
    <3>2. Then(Header, list)[3 + i] = list[i]
      BY <1>1, <1>2, <3>1
    <3> QED BY <1>1, <1>2, <1>4, <3>1, <3>2 DEF HasFields
  <2> QED BY <1>2, <1>3, <2>1, <2>2 DEF HasFields
<1>5. ASSUME HasFields(Header, m), HasFields(list, m) PROVE HasFields(Then(Header, list), m)
  <2>1. ASSUME NEW i \in 1..3 + n
        PROVE  /\ Then(Header, list)[i].name \in DOMAIN m
               /\ HasType(Then(Header, list)[i], m[Then(Header, list)[i].name])
    <3>1. CASE i <= 3
      <4>1. i \in 1..3 /\ Then(Header, list)[i] = Header[i]
        BY <1>1, <1>2, <3>1
      <4> QED BY <1>3, <1>5, <4>1 DEF HasFields
    <3>2. CASE i > 3
      <4>1. i - 3 \in 1..n /\ ~(i <= 3)
        BY <3>2
      <4>2. Then(Header, list)[i] = list[i - 3]
        BY <1>1, <1>2, <4>1
      <4> QED BY <1>2, <1>5, <4>1, <4>2 DEF HasFields
    <3> QED BY <3>1, <3>2
  <2> QED BY <1>1, <1>2, <2>1 DEF HasFields
<1> QED BY <1>4, <1>5

LEMMA HeaderFields ==
  ASSUME NEW m
  PROVE  HasFields(Header, m) <=>
           /\ {"context_id", "sm_id", "cmd"} \subseteq DOMAIN m
           /\ m.context_id \in Word /\ m.sm_id \in Word /\ m.cmd \in Word
<1>1. Len(Header) = 3
  BY HeaderTyped
<1>2. \A i \in 1..3 : i = 1 \/ i = 2 \/ i = 3
  OBVIOUS
<1>3. HasFields(Header, m) <=>
        \A i \in 1..3 : Header[i].name \in DOMAIN m /\ HasType(Header[i], m[Header[i].name])
  BY <1>1 DEF HasFields
<1>4. HasFields(Header, m) <=>
        /\ Header[1].name \in DOMAIN m /\ HasType(Header[1], m[Header[1].name])
        /\ Header[2].name \in DOMAIN m /\ HasType(Header[2], m[Header[2].name])
        /\ Header[3].name \in DOMAIN m /\ HasType(Header[3], m[Header[3].name])
  BY <1>2, <1>3
<1>5. \A i \in 1..3 : \A v : HasType(Header[i], v) <=> v \in Word
  BY <1>2, HeaderTyped DEF HasType
<1> QED BY <1>4, <1>5, HeaderTyped

\* Pack: the image, and that it fits.
PackImage(list, m) == Image(Then(Header, list), m, Len(Then(Header, list)))

LEMMA PackIs ==
  ASSUME NEW list \in Seq(FieldType), NEW m, HasFields(Then(Header, list), m), NEW max \in Nat
  PROVE  /\ Pack(list, m, max).ok <=> SizeOf(Then(Header, list)) <= max
         /\ Pack(list, m, max).ok => Pack(list, m, max).image = PackImage(list, m)
         /\ PackImage(list, m) \in Seq(Byte)
         /\ Len(PackImage(list, m)) = SizeOf(Then(Header, list))
         /\ SizeOf(Then(Header, list)) \in Nat
<1> DEFINE all == Then(Header, list)
<1>1. Pack(list, m, max) = IF SizeOf(all) > max THEN Failed
                           ELSE [ok |-> TRUE, image |-> Image(all, m, Len(all))]
  BY DEF Pack, Then
<1>2. all \in Seq(FieldType)
  BY AllTyped
<1> HIDE DEF all
<1>3. Len(all) \in Nat /\ Len(all) \in 0..Len(all)
  BY <1>2
<1>4. SizeOf(all) \in Nat
  BY <1>3, OffsetTyped DEF SizeOf
<1>5. Image(all, m, Len(all)) \in Seq(Byte) /\ Len(Image(all, m, Len(all))) = SizeOf(all)
  BY <1>2, <1>3, ImageTyped DEF SizeOf, all
<1>6. PICK n \in Nat : n = SizeOf(all)
  BY <1>4
<1>7. ~(n > max) <=> n <= max
  OBVIOUS
<1>8. PICK image \in Seq(Byte) : image = Image(all, m, Len(all)) /\ image = PackImage(list, m)
  BY <1>5 DEF PackImage, all
<1>9. Pack(list, m, max) = IF n > max THEN Failed ELSE [ok |-> TRUE, image |-> image]
  BY <1>1, <1>6, <1>8
<1>10. /\ Pack(list, m, max).ok <=> n <= max
       /\ Pack(list, m, max).ok => Pack(list, m, max).image = image
  BY <1>7, <1>9 DEF Failed
<1> QED BY <1>5, <1>6, <1>8, <1>10 DEF all

\* The unpack functions read back what the pack functions stored, if only its
\* first bytes arrived: when they succeed, every field they read has the value
\* it has in the message, whatever is behind those bytes (the READ macros of
\* sk_tapi_byte_unpack.c over the STORE macros of sk_tapi_byte_pack.c).
THEOREM UnpackRead ==
  ASSUME NEW list \in Seq(FieldType), NEW m, HasFields(Then(Header, list), m),
         NEW known \in Seq(FieldType), Begins(known, list),
         NEW image \in Buffer, NEW len \in 0..MaxMsg,
         \A j \in 1..len : image[j] = PackImage(list, m)[j],
         Unpack(known, image, len).ok
  PROVE  /\ DOMAIN Unpack(known, image, len).msg = Names(Then(Header, known))
         /\ \A f \in DOMAIN Unpack(known, image, len).msg :
              Unpack(known, image, len).msg[f] = m[f]
<1> DEFINE all == Then(Header, list)
           some == Then(Header, known)
<1>1. all \in Seq(FieldType) /\ some \in Seq(FieldType)
  BY AllTyped
<1>2. Begins(some, all)
  BY AllBegins
<1>3. Unpack(known, image, len) = IF SizeOf(some) > len THEN Failed
                                  ELSE [ok |-> TRUE, msg |-> Values(some, image)]
  BY DEF Unpack, Then
<1> HIDE DEF all, some
<1>4. PICK n \in Nat : n = SizeOf(some) /\ n = Offset(some, Len(some))
  <2>1. Len(some) \in Nat /\ Len(some) \in 0..Len(some)
    BY <1>1
  <2> QED BY <2>1, OffsetTyped DEF SizeOf
<1>5. n <= len /\ Unpack(known, image, len).msg = Values(some, image)
  <2>1. ~(n > len)
    BY <1>3, <1>4 DEF Failed
  <2> QED BY <1>3, <1>4, <2>1
<1>6. n <= Len(image) /\ image \in Seq(Byte)
  <2>1. PICK max \in Nat : max = MaxMsg
    BY RouterAssumption
  <2>2. image \in Seq(Byte) /\ Len(image) = max
    BY <2>1 DEF Buffer
  <2> QED BY <1>5, <2>1, <2>2
<1>7. \A j \in 1..Offset(some, Len(some)) : image[j] = Image(all, m, Len(all))[j]
  BY <1>4, <1>5 DEF PackImage, all
<1>8. HasFields(all, m) /\ Offset(some, Len(some)) <= Len(image)
  BY <1>4, <1>6 DEF all
<1>9. /\ DOMAIN Values(some, image) = Names(some)
      /\ \A name \in DOMAIN Values(some, image) : Values(some, image)[name] = m[name]
  <2>1. /\ all \in Seq(FieldType) /\ HasFields(all, m)
        /\ some \in Seq(FieldType) /\ Begins(some, all)
        /\ image \in Seq(Byte) /\ Offset(some, Len(some)) <= Len(image)
        /\ Present(image, all, m, some)
    BY <1>1, <1>2, <1>6, <1>7, <1>8 DEF Present
  <2> QED BY ONLY <2>1, ValuesRead
<1> QED BY <1>5, <1>9 DEF some

\* The names read are at least those of the header.
LEMMA HeaderRead ==
  ASSUME NEW known \in Seq(FieldType)
  PROVE  {"context_id", "sm_id", "cmd"} \subseteq Names(Then(Header, known))
<1>1. /\ Len(Then(Header, known)) = 3 + Len(known)
      /\ \A i \in 1..3 + Len(known) :
           Then(Header, known)[i] = IF i <= 3 THEN Header[i] ELSE known[i - 3]
  BY AllTyped
<1>2. PICK n \in Nat : n = Len(known)
  OBVIOUS
<1>3. 1 \in 1..3 + n /\ 2 \in 1..3 + n /\ 3 \in 1..3 + n
  OBVIOUS
<1>4. Then(Header, known)[1] = Header[1] /\ Then(Header, known)[2] = Header[2]
      /\ Then(Header, known)[3] = Header[3]
  BY <1>1, <1>2, <1>3
<1> QED BY <1>1, <1>2, <1>3, <1>4, HeaderTyped DEF Names

-----------------------------------------------------------------------------
(* The inductive invariant.                                                *)

ContextsTyped == ids \in Seq([id : Word, recv : BOOLEAN])

\* The buffer begins with the part of an image that counts.
Holds(image) ==
  msg_size \in 0..Len(image) /\ \A j \in 1..msg_size : msg[j] = image[j]

\* Until it is served, the part of the request that arrived is in the buffer.
RequestArrived ==
  at \in {"route", "serve"} =>
    /\ request \in Requests
    /\ served = Failed /\ answer = Failed /\ accepted = Failed
    /\ Holds(PackImage(Stored[request.cmd].req, request.msg))

\* It was sent to the first context of the id.
RightContext ==
  at = "serve" \/ served.ok =>
    /\ context \in 1..Len(ids) /\ ids[context].id = request.msg.context_id
    /\ \A i \in 1..context - 1 : ids[i].id # request.msg.context_id

\* What the handler got has the values of the request, and its number.
RightFields ==
  served.ok =>
    /\ served.msg.cmd = Command[request.cmd]
    /\ \A f \in DOMAIN served.msg : served.msg[f] = request.msg[f]

\* An answer is one to the request, and packed.
AnswerPacked ==
  answer.ok =>
    /\ request \in Requests /\ answer.cmd = request.cmd
    /\ HasFields(Then(Header, Stored[answer.cmd].resp), answer.msg)
    /\ answer.image = PackImage(Stored[answer.cmd].resp, answer.msg)

\* What is sent to the driver is the part of the answer that was received.
AnswerReturned ==
  at = "reply" /\ ids[context].recv => answer.ok /\ Holds(answer.image)

IInv ==
  /\ TypeOK /\ ContextsTyped
  /\ RequestArrived /\ RightContext /\ RightFields
  /\ AnswerPacked /\ AnswerReturned
  /\ AcceptedAsAnswered

-----------------------------------------------------------------------------
(* The steps.                                                              *)

\* A set of numbers that is not empty has a least one.
LEMMA Least ==
  ASSUME NEW S \in SUBSET Nat, S # {}
  PROVE  \E i \in S : \A k \in S : i <= k
<1> DEFINE R == {ss \in Nat \X Nat : ss[1] < ss[2]}
<1>1. IsWellFoundedOn(R, Nat)
  BY NatLessThanWellFounded DEF OpToRel
<1>2. \A x, y \in Nat : y < x => <<y, x>> \in R
  OBVIOUS
<1> HIDE DEF R
<1>3. PICK x \in S : \A y \in S : ~(<<y, x>> \in R)
  BY <1>1, WFMin
<1>4. \A y \in S : x \in Nat /\ y \in Nat /\ ~(y < x)
  BY <1>2, <1>3
<1> QED BY <1>3, <1>4

LEMMA RequestTyped ==
  ASSUME NEW r \in Requests
  PROVE  /\ r.cmd \in Requestable /\ r.msg.cmd = Command[r.cmd]
         /\ Stored[r.cmd].req \in Seq(FieldType)
         /\ HasFields(Then(Header, Stored[r.cmd].req), r.msg)
BY MessageAssumption, StoredTyped DEF Then

\* What is read of a request.
LEMMA RequestRead ==
  ASSUME NEW r \in Requests, NEW image \in Buffer, NEW len \in 0..MaxMsg,
         \A j \in 1..len : image[j] = PackImage(Stored[r.cmd].req, r.msg)[j],
         NEW known \in Seq(FieldType), Begins(known, Stored[r.cmd].req),
         Unpack(known, image, len).ok
  PROVE  /\ \A f \in DOMAIN Unpack(known, image, len).msg :
              Unpack(known, image, len).msg[f] = r.msg[f]
         /\ {"context_id", "sm_id", "cmd"} \subseteq DOMAIN Unpack(known, image, len).msg
<1>1. PICK list \in Seq(FieldType) :
        list = Stored[r.cmd].req /\ HasFields(Then(Header, list), r.msg)
  BY RequestTyped
<1>2. /\ DOMAIN Unpack(known, image, len).msg = Names(Then(Header, known))
      /\ \A f \in DOMAIN Unpack(known, image, len).msg :
           Unpack(known, image, len).msg[f] = r.msg[f]
  BY <1>1, UnpackRead
<1>3. {"context_id", "sm_id", "cmd"} \subseteq Names(Then(Header, known))
  BY HeaderRead
<1> QED BY <1>2, <1>3

LEMMA HeaderOfRequest ==
  ASSUME NEW r \in Requests, NEW image \in Buffer, NEW len \in 0..MaxMsg,
         \A j \in 1..len : image[j] = PackImage(Stored[r.cmd].req, r.msg)[j],
         HeaderUnpack(image, len).ok
  PROVE  /\ HeaderUnpack(image, len).msg.context_id = r.msg.context_id
         /\ HeaderUnpack(image, len).msg.cmd = r.msg.cmd
<1>1. PICK known \in Seq(FieldType) : known = <<>>
  BY EmptySeq
<1>2. Begins(known, Stored[r.cmd].req)
  BY <1>1, RequestTyped DEF Begins
<1>3. HeaderUnpack(image, len) = Unpack(known, image, len)
  BY <1>1 DEF HeaderUnpack
<1>4. /\ \A f \in DOMAIN Unpack(known, image, len).msg :
           Unpack(known, image, len).msg[f] = r.msg[f]
      /\ {"context_id", "sm_id", "cmd"} \subseteq DOMAIN Unpack(known, image, len).msg
  BY <1>2, <1>3, RequestRead
<1> QED BY <1>3, <1>4

LEMMA Arrived ==
  ASSUME TypeOK, RequestArrived, at \in {"route", "serve"}
  PROVE  /\ request \in Requests /\ msg \in Buffer /\ msg_size \in 0..MaxMsg
         /\ \A j \in 1..msg_size : msg[j] = PackImage(Stored[request.cmd].req, request.msg)[j]
         /\ served = Failed /\ answer = Failed /\ accepted = Failed
BY DEF TypeOK, RequestArrived, Holds

\* The handler gets what the list of the request's command has.
LEMMA DeliveredRead ==
  ASSUME TypeOK, RequestArrived, at = "serve", Delivered.ok
  PROVE  /\ \A f \in DOMAIN Delivered.msg : Delivered.msg[f] = request.msg[f]
         /\ {"context_id", "sm_id", "cmd"} \subseteq DOMAIN Delivered.msg
         /\ Delivered.msg.cmd = Command[request.cmd]
         /\ CommandOf(Delivered.msg) = request.cmd
<1>1. PICK r, image, len : r = request /\ image = msg /\ len = msg_size
  OBVIOUS
<1>2. /\ r \in Requests /\ image \in Buffer /\ len \in 0..MaxMsg
      /\ \A j \in 1..len : image[j] = PackImage(Stored[r.cmd].req, r.msg)[j]
  BY <1>1, Arrived
<1>3. /\ r.cmd \in Requestable
      /\ r.msg.cmd = Command[r.cmd]
      /\ Stored[r.cmd].req \in Seq(FieldType)
  BY <1>2, RequestTyped
<1> DEFINE cmds == {c \in Requestable : Command[c] = HeaderUnpack(image, len).msg.cmd}
<1>4. HeaderUnpack(image, len).ok /\ cmds # {}
  BY <1>1 DEF Delivered, Failed
<1>5. HeaderUnpack(image, len).msg.cmd = Command[r.cmd]
  BY <1>2, <1>3, <1>4, HeaderOfRequest
<1>6. cmds = {r.cmd}
  BY <1>3, <1>5, CommandsDiffer
<1>7. Delivered = Unpack(Expected[CHOOSE c \in cmds : TRUE].req, image, len)
  BY <1>1, <1>4 DEF Delivered
<1>8. (CHOOSE c \in cmds : TRUE) = r.cmd
  BY <1>6
<1>9. Delivered = Unpack(Stored[r.cmd].req, image, len)
  BY <1>7, <1>8, ReadAsStored
<1>10. PICK known \in Seq(FieldType) : known = Stored[r.cmd].req
  BY <1>3
<1>11. Begins(known, Stored[r.cmd].req) /\ Unpack(known, image, len).ok
  BY <1>9, <1>10 DEF Begins
<1>12. /\ \A f \in DOMAIN Unpack(known, image, len).msg :
            Unpack(known, image, len).msg[f] = r.msg[f]
       /\ {"context_id", "sm_id", "cmd"} \subseteq DOMAIN Unpack(known, image, len).msg
  BY <1>2, <1>11, RequestRead
<1>13. /\ \A f \in DOMAIN Delivered.msg : Delivered.msg[f] = request.msg[f]
       /\ {"context_id", "sm_id", "cmd"} \subseteq DOMAIN Delivered.msg
  BY <1>1, <1>9, <1>10, <1>12
<1>14. Delivered.msg.cmd = Command[r.cmd]
  BY <1>1, <1>3, <1>13
<1>15. CommandOf(Delivered.msg) = r.cmd
  BY <1>3, <1>14, CommandsDiffer DEF CommandOf
<1> QED BY <1>1, <1>13, <1>14, <1>15

\* The first n bytes of an image in the buffer.
LEMMA BufferWritten ==
  ASSUME TypeOK, NEW image \in Seq(Byte), NEW n \in 0..MaxMsg, n <= Len(image)
  PROVE  /\ Overwritten(FirstPart(image, n)) \in Buffer
         /\ \A j \in 1..n : Overwritten(FirstPart(image, n))[j] = image[j]
<1>1. PICK part \in Seq(Byte) :
        part = FirstPart(image, n) /\ Len(part) = n /\ \A j \in 1..n : part[j] = image[j]
  <2>1. \A j \in 1..0 + n : image[j] \in Byte
    OBVIOUS
  <2>2. /\ SubSeq(image, 0 + 1, 0 + n) \in Seq(Byte) /\ Len(SubSeq(image, 0 + 1, 0 + n)) = n
        /\ \A j \in 1..n : SubSeq(image, 0 + 1, 0 + n)[j] = image[0 + j]
    BY <2>1, PartIs
  <2>3. FirstPart(image, n) = SubSeq(image, 0 + 1, 0 + n) /\ \A j \in 1..n : 0 + j = j
    BY DEF FirstPart
  <2> QED BY <2>2, <2>3
<1>2. PICK max \in Nat : max = MaxMsg
  BY RouterAssumption
<1>3. msg \in [1..max -> Byte]
  BY <1>2 DEF TypeOK, Buffer
<1>4. \A i \in 1..max : (IF i <= Len(part) THEN part[i] ELSE msg[i]) \in Byte
  BY <1>1, <1>3
<1>5. Overwritten(part) = [i \in 1..max |-> IF i <= Len(part) THEN part[i] ELSE msg[i]]
  BY <1>2 DEF Overwritten
<1>6. Overwritten(part) \in [1..max -> Byte]
  BY <1>4, <1>5
<1>7. \A j \in 1..n : Overwritten(part)[j] = image[j]
  BY <1>1, <1>2, <1>5
<1> QED BY <1>1, <1>2, <1>6, <1>7 DEF Buffer

LEMMA InitInvariant == Init => IInv
<1> SUFFICES ASSUME Init PROVE IInv
  OBVIOUS
<1> USE DEF Init
<1>1. PICK max \in Nat \ {0}, room \in Nat \ {0} : max = MaxMsg /\ room = MaxIds
  BY RouterAssumption
<1>2. msg \in Buffer
  <2>1. 0 \in Byte /\ Base - 1 \in Byte
    BY PackAssumption DEF Byte
  <2> QED BY <2>1 DEF Buffer
<1>3. ids = <<>> /\ Len(ids) = 0
  OBVIOUS
<1>5. TypeOK
  <2>1. Len(ids) \in 0..MaxIds /\ msg_size \in 0..MaxMsg /\ context \in 0..Len(ids)
    BY <1>1, <1>3
  <2>2. at = "down" /\ replies = FALSE
    OBVIOUS
  <2> QED BY ONLY <1>2, <2>1, <2>2 DEF TypeOK
<1>6. ContextsTyped
  BY EmptySeq DEF ContextsTyped
<1> QED
  BY <1>5, <1>6 DEF IInv, RequestArrived, RightContext, RightFields, AnswerPacked,
     AnswerReturned, AcceptedAsAnswered, Failed

\* A step that ends a call, or the interface.
LEMMA EndSteps ==
  ASSUME IInv, at' \in {"receive", "down"},
         UNCHANGED <<ids, replies, msg, msg_size, context, history, calls>>
  PROVE  IInv'
<1> USE DEF IInv, history
<1>1. TypeOK'
  BY DEF TypeOK
<1>2. ContextsTyped'
  BY DEF ContextsTyped
<1>3. RequestArrived'
  BY DEF RequestArrived
<1>4. RightContext'
  BY DEF RightContext
<1>5. RightFields'
  BY DEF RightFields
<1>6. AnswerPacked'
  BY DEF AnswerPacked
<1>7. AnswerReturned'
  BY DEF AnswerReturned
<1>8. AcceptedAsAnswered'
  BY DEF AcceptedAsAnswered
<1> QED BY <1>1, <1>2, <1>3, <1>4, <1>5, <1>6, <1>7, <1>8

LEMMA InitStep ==
  ASSUME IInv, NEW s \in Setups, InterfaceInit(s[1], s[2])
  PROVE  IInv'
<1> USE DEF InterfaceInit
<1>1. s[1] \in Seq([id : Word, recv : BOOLEAN]) /\ s[2] \in BOOLEAN /\ Len(s[1]) \in 1..MaxIds
  BY RouterAssumption
<1>2. PICK list \in Seq([id : Word, recv : BOOLEAN]) : list = s[1] /\ ids' = list
  BY <1>1
<1>3. TypeOK'
  <2>1. Len(ids') \in 0..MaxIds /\ 0 \in 0..Len(ids')
    BY <1>1, <1>2, RouterAssumption
  <2> QED BY <1>1, <2>1 DEF IInv, TypeOK
<1>4. ContextsTyped'
  BY <1>2 DEF ContextsTyped
<1> QED
  BY <1>3, <1>4 DEF IInv, RequestArrived, RightContext, RightFields, AnswerPacked,
     AnswerReturned, AcceptedAsAnswered, Failed

LEMMA ReceiveStep ==
  ASSUME IInv, NEW r \in Requests, NEW n \in 0..MaxMsg, Receive(r, n)
  PROVE  IInv'
<1> DEFINE list  == Stored[r.cmd].req
           image == PackImage(list, r.msg)
           packed == Pack(list, r.msg, MaxMsg)
<1>1. list \in Seq(FieldType) /\ HasFields(Then(Header, list), r.msg)
  BY RequestTyped
<1>2. packed.ok /\ n <= Len(packed.image) /\ msg' = Overwritten(FirstPart(packed.image, n))
  BY DEF Receive
<1>3. packed.image = image /\ image \in Seq(Byte)
  <2>1. MaxMsg \in Nat
    BY RouterAssumption
  <2> HIDE DEF list, image
  <2> QED BY <1>1, <1>2, <2>1, PackIs DEF image
<1> HIDE DEF image, packed
<1>4. msg' \in Buffer /\ \A j \in 1..n : msg'[j] = image[j]
  <2>1. TypeOK /\ n <= Len(image) /\ msg' = Overwritten(FirstPart(image, n))
    BY <1>2, <1>3 DEF IInv
  <2> QED BY <1>3, <2>1, BufferWritten
<1>5. /\ at' = "route" /\ msg_size' = n /\ request' = r
      /\ served' = Failed /\ answer' = Failed /\ accepted' = Failed
      /\ UNCHANGED <<ids, replies, context>>
  BY DEF Receive
<1>6. TypeOK'
  BY <1>4, <1>5 DEF IInv, TypeOK
<1>7. ContextsTyped'
  BY <1>5 DEF IInv, ContextsTyped
<1>8. RequestArrived'
  <2>1. PackImage(Stored[request'.cmd].req, request'.msg) = image
    BY <1>5 DEF image
  <2>2. msg_size' \in 0..Len(image)
    BY <1>2, <1>3, <1>5
  <2>3. Holds(PackImage(Stored[request.cmd].req, request.msg))'
    BY <1>4, <1>5, <2>1, <2>2 DEF Holds
  <2> QED BY <1>5, <2>3 DEF RequestArrived
<1> QED
  BY <1>5, <1>6, <1>7, <1>8 DEF IInv, RightContext, RightFields, AnswerPacked,
     AnswerReturned, AcceptedAsAnswered, Failed

LEMMA RouteStep ==
  ASSUME IInv, Route
  PROVE  IInv'
<1>1. PICK r, image, len : r = request /\ image = msg /\ len = msg_size
  OBVIOUS
<1>2. /\ r \in Requests /\ image \in Buffer /\ len \in 0..MaxMsg
      /\ \A j \in 1..len : image[j] = PackImage(Stored[r.cmd].req, r.msg)[j]
      /\ served = Failed /\ answer = Failed /\ accepted = Failed
  BY <1>1, Arrived DEF IInv, Route
<1>3. Matching # {} /\ context' = FoundContext
  BY DEF Route
<1>4. HeaderUnpack(image, len).ok
  BY <1>1, <1>3 DEF Matching
<1>5. HeaderUnpack(image, len).msg.context_id = r.msg.context_id
  BY <1>2, <1>4, HeaderOfRequest
<1>6. Matching = {i \in 1..Len(ids) : ids[i].id = r.msg.context_id}
  BY <1>1, <1>4, <1>5 DEF Matching
<1>7. Len(ids) \in Nat
  BY DEF IInv, TypeOK
<1>8. context' \in Matching /\ \A k \in Matching : context' <= k
  <2>1. Matching \in SUBSET Nat
    BY <1>6, <1>7
  <2>2. \E i \in Matching : \A k \in Matching : i <= k
    BY <1>3, <2>1, Least
  <2> QED BY <1>3, <2>2 DEF FoundContext
<1>9. /\ context' \in 1..Len(ids) /\ ids[context'].id = r.msg.context_id
      /\ \A i \in 1..context' - 1 : ids[i].id # r.msg.context_id
  <2>1. context' \in 1..Len(ids) /\ ids[context'].id = r.msg.context_id
    BY <1>6, <1>8
  <2>2. ASSUME NEW i \in 1..context' - 1 PROVE ids[i].id # r.msg.context_id
    <3>1. PICK c \in 1..Len(ids) : c = context'
      BY <2>1
    <3>2. PICK k \in Nat : k = Len(ids) /\ c \in 1..k
      BY <1>7, <3>1
    <3>3. i \in 1..c - 1
      BY <3>1
    <3>4. i \in 1..k /\ ~(c <= i)
      BY <3>2, <3>3
    <3> QED BY <1>6, <1>8, <3>1, <3>2, <3>4
  <2> QED BY <2>1, <2>2
<1>10. at' = "serve" /\ UNCHANGED <<ids, replies, msg, msg_size, history>>
  BY DEF Route
<1>11. TypeOK'
  <2>1. context' \in 0..Len(ids) /\ context' > 0
    BY <1>7, <1>9
  <2> QED BY <1>10, <2>1 DEF IInv, TypeOK
<1>12. ContextsTyped'
  BY <1>10 DEF IInv, ContextsTyped
<1>13. RequestArrived'
  <2>1. Holds(PackImage(Stored[request.cmd].req, request.msg))
    BY DEF IInv, RequestArrived, Route
  <2>2. Holds(PackImage(Stored[request.cmd].req, request.msg))'
    BY <1>10, <2>1 DEF Holds, history
  <2> QED BY <1>1, <1>2, <1>10, <2>2 DEF RequestArrived, history
<1>14. RightContext'
  BY <1>1, <1>9, <1>10 DEF RightContext, history
<1> QED
  BY <1>2, <1>10, <1>11, <1>12, <1>13, <1>14 DEF IInv, history, RightFields, AnswerPacked,
     AnswerReturned, AcceptedAsAnswered, Failed

LEMMA ServeStep ==
  ASSUME IInv, NEW fields \in Answers, Serve(fields)
  PROVE  IInv'
<1> DEFINE m == Delivered.msg
           values == [f \in DOMAIN fields \cup {"context_id", "sm_id", "cmd"} |->
                        IF f \in DOMAIN fields THEN fields[f] ELSE m[f]]
<1>1. PICK r \in Requests : r = request
  BY Arrived DEF IInv, Serve
<1>2. /\ \A f \in DOMAIN m : m[f] = r.msg[f]
      /\ {"context_id", "sm_id", "cmd"} \subseteq DOMAIN m
      /\ m.cmd = Command[r.cmd] /\ CommandOf(m) = r.cmd
  BY <1>1, DeliveredRead DEF IInv, Serve
<1>3. PICK list \in Seq(FieldType) : list = Stored[r.cmd].resp
  BY <1>1, RequestTyped, StoredTyped
<1>4. HasFields(Then(Header, list), values)
  <2>1. {"context_id", "sm_id", "cmd"} \cap DOMAIN fields = {} /\ HasFields(list, fields)
    BY <1>1, <1>3, RequestTyped, MessageAssumption
  <2>2. HasFields(Header, r.msg)
    BY <1>1, RequestTyped, AllFields
  <2>3. r.msg.context_id \in Word /\ r.msg.sm_id \in Word /\ r.msg.cmd \in Word
    BY <2>2, HeaderFields
  <2>4. /\ {"context_id", "sm_id", "cmd"} \subseteq DOMAIN values
        /\ values.context_id = r.msg.context_id /\ values.sm_id = r.msg.sm_id
        /\ values.cmd = r.msg.cmd
    BY <1>2, <2>1
  <2>5. \A f \in DOMAIN fields : f \in DOMAIN values /\ values[f] = fields[f]
    OBVIOUS
  <2> HIDE DEF values
  <2>6. HasFields(Header, values)
    BY <2>3, <2>4, HeaderFields
  <2>7. HasFields(list, values)
    BY <2>1, <2>5 DEF HasFields
  <2> QED BY <2>6, <2>7, AllFields
<1> DEFINE packed == Pack(list, values, MaxMsg)
<1>5. /\ served' = Delivered /\ Delivered.ok /\ packed.ok
      /\ answer' = [ok |-> TRUE, cmd |-> r.cmd, msg |-> values, image |-> packed.image]
      /\ at' = "return"
      /\ UNCHANGED <<ids, replies, msg, msg_size, context, request, accepted, calls>>
  BY <1>2, <1>3 DEF Serve
<1> HIDE DEF values
<1>6. packed.image = PackImage(list, values)
  <2>1. MaxMsg \in Nat
    BY RouterAssumption
  <2> HIDE DEF packed
  <2> QED BY <1>4, <1>5, <2>1, PackIs DEF packed
<1>7. answer' = [ok |-> TRUE, cmd |-> r.cmd, msg |-> values, image |-> PackImage(list, values)]
  BY <1>5, <1>6
<1>8. TypeOK'
  <2>1. context > 0
    BY DEF IInv, TypeOK, Serve
  <2> QED BY <1>5, <2>1 DEF IInv, TypeOK
<1>9. ContextsTyped'
  BY <1>5 DEF IInv, ContextsTyped
<1>10. RequestArrived' /\ AnswerReturned'
  BY <1>5 DEF RequestArrived, AnswerReturned
<1>11. RightContext'
  <2>1. at = "serve"
    BY DEF Serve
  <2> QED BY <1>5, <2>1 DEF IInv, RightContext
<1>12. RightFields'
  BY <1>1, <1>2, <1>5 DEF RightFields
<1>13. AnswerPacked'
  <2>1. answer'.cmd = r.cmd /\ answer'.msg = values /\ answer'.image = PackImage(list, values)
    BY <1>7
  <2>2. request' = r
    BY <1>1, <1>5
  <2> QED BY <1>3, <1>4, <2>1, <2>2 DEF AnswerPacked
<1>14. AcceptedAsAnswered'
  <2>1. accepted = Failed
    BY Arrived DEF IInv, Serve
  <2> QED BY <1>5, <2>1 DEF AcceptedAsAnswered, Failed
<1> QED BY <1>8, <1>9, <1>10, <1>11, <1>12, <1>13, <1>14 DEF IInv

\* The server has no answer, or nothing can be received from it.
LEMMA NoAnswerSteps ==
  ASSUME IInv, ServeFails \/ ReturnNothing
  PROVE  IInv'
<1>1. UNCHANGED <<ids, replies, msg, msg_size, context, history, calls>>
  BY DEF ServeFails, ReturnNothing
<1>2. at' \in {"return", "reply"} /\ (at' = "reply" => ~ids[context].recv)
  BY DEF ServeFails, ReturnNothing
<1> USE DEF IInv, history
<1>3. TypeOK'
  BY <1>1, <1>2 DEF TypeOK, ServeFails, ReturnNothing
<1>4. ContextsTyped'
  BY <1>1 DEF ContextsTyped
<1>5. RequestArrived'
  BY <1>2 DEF RequestArrived
<1>6. RightContext' /\ RightFields'
  BY <1>1, <1>2 DEF RightContext, RightFields
<1>7. AnswerPacked'
  BY <1>1 DEF AnswerPacked
<1>8. AnswerReturned'
  BY <1>1, <1>2 DEF AnswerReturned
<1>9. AcceptedAsAnswered'
  BY <1>1 DEF AcceptedAsAnswered
<1> QED BY <1>3, <1>4, <1>5, <1>6, <1>7, <1>8, <1>9

LEMMA AnswerTyped ==
  ASSUME IInv, answer.ok
  PROVE  /\ request \in Requests /\ answer.cmd = request.cmd
         /\ Stored[answer.cmd].resp \in Seq(FieldType)
         /\ HasFields(Then(Header, Stored[answer.cmd].resp), answer.msg)
         /\ answer.image = PackImage(Stored[answer.cmd].resp, answer.msg)
         /\ answer.image \in Seq(Byte)
<1>1. /\ request \in Requests /\ answer.cmd = request.cmd
      /\ HasFields(Then(Header, Stored[answer.cmd].resp), answer.msg)
      /\ answer.image = PackImage(Stored[answer.cmd].resp, answer.msg)
  BY DEF IInv, AnswerPacked
<1>2. PICK list \in Seq(FieldType) : list = Stored[answer.cmd].resp
  BY <1>1, RequestTyped, StoredTyped
<1>3. PackImage(list, answer.msg) \in Seq(Byte)
  <2>1. 0 \in Nat
    OBVIOUS
  <2> QED BY <1>1, <1>2, <2>1, PackIs
<1> QED BY <1>1, <1>2, <1>3

LEMMA ReturnStep ==
  ASSUME IInv, NEW n \in 0..MaxMsg, ReturnAnswer(n)
  PROVE  IInv'
<1>1. /\ answer.ok /\ n <= Len(answer.image) /\ at = "return" /\ at' = "reply"
      /\ msg' = Overwritten(FirstPart(answer.image, n)) /\ msg_size' = n
      /\ UNCHANGED <<ids, replies, context, history, calls>>
  BY DEF ReturnAnswer
<1>2. PICK image \in Seq(Byte) : image = answer.image
  BY <1>1, AnswerTyped
<1>3. msg' \in Buffer /\ \A j \in 1..n : msg'[j] = image[j]
  BY <1>1, <1>2, BufferWritten DEF IInv
<1> USE DEF IInv, history
<1>4. TypeOK'
  BY <1>1, <1>3 DEF TypeOK
<1>5. ContextsTyped'
  BY <1>1 DEF ContextsTyped
<1>6. RequestArrived'
  BY <1>1 DEF RequestArrived
<1>7. RightContext' /\ RightFields'
  BY <1>1 DEF RightContext, RightFields
<1>8. AnswerPacked'
  BY <1>1 DEF AnswerPacked
<1>9. AnswerReturned'
  <2>1. n \in 0..Len(image)
    BY <1>1, <1>2
  <2> QED BY <1>1, <1>2, <1>3, <2>1 DEF AnswerReturned, Holds
<1>10. AcceptedAsAnswered'
  BY <1>1 DEF AcceptedAsAnswered
<1> QED BY <1>4, <1>5, <1>6, <1>7, <1>8, <1>9, <1>10

LEMMA ReplyStep ==
  ASSUME IInv, Reply
  PROVE  IInv'
<1>1. /\ at = "reply" /\ at' = "receive"
      /\ accepted' = IF replies THEN TakenAsAnswer ELSE Failed
      /\ UNCHANGED <<ids, replies, msg, msg_size, context,
                     request, served, answer, calls>>
  BY DEF Reply
<1>2. AcceptedAsAnswered'
  <2>1. SUFFICES ASSUME accepted'.ok, ids[context].recv
                 PROVE  /\ answer.ok /\ answer.cmd = request.cmd
                        /\ \A f \in DOMAIN accepted'.msg : accepted'.msg[f] = answer.msg[f]
    BY <1>1 DEF AcceptedAsAnswered
  <2>2. answer.ok /\ Holds(answer.image)
    BY <1>1, <2>1 DEF IInv, AnswerReturned
  <2>3. PICK image, len, m : image = msg /\ len = msg_size /\ m = answer.msg
    OBVIOUS
  <2>4. PICK list \in Seq(FieldType) :
          /\ list = Stored[answer.cmd].resp
          /\ HasFields(Then(Header, list), m) /\ answer.image = PackImage(list, m)
    BY <2>2, <2>3, AnswerTyped
  <2>5. answer.cmd = request.cmd
    BY <2>2, AnswerTyped
  <2>6. accepted' = Unpack(list, image, len)
    <3>1. accepted' = TakenAsAnswer /\ TakenAsAnswer # Failed
      BY <1>1, <2>1 DEF Failed
    <3>2. TakenAsAnswer = Unpack(Expected[request.cmd].resp, msg, msg_size)
      BY <3>1 DEF TakenAsAnswer
    <3> QED BY <2>4, <2>5, <2>3, <3>1, <3>2, ReadAsStored
  <2>7. /\ image \in Buffer /\ len \in 0..MaxMsg /\ Begins(list, list)
        /\ \A j \in 1..len : image[j] = PackImage(list, m)[j]
        /\ Unpack(list, image, len).ok
    BY <2>1, <2>2, <2>4, <2>6, <2>3 DEF IInv, TypeOK, Holds, Begins
  <2>8. \A f \in DOMAIN Unpack(list, image, len).msg : Unpack(list, image, len).msg[f] = m[f]
    BY <2>4, <2>7, UnpackRead
  <2> QED BY <2>2, <2>5, <2>6, <2>8, <2>3
<1> USE DEF IInv
<1>3. TypeOK'
  BY <1>1 DEF TypeOK
<1>4. ContextsTyped'
  BY <1>1 DEF ContextsTyped
<1>5. RequestArrived' /\ AnswerReturned'
  BY <1>1 DEF RequestArrived, AnswerReturned
<1>6. RightContext' /\ RightFields'
  BY <1>1 DEF RightContext, RightFields
<1>7. AnswerPacked'
  BY <1>1 DEF AnswerPacked
<1> QED BY <1>2, <1>3, <1>4, <1>5, <1>6, <1>7

LEMMA StutterStep ==
  ASSUME IInv, UNCHANGED vars
  PROVE  IInv'
BY DEF IInv, vars, history, TypeOK, ContextsTyped, RequestArrived, Holds, RightContext,
   RightFields, AnswerPacked, AnswerReturned, AcceptedAsAnswered

-----------------------------------------------------------------------------
(* The theorems.                                                           *)

\* The invariant the others follow from holds in every reachable state.
THEOREM RouterInvariant == Spec => []IInv
<1>1. Init => IInv
  BY InitInvariant
<1>2. IInv /\ [Next]_vars => IInv'
  <2> SUFFICES ASSUME IInv, [Next]_vars PROVE IInv'
    OBVIOUS
  <2>1. ASSUME NEW s \in Setups, InterfaceInit(s[1], s[2]) PROVE IInv'
    BY <2>1, InitStep
  <2>2. ASSUME NEW r \in Requests, NEW n \in 0..MaxMsg, Receive(r, n) PROVE IInv'
    BY <2>2, ReceiveStep
  <2>3. CASE Route
    BY <2>3, RouteStep
  <2>4. ASSUME NEW fields \in Answers, Serve(fields) PROVE IInv'
    BY <2>4, ServeStep
  <2>5. CASE ServeFails \/ ReturnNothing
    BY <2>5, NoAnswerSteps
  <2>6. ASSUME NEW n \in 0..MaxMsg, ReturnAnswer(n) PROVE IInv'
    BY <2>6, ReturnStep
  <2>7. CASE Reply
    BY <2>7, ReplyStep
  <2>8. CASE InterfaceEnd \/ RouteFails \/ ReturnFails \/ ReplyFails
    BY <2>8, EndSteps DEF InterfaceEnd, RouteFails, ReturnFails, ReplyFails, Failure
  <2>9. CASE UNCHANGED vars
    BY <2>9, StutterStep
  <2> QED
    BY <2>1, <2>2, <2>3, <2>4, <2>5, <2>6, <2>7, <2>8, <2>9 DEF Next
<1> QED BY <1>1, <1>2, PTL DEF Spec

\* Every message, size and context is within its bounds in every
\* reachable state: the buffer has only bytes, and no more of them count than
\* it has (sk_swld_tapi_message_interface_process).
THEOREM TypeCorrect == Spec => []TypeOK
<1>1. IInv => TypeOK
  BY DEF IInv
<1> QED BY <1>1, RouterInvariant, PTL

\* A handler only ever gets the fields its client's driver packed, and gets
\* them in the first context registered for the id the client named: for words
\* and handles of any size, whatever part of the request arrived.
THEOREM ServedCorrect == Spec => []ServedAsSent
<1>1. IInv => ServedAsSent
  BY DEF IInv, RightContext, RightFields, ServedAsSent
<1> QED BY <1>1, RouterInvariant, PTL

\* What a driver takes for an answer is, field by field, the one a handler gave
\* to its request, if the interface can receive from the context.
THEOREM AcceptedCorrect == Spec => []AcceptedAsAnswered
<1>1. IInv => AcceptedAsAnswered
  BY DEF IInv
<1> QED BY <1>1, RouterInvariant, PTL
=============================================================================
