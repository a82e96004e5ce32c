--------------------------- MODULE TapiCommProofs ---------------------------
(***************************************************************************)
(* Proofs about the exchange of a request and its answer, for every number *)
(* of processes, of parameters and of fields on the way.                   *)
(***************************************************************************)
EXTENDS TapiComm, TLAPS, WellFoundedInduction, SequenceTheorems, FiniteSetTheorems

-----------------------------------------------------------------------------
(* Induction, and FlattenSeq.                                              *)

\* A set of numbers with 0 and the successors of its elements has them all.
LEMMA Induction ==
  ASSUME NEW T \in SUBSET Nat, 0 \in T, \A n \in T : n + 1 \in T
  PROVE  T = Nat
<1> DEFINE R == {ss \in Nat \X Nat : ss[1] < ss[2]}
           U == Nat \ T
<1>1. SUFFICES ASSUME T # Nat PROVE FALSE
  OBVIOUS
<1>2. IsWellFoundedOn(R, Nat)
  BY NatLessThanWellFounded DEF OpToRel
<1>3. \A x, y \in Nat : y < x => <<y, x>> \in R
  OBVIOUS
<1>4. U \in SUBSET Nat /\ U # {}
  BY <1>1
<1> HIDE DEF R, U
<1>5. PICK x \in U : \A y \in U : ~(<<y, x>> \in R)
  BY <1>2, <1>4, WFMin
<1>6. x \in Nat /\ x \notin T
  BY <1>5 DEF U
<1>7. x # 0
  BY <1>6
<1>8. x - 1 \in Nat /\ x - 1 < x
  BY <1>6, <1>7
<1>9. x - 1 \in T
  BY <1>3, <1>5, <1>6, <1>8 DEF U
<1> QED
  BY <1>6, <1>8, <1>9

\* g has the first n sequences of b put together, as FlattenSeq computes them.
Put(b, n, g) == g = [i \in 1..n |-> IF i = 1 THEN b[i] ELSE g[i - 1] \o b[i]]

LEMMA PutExists ==
  ASSUME NEW b
  PROVE  \A n \in Nat : \E g : Put(b, n, g)
<1> DEFINE T == {n \in Nat : \E g : Put(b, n, g)}
<1>1. 0 \in T
  <2>1. Put(b, 0, [j \in 1..0 |-> 0])
    BY DEF Put
  <2> QED BY <2>1
<1>2. ASSUME NEW n \in T PROVE n + 1 \in T
  <2>1. PICK g : Put(b, n, g)
    OBVIOUS
  <2> DEFINE h == [j \in 1..(n + 1) |-> IF j <= n THEN g[j]
                                        ELSE IF j = 1 THEN b[j] ELSE g[j - 1] \o b[j]]
  <2>2. \A j \in 1..n : g[j] = IF j = 1 THEN b[j] ELSE g[j - 1] \o b[j]
    BY <2>1 DEF Put
  <2>3. \A j \in 1..(n + 1) : h[j] = IF j = 1 THEN b[j] ELSE h[j - 1] \o b[j]
    <3> TAKE j \in 1..(n + 1)
    <3>1. j # 1 => h[j - 1] = g[j - 1]
      OBVIOUS
    <3> QED BY <2>2, <3>1
  <2>4. Put(b, n + 1, h)
    <3> HIDE DEF h
    <3>1. h = [j \in 1..(n + 1) |-> h[j]]
      BY DEF h
    <3> QED BY <2>3, <3>1 DEF Put
  <2> QED BY <2>4
<1>3. T = Nat
  <2> HIDE DEF T
  <2>1. T \subseteq Nat
    BY DEF T
  <2> QED BY <1>1, <1>2, <2>1, Induction
<1> QED BY <1>3

\* FlattenSeq is the last of them.
LEMMA FlattenIs ==
  ASSUME NEW b, Len(b) \in Nat, Len(b) # 0
  PROVE  \E g : Put(b, Len(b), g) /\ FlattenSeq(b) = g[Len(b)]
<1> DEFINE f == CHOOSE g : Put(b, Len(b), g)
<1>1. Put(b, Len(b), f)
  BY PutExists
<1>2. FlattenSeq(b) = f[Len(b)]
  BY DEF FlattenSeq, Put
<1> QED BY <1>1, <1>2

LEMMA FlattenEmpty == FlattenSeq(<<>>) = <<>>
BY DEF FlattenSeq

\* One sequence after another, as an operator the provers do not look into.
Then(s, t) == s \o t

LEMMA ThenProperties ==
  ASSUME NEW X, NEW s \in Seq(X), NEW t \in Seq(X), NEW u \in Seq(X)
  PROVE  /\ Then(s, t) \in Seq(X)
         /\ Then(Then(s, t), u) = Then(s, Then(t, u))
         /\ Then(s, <<>>) = s /\ Then(<<>>, s) = s
<1>1. s \o t \in Seq(X)
  BY ConcatProperties
<1>2. (s \o t) \o u = s \o (t \o u)
  BY ConcatAssociative
<1>3. s \o <<>> = s /\ <<>> \o s = s
  BY ConcatEmptySeq
<1> QED BY <1>1, <1>2, <1>3 DEF Then

LEMMA PutSteps ==
  ASSUME NEW b, NEW n \in Nat \ {0}, NEW g, Put(b, n, g)
  PROVE  g[1] = b[1] /\ \A i \in 1..(n - 1) : g[i + 1] = Then(g[i], b[i + 1])
<1>1. \A i \in 1..n : g[i] = IF i = 1 THEN b[i] ELSE g[i - 1] \o b[i]
  BY DEF Put
<1>2. g[1] = b[1]
  BY <1>1
<1>3. ASSUME NEW i \in 1..(n - 1)
      PROVE  g[i + 1] = Then(g[i], b[i + 1])
  <2>1. i + 1 \in 1..n /\ i + 1 # 1 /\ (i + 1) - 1 = i
    OBVIOUS
  <2> QED BY <1>1, <2>1 DEF Then
<1> QED BY <1>2, <1>3

LEMMA PutTyped ==
  ASSUME NEW X, NEW n \in Nat \ {0}, NEW b, \A i \in 1..n : b[i] \in Seq(X), NEW g, Put(b, n, g)
  PROVE  \A i \in 1..n : g[i] \in Seq(X)
<1>1. g[1] = b[1] /\ \A i \in 1..(n - 1) : g[i + 1] = Then(g[i], b[i + 1])
  BY PutSteps
<1> DEFINE T == {i \in Nat : i \in 1..n => g[i] \in Seq(X)}
<1>2. 0 \in T
  OBVIOUS
<1>3. ASSUME NEW i \in T PROVE i + 1 \in T
  <2>1. CASE i = 0
    BY <1>1, <2>1
  <2>2. CASE i # 0 /\ i + 1 \in 1..n
    <3>1. i \in 1..(n - 1) /\ i \in 1..n
      BY <2>2
    <3>2. g[i] \in Seq(X) /\ b[i + 1] \in Seq(X) /\ g[i + 1] = Then(g[i], b[i + 1])
      BY <1>1, <2>2, <3>1
    <3>3. Then(g[i], b[i + 1]) \in Seq(X)
      BY <3>2, ThenProperties
    <3> QED BY <3>2, <3>3
  <2> QED BY <2>1, <2>2
<1>4. T \in SUBSET Nat
  OBVIOUS
<1> HIDE DEF T
<1>5. T = Nat
  BY <1>2, <1>3, <1>4, Induction
<1> QED BY <1>5 DEF T

\* The first n elements of b are sequences over X; those of t are those of b
\* after the first.
AllIn(b, n, X)   == \A i \in 1..n : b[i] \in Seq(X)
Shifted(t, b, n) == \A i \in 1..n : t[i] = b[i + 1]

\* One sequence less at the start.
LEMMA PutTail ==
  ASSUME NEW X, NEW n \in Nat \ {0}, NEW m, m = n + 1,
         NEW b, AllIn(b, m, X), NEW g, Put(b, m, g),
         NEW t, Shifted(t, b, n), NEW h, Put(t, n, h)
  PROVE  g[m] = Then(b[1], h[n])
<1>1. /\ \A i \in 1..m : b[i] \in Seq(X)
      /\ \A i \in 1..n : t[i] = b[i + 1]
  BY DEF AllIn, Shifted
<1>2. g[1] = b[1] /\ \A i \in 1..n : g[i + 1] = Then(g[i], b[i + 1])
  <2>1. m \in Nat \ {0} /\ m - 1 = n
    OBVIOUS
  <2>2. g[1] = b[1] /\ \A i \in 1..(m - 1) : g[i + 1] = Then(g[i], b[i + 1])
    BY <2>1, PutSteps
  <2> QED BY <2>1, <2>2
<1>3. h[1] = t[1] /\ \A i \in 1..(n - 1) : h[i + 1] = Then(h[i], t[i + 1])
  BY PutSteps
<1>4. \A i \in 1..n : h[i] \in Seq(X)
  <2>1. \A i \in 1..n : t[i] \in Seq(X)
    <3> TAKE i \in 1..n
    <3>1. i + 1 \in 1..m
      OBVIOUS
    <3> QED BY <1>1, <3>1
  <2> QED BY <2>1, PutTyped
<1> DEFINE T == {i \in Nat : i \in 1..n => g[i + 1] = Then(b[1], h[i])}
<1>5. 0 \in T
  OBVIOUS
<1>6. ASSUME NEW i \in T PROVE i + 1 \in T
  <2>1. CASE i = 0
    <3>1. 1 \in 1..n
      OBVIOUS
    <3>2. g[1 + 1] = Then(g[1], b[1 + 1]) /\ t[1] = b[1 + 1]
      BY <1>1, <1>2, <3>1
    <3>3. g[1 + 1] = Then(b[1], h[1])
      BY <1>2, <1>3, <3>2
    <3> QED BY <2>1, <3>3
  <2>2. CASE i # 0 /\ i + 1 \in 1..n
    <3>1. i \in 1..(n - 1) /\ i \in 1..n /\ i + 1 \in 1..m /\ (i + 1) + 1 \in 1..m
      BY <2>2
    <3>2. g[i + 1] = Then(b[1], h[i]) /\ h[i + 1] = Then(h[i], t[i + 1])
      BY <1>3, <3>1
    <3>3. g[(i + 1) + 1] = Then(g[i + 1], b[(i + 1) + 1]) /\ t[i + 1] = b[(i + 1) + 1]
      BY <1>1, <1>2, <2>2
    <3>4. h[i] \in Seq(X) /\ t[i + 1] \in Seq(X) /\ b[1] \in Seq(X)
      BY <1>1, <1>4, <2>2, <3>1
    <3>5. Then(Then(b[1], h[i]), t[i + 1]) = Then(b[1], Then(h[i], t[i + 1]))
      <4>1. PICK u \in Seq(X), v \in Seq(X), w \in Seq(X) : u = b[1] /\ v = h[i] /\ w = t[i + 1]
        BY <3>4
      <4>2. Then(Then(u, v), w) = Then(u, Then(v, w))
        BY ThenProperties
      <4> QED BY <4>1, <4>2
    <3>6. g[(i + 1) + 1] = Then(b[1], h[i + 1])
      BY <3>2, <3>3, <3>5
    <3> QED BY <3>6
  <2> QED BY <2>1, <2>2
<1>7. T \in SUBSET Nat
  OBVIOUS
<1> HIDE DEF T
<1>8. T = Nat
  BY <1>5, <1>6, <1>7, Induction
<1>9. n \in T /\ n \in 1..n
  BY <1>8
<1> QED BY <1>9 DEF T

\* The first sequence comes first.
LEMMA FlattenFirst ==
  ASSUME NEW X, NEW b \in Seq(Seq(X)), b # <<>>
  PROVE  /\ FlattenSeq(b) \in Seq(X)
         /\ FlattenSeq(b) = Then(Head(b), FlattenSeq(Tail(b)))
<1>1. PICK n \in Nat : Len(b) = n + 1
  <2>1. Len(b) \in Nat \ {0}
    BY EmptySeq
  <2>2. Len(b) - 1 \in Nat /\ Len(b) = (Len(b) - 1) + 1
    BY <2>1
  <2> QED BY <2>2
<1>2. PICK t : t = Tail(b)
  OBVIOUS
<1>3. /\ \A i \in 1..(n + 1) : b[i] \in Seq(X)
      /\ Head(b) = b[1] /\ t \in Seq(Seq(X)) /\ Len(t) = n
      /\ \A i \in 1..n : t[i] = b[i + 1]
  <2>1. t \in Seq(Seq(X)) /\ Len(t) = Len(b) - 1 /\ \A i \in 1..Len(t) : t[i] = b[i + 1]
    BY <1>2, HeadTailProperties
  <2>2. Len(t) = n
    BY <1>1, <2>1
  <2>3. \A i \in 1..Len(b) : b[i] \in Seq(X)
    BY ElementOfSeq
  <2> QED BY <1>1, <2>1, <2>2, <2>3
<1>4. PICK g : Put(b, n + 1, g) /\ FlattenSeq(b) = g[n + 1]
  BY <1>1, FlattenIs
<1>5. \A i \in 1..(n + 1) : g[i] \in Seq(X)
  <2>1. n + 1 \in Nat \ {0}
    OBVIOUS
  <2> QED BY <1>3, <1>4, <2>1, PutTyped
<1>6. FlattenSeq(b) \in Seq(X)
  BY <1>4, <1>5
<1>7. CASE n = 0
  <2>1. t = <<>>
    BY <1>3, <1>7, EmptySeq
  <2>2. g[1] = b[1]
    <3>1. n + 1 \in Nat \ {0}
      OBVIOUS
    <3> QED BY <1>4, <3>1, PutSteps
  <2>3. FlattenSeq(b) = b[1] /\ b[1] \in Seq(X)
    BY <1>3, <1>4, <1>7, <2>2
  <2>4. Then(b[1], <<>>) = b[1]
    BY <2>3, ThenProperties
  <2> QED BY <1>2, <1>3, <1>6, <2>1, <2>3, <2>4, FlattenEmpty
<1>8. CASE n # 0
  <2>1. PICK h : Put(t, n, h) /\ FlattenSeq(t) = h[n]
    BY <1>3, <1>8, FlattenIs
  <2>2. g[n + 1] = Then(b[1], h[n])
    <3>1. n \in Nat \ {0}
      BY <1>8
    <3>2. PICK m : m = n + 1
      OBVIOUS
    <3>3. Put(b, m, g) /\ Put(t, n, h)
      BY <1>4, <2>1, <3>2
    <3>4. AllIn(b, m, X) /\ Shifted(t, b, n)
      BY <1>3, <3>2 DEF AllIn, Shifted
    <3>5. g[m] = Then(b[1], h[n])
      BY ONLY <3>1, <3>2, <3>3, <3>4, PutTail
    <3> QED BY <3>2, <3>5
  <2> QED BY <1>2, <1>3, <1>4, <1>6, <2>1, <2>2
<1> QED BY <1>7, <1>8

-----------------------------------------------------------------------------
(* Cons, and a concatenation of sequences from the k-th.                   *)

LEMMA ConsProperties ==
  ASSUME NEW X, NEW x \in X, NEW s \in Seq(X)
  PROVE  /\ Cons(x, s) \in Seq(X) /\ Cons(x, s) # <<>>
         /\ Head(Cons(x, s)) = x /\ Tail(Cons(x, s)) = s
         /\ Cons(x, s) = Then(<<x>>, s)
<1>1. <<x>> \in Seq(X) /\ Len(<<x>>) = 1 /\ <<x>>[1] = x
  OBVIOUS
<1> DEFINE c == <<x>> \o s
<1>2. /\ c \in Seq(X) /\ Len(c) = 1 + Len(s)
      /\ \A i \in 1..(1 + Len(s)) : c[i] = IF i <= 1 THEN x ELSE s[i - 1]
  <2>1. PICK u \in Seq(X) : u = <<x>> /\ Len(u) = 1 /\ u[1] = x
    BY <1>1
  <2>2. /\ u \o s \in Seq(X) /\ Len(u \o s) = Len(u) + Len(s)
        /\ \A i \in 1..(Len(u) + Len(s)) :
             (u \o s)[i] = IF i <= Len(u) THEN u[i] ELSE s[i - Len(u)]
    BY ConcatProperties
  <2> QED BY <2>1, <2>2
<1>3. c = Cons(x, s) /\ c = Then(<<x>>, s)
  BY DEF Cons, Then
<1> HIDE DEF c
<1>4. Len(s) \in Nat
  OBVIOUS
<1>5. c # <<>> /\ Head(c) = x
  <2>1. Len(c) > 0 /\ c[1] = x
    BY <1>2, <1>4
  <2> QED BY <1>2, <2>1, EmptySeq
<1>6. Tail(c) = s
  <2>1. /\ Tail(c) \in Seq(X) /\ Len(Tail(c)) = Len(c) - 1
        /\ \A i \in 1..Len(Tail(c)) : Tail(c)[i] = c[i + 1]
    BY <1>2, <1>5, HeadTailProperties
  <2>2. Len(Tail(c)) = Len(s)
    BY <1>2, <1>4, <2>1
  <2>3. \A i \in 1..Len(s) : Tail(c)[i] = s[i]
    BY <1>2, <1>4, <2>1, <2>2
  <2> QED BY <2>1, <2>2, <2>3, SeqEqual
<1> QED BY <1>2, <1>3, <1>5, <1>6

LEMMA ConsThen ==
  ASSUME NEW X, NEW x \in X, NEW s \in Seq(X), NEW t \in Seq(X)
  PROVE  Cons(x, Then(s, t)) = Then(Cons(x, s), t)
<1>1. <<x>> \in Seq(X)
  OBVIOUS
<1>2. PICK u \in Seq(X) : u = <<x>>
  BY <1>1
<1>3. Then(Then(u, s), t) = Then(u, Then(s, t)) /\ Then(s, t) \in Seq(X)
  BY ThenProperties
<1>4. Cons(x, s) = Then(u, s) /\ Cons(x, Then(s, t)) = Then(u, Then(s, t))
  BY <1>2, <1>3, ConsProperties
<1> QED BY <1>3, <1>4

\* The last sequences of b, from the k-th, one after another.
From(b, k) == FlattenSeq(SubSeq(b, k, Len(b)))

LEMMA FromEnd ==
  ASSUME NEW X, NEW b \in Seq(Seq(X)), NEW k, k = Len(b) + 1
  PROVE  From(b, k) = <<>>
<1>1. Len(b) \in Nat /\ k \in Int /\ Len(b) < k
  OBVIOUS
<1>2. SubSeq(b, k, Len(b)) = <<>>
  BY <1>1, SubSeqEmpty
<1> QED BY <1>2, FlattenEmpty DEF From

LEMMA FromStep ==
  ASSUME NEW X, NEW b \in Seq(Seq(X)), NEW k \in 1..Len(b), NEW m, m = k + 1
  PROVE  From(b, k) = Then(b[k], From(b, m)) /\ From(b, k) \in Seq(X)
<1>1. PICK c : c = SubSeq(b, k, Len(b))
  OBVIOUS
<1>2. Head(c) = b[k] /\ Tail(c) = SubSeq(b, m, Len(b))
  <2>1. Len(b) \in k..Len(b)
    OBVIOUS
  <2> QED BY <1>1, <2>1, HeadTailOfSubSeq
<1>3. c \in Seq(Seq(X)) /\ c # <<>>
  <2>1. k \in Int /\ Len(b) \in Int /\ k <= Len(b)
    OBVIOUS
  <2>2. \A i \in k..Len(b) : b[i] \in Seq(X)
    BY <2>1, ElementOfSeq
  <2>3. c \in Seq(Seq(X)) /\ Len(c) = Len(b) - k + 1
    BY <1>1, <2>1, <2>2, SubSeqProperties
  <2>4. Len(c) # 0
    BY <2>1, <2>3
  <2> QED BY <2>3, <2>4, EmptySeq
<1>4. FlattenSeq(c) = Then(Head(c), FlattenSeq(Tail(c))) /\ FlattenSeq(c) \in Seq(X)
  BY <1>3, FlattenFirst
<1> QED BY <1>1, <1>2, <1>4 DEF From

LEMMA FromTyped ==
  ASSUME NEW X, NEW b \in Seq(Seq(X)), NEW k \in 1..(Len(b) + 1)
  PROVE  From(b, k) \in Seq(X)
<1>1. CASE k = Len(b) + 1
  BY <1>1, FromEnd, EmptySeq
<1>2. CASE k # Len(b) + 1
  <2>1. k \in 1..Len(b)
    BY <1>2
  <2> QED BY <2>1, FromStep
<1> QED BY <1>1, <1>2

LEMMA FromFirst ==
  ASSUME NEW X, NEW b \in Seq(X)
  PROVE  From(b, 1) = FlattenSeq(b)
BY SubSeqFull DEF From

\* b and c are sequences of sequences, of the same length and with the empty
\* ones at the same places.
Alike(b, c) ==
  /\ Len(b) = Len(c)
  /\ \A i \in 1..Len(b) : b[i] = <<>> <=> c[i] = <<>>

\* From the k-th on, the first that is not empty is the m-th.
FirstAt(b, c, k, m) ==
  /\ b[m] # <<>> /\ c[m] # <<>>
  /\ From(b, k) = Then(b[m], From(b, m + 1))
  /\ From(c, k) = Then(c[m], From(c, m + 1))

\* From the k-th on, there is nothing in either of them, or the first that is
\* not empty is at the same place.
LEMMA NextBlock ==
  ASSUME NEW X, NEW b \in Seq(Seq(X)), NEW Y, NEW c \in Seq(Seq(Y)), Alike(b, c),
         NEW k \in 1..(Len(b) + 1)
  PROVE  \/ From(b, k) = <<>> /\ From(c, k) = <<>>
         \/ \E m \in 1..Len(b) : FirstAt(b, c, k, m)
<1> DEFINE Q(j) == \/ From(b, j) = <<>> /\ From(c, j) = <<>>
                   \/ \E m \in 1..Len(b) : /\ b[m] # <<>> /\ c[m] # <<>>
                                           /\ From(b, j) = Then(b[m], From(b, m + 1))
                                           /\ From(c, j) = Then(c[m], From(c, m + 1))
           T == {i \in Nat : i <= Len(b) => Q(Len(b) + 1 - i)}
<1>1. Len(b) \in Nat /\ Len(c) = Len(b)
  BY DEF Alike
<1>2. 0 \in T
  <2>1. From(b, Len(b) + 1) = <<>> /\ From(c, Len(b) + 1) = <<>>
    BY <1>1, FromEnd
  <2>2. Len(b) + 1 - 0 = Len(b) + 1
    BY <1>1
  <2> QED BY <2>1, <2>2
<1>3. ASSUME NEW i \in T PROVE i + 1 \in T
  <2>1. SUFFICES ASSUME i + 1 <= Len(b) PROVE Q(Len(b) + 1 - (i + 1))
    <3>1. i \in Nat /\ i + 1 \in Nat
      OBVIOUS
    <3> QED BY <3>1
  <2>2. PICK j : j = Len(b) - i
    OBVIOUS
  <2>3. j \in 1..Len(b) /\ j + 1 = Len(b) + 1 - i /\ j = Len(b) + 1 - (i + 1)
    BY <1>1, <2>1, <2>2
  <2>4. Q(j + 1)
    BY <1>1, <2>1, <2>3
  <2>5. PICK n : n = j + 1
    OBVIOUS
  <2>6. From(b, j) = Then(b[j], From(b, n)) /\ From(c, j) = Then(c[j], From(c, n))
    <3>1. From(b, j) = Then(b[j], From(b, n))
      BY <2>3, <2>5, FromStep
    <3>2. j \in 1..Len(c)
      BY <1>1, <2>3
    <3>3. From(c, j) = Then(c[j], From(c, n))
      BY <3>2, <2>5, FromStep
    <3> QED BY <3>1, <3>3
  <2>7. CASE b[j] = <<>>
    <3>1. c[j] = <<>>
      BY <2>3, <2>7 DEF Alike
    <3>2. From(b, n) \in Seq(X) /\ From(c, n) \in Seq(Y)
      <4>1. From(b, n) \in Seq(X)
        BY <2>3, <2>5, FromTyped
      <4>2. From(c, n) \in Seq(Y)
        BY <1>1, <2>3, <2>5, FromTyped
      <4> QED BY <4>1, <4>2
    <3>3. From(b, j) = From(b, n) /\ From(c, j) = From(c, n)
      <4>1. Then(<<>>, From(b, n)) = From(b, n)
        BY <3>2, ThenProperties
      <4>2. Then(<<>>, From(c, n)) = From(c, n)
        BY <3>2, ThenProperties
      <4> QED BY <2>6, <2>7, <3>1, <4>1, <4>2
    <3>4. Q(j)
      BY <2>4, <2>5, <3>3
    <3> QED BY <2>3, <3>4
  <2>8. CASE b[j] # <<>>
    <3>1. c[j] # <<>>
      BY <2>3, <2>8 DEF Alike
    <3>2. Q(j)
      BY <2>3, <2>5, <2>6, <2>8, <3>1
    <3> QED BY <2>3, <3>2
  <2> QED BY <2>7, <2>8
<1>4. T \in SUBSET Nat
  OBVIOUS
<1>5. PICK i : i = Len(b) + 1 - k
  OBVIOUS
<1>6. i \in Nat /\ i <= Len(b) /\ Len(b) + 1 - i = k
  BY <1>1, <1>5
<1> HIDE DEF T, Q
<1>7. T = Nat
  BY <1>2, <1>3, <1>4, Induction
<1>8. i <= Len(b) => Q(Len(b) + 1 - i)
  BY <1>6, <1>7 DEF T
<1>9. Q(k)
  BY <1>6, <1>8
<1> QED BY <1>9 DEF Q, FirstAt

LEMMA Pair ==
  ASSUME NEW X, NEW a \in X, NEW b \in X
  PROVE  <<a, b>> = Then(<<a>>, <<b>>)
<1>1. /\ <<a>> \in Seq(X) /\ Len(<<a>>) = 1 /\ <<a>>[1] = a
      /\ <<b>> \in Seq(X) /\ Len(<<b>>) = 1 /\ <<b>>[1] = b
      /\ <<a, b>> \in Seq(X) /\ Len(<<a, b>>) = 2 /\ <<a, b>>[1] = a /\ <<a, b>>[2] = b
  OBVIOUS
<1>2. PICK u \in Seq(X), v \in Seq(X), w \in Seq(X) :
        /\ u = <<a>> /\ Len(u) = 1 /\ u[1] = a
        /\ v = <<b>> /\ Len(v) = 1 /\ v[1] = b
        /\ w = <<a, b>> /\ Len(w) = 2 /\ w[1] = a /\ w[2] = b
  BY <1>1, Zenon
<1>3. /\ u \o v \in Seq(X) /\ Len(u \o v) = Len(u) + Len(v)
      /\ \A i \in 1..(Len(u) + Len(v)) :
           (u \o v)[i] = IF i <= Len(u) THEN u[i] ELSE v[i - Len(u)]
  BY ConcatProperties
<1>4. PICK t \in Seq(X) : t = u \o v
  BY <1>3
<1>5. Len(t) = 2 /\ t[1] = a /\ t[2] = b
  BY <1>2, <1>3, <1>4
<1>6. t = w
  BY <1>2, <1>5, SeqEqual
<1> QED BY <1>2, <1>4, <1>6 DEF Then

LEMMA Triple ==
  ASSUME NEW X, NEW a \in X, NEW b \in X, NEW c \in X
  PROVE  <<a, b, c>> = Then(<<a>>, <<b, c>>)
<1>1. /\ <<a>> \in Seq(X) /\ Len(<<a>>) = 1 /\ <<a>>[1] = a
      /\ <<b, c>> \in Seq(X) /\ Len(<<b, c>>) = 2 /\ <<b, c>>[1] = b /\ <<b, c>>[2] = c
      /\ <<a, b, c>> \in Seq(X) /\ Len(<<a, b, c>>) = 3
      /\ <<a, b, c>>[1] = a /\ <<a, b, c>>[2] = b /\ <<a, b, c>>[3] = c
  OBVIOUS
<1>2. PICK u \in Seq(X), v \in Seq(X), w \in Seq(X) :
        /\ u = <<a>> /\ Len(u) = 1 /\ u[1] = a
        /\ v = <<b, c>> /\ Len(v) = 2 /\ v[1] = b /\ v[2] = c
        /\ w = <<a, b, c>> /\ Len(w) = 3 /\ w[1] = a /\ w[2] = b /\ w[3] = c
  BY <1>1, Zenon
<1>3. /\ u \o v \in Seq(X) /\ Len(u \o v) = Len(u) + Len(v)
      /\ \A i \in 1..(Len(u) + Len(v)) :
           (u \o v)[i] = IF i <= Len(u) THEN u[i] ELSE v[i - Len(u)]
  BY ConcatProperties
<1>4. PICK t \in Seq(X) : t = u \o v
  BY <1>3
<1>5. Len(t) = 3 /\ t[1] = a /\ t[2] = b /\ t[3] = c
  BY <1>2, <1>3, <1>4
<1>6. t = w
  BY <1>2, <1>5, SeqEqual
<1> QED BY <1>2, <1>4, <1>6 DEF Then

LEMMA OnlyOne ==
  ASSUME NEW X, NEW a \in X
  PROVE  <<a>> = Cons(a, <<>>)
<1>1. PICK u \in Seq(X), e \in Seq(X) : u = <<a>> /\ e = <<>>
  <2>1. <<a>> \in Seq(X) /\ <<>> \in Seq(X)
    OBVIOUS
  <2> QED BY <2>1
<1>2. Then(u, e) = u
  BY <1>1, ThenProperties
<1>3. Cons(a, e) = Then(u, e)
  BY <1>1, ConsProperties
<1> QED BY <1>1, <1>2, <1>3

LEMMA TwoFirst ==
  ASSUME NEW X, NEW a \in X, NEW b \in X, NEW s \in Seq(X)
  PROVE  Then(<<a, b>>, s) = Cons(a, Cons(b, s))
<1>1. PICK u \in Seq(X), v \in Seq(X) : u = <<a>> /\ v = <<b>>
  <2>1. <<a>> \in Seq(X) /\ <<b>> \in Seq(X)
    OBVIOUS
  <2> QED BY <2>1
<1>2. <<a, b>> = Then(u, v)
  BY <1>1, Pair
<1>3. Then(Then(u, v), s) = Then(u, Then(v, s)) /\ Then(v, s) \in Seq(X)
  BY ThenProperties
<1>4. PICK t \in Seq(X) : t = Then(v, s)
  BY <1>3
<1>5. Cons(b, s) = t /\ Cons(a, t) = Then(u, t)
  BY <1>1, <1>4, ConsProperties
<1> QED BY <1>2, <1>3, <1>4, <1>5

LEMMA ThreeFirst ==
  ASSUME NEW X, NEW a \in X, NEW b \in X, NEW c \in X, NEW s \in Seq(X)
  PROVE  Then(<<a, b, c>>, s) = Cons(a, Cons(b, Cons(c, s)))
<1>1. PICK u \in Seq(X), v \in Seq(X) : u = <<a>> /\ v = <<b, c>>
  <2>1. <<a>> \in Seq(X) /\ <<b, c>> \in Seq(X)
    OBVIOUS
  <2> QED BY <2>1
<1>2. <<a, b, c>> = Then(u, v)
  BY <1>1, Triple
<1>3. Then(Then(u, v), s) = Then(u, Then(v, s)) /\ Then(v, s) \in Seq(X)
  BY ThenProperties
<1>4. PICK t \in Seq(X) : t = Then(v, s)
  BY <1>3
<1>5. t = Cons(b, Cons(c, s))
  BY <1>1, <1>4, TwoFirst
<1>6. Cons(a, t) = Then(u, t)
  BY <1>1, ConsProperties
<1> QED BY <1>2, <1>3, <1>4, <1>5, <1>6

LEMMA OnlyThree ==
  ASSUME NEW X, NEW a \in X, NEW b \in X, NEW c \in X
  PROVE  <<a, b, c>> = Cons(a, Cons(b, Cons(c, <<>>)))
<1>1. PICK e \in Seq(X), u \in Seq(X) : e = <<>> /\ u = <<a, b, c>>
  <2>1. <<>> \in Seq(X) /\ <<a, b, c>> \in Seq(X)
    OBVIOUS
  <2> QED BY <2>1
<1>2. Then(u, e) = Cons(a, Cons(b, Cons(c, e)))
  <2>1. Then(<<a, b, c>>, e) = Cons(a, Cons(b, Cons(c, e)))
    BY ThreeFirst
  <2> QED BY <1>1, <2>1
<1>3. Then(u, e) = u
  BY <1>1, ThenProperties
<1> QED BY <1>1, <1>2, <1>3

-----------------------------------------------------------------------------
(* The fields of a request and of its answer, and what the readers wait    *)
(* for.                                                                    *)

Kinds     == {"header", "message", "op_size", "op", "size", "data"}
Fields(p) == [from : {p}, kind : Kinds, i : Nat, op : Operation]
Dues      == [kind : Kinds, i : Nat]

\* The fields of a request after its header.
Later(p) == [from : {p}, kind : Kinds \ {"header"}, i : Nat, op : Operation]

LEMMA LaterFields ==
  ASSUME NEW p
  PROVE  Later(p) \subseteq Fields(p) /\ Seq(Later(p)) \subseteq Seq(Fields(p))
<1>1. Later(p) \subseteq Fields(p)
  BY DEF Later, Fields
<1> QED BY <1>1, SeqMonotonic

LEMMA DueTyped ==
  ASSUME NEW kind \in Kinds, NEW i \in Nat
  PROVE  Due(kind, i) \in Dues /\ Due(kind, i).kind = kind /\ Due(kind, i).i = i
BY DEF Due, Dues

\* What there is of each parameter in a request and in an answer, and what the
\* two readers wait for.
RequestBlocks(p, o) ==
  [i \in 1..Len(o.param) |-> IF ToServer(o.param[i]) THEN <<Field(p, "data", i, o)>> ELSE <<>>]
DataBlocks(o) ==
  [i \in 1..Len(o.param) |-> IF ToServer(o.param[i]) THEN <<Due("data", i)>> ELSE <<>>]
ReplyBlocks(p, o) ==
  [i \in 1..Len(o.param) |->
    IF ~ToClient(o.param[i]) THEN <<>>
    ELSE IF o.param[i].full THEN <<Field(p, "size", i, o), Field(p, "data", i, o)>>
    ELSE <<Field(p, "size", i, o)>>]
SizeBlocks(o) ==
  [i \in 1..Len(o.param) |->
    IF ToClient(o.param[i]) /\ i <= Len(o.param) THEN <<Due("size", i)>> ELSE <<>>]

\* The operation as the server sends it back.
Returned(o) == [given |-> Len(o.param) > 0, param |-> o.param]

LEMMA OperationTyped ==
  ASSUME NEW o \in Operation
  PROVE  /\ o.param \in ParamList /\ Len(o.param) \in Nat /\ o.given \in BOOLEAN
         /\ Returned(o) \in Operation /\ Returned(o).param = o.param
         /\ Returned(o).given = (Len(o.param) > 0)
         /\ \A i \in 1..Len(o.param) : o.param[i] \in Param
<1>1. o.param \in ParamList /\ o.given \in BOOLEAN
  BY DEF Operation
<1>2. PICK n \in 0..MaxParams : o.param \in [1..n -> Param]
  BY <1>1 DEF ParamList
<1>3. n \in Nat
  BY CommAssumption
<1>4. Len(o.param) = n
  BY <1>2, <1>3
<1>5. \A i \in 1..Len(o.param) : o.param[i] \in Param
  BY <1>2, <1>4
<1> QED BY <1>1, <1>3, <1>4, <1>5 DEF Returned, Operation

LEMMA FieldTyped ==
  ASSUME NEW p, NEW kind \in Kinds, NEW i \in Nat, NEW o \in Operation
  PROVE  /\ Field(p, kind, i, o) \in Fields(p) /\ Field(p, kind, i, o).from = p
         /\ Field(p, kind, i, o).kind = kind /\ Field(p, kind, i, o).i = i
         /\ Field(p, kind, i, o).op = o
         /\ Due(kind, i) \in Dues /\ Due(kind, i).kind = kind /\ Due(kind, i).i = i
BY DEF Field, Fields, Due, Dues

LEMMA FieldsTyped ==
  ASSUME NEW p, NEW i \in Nat, NEW o \in Operation
  PROVE  \A kind \in Kinds :
           /\ Field(p, kind, i, o) \in Fields(p) /\ Field(p, kind, i, o).kind = kind
           /\ Field(p, kind, i, o).i = i /\ Field(p, kind, i, o).op = o
           /\ Due(kind, i) \in Dues /\ Due(kind, i).kind = kind /\ Due(kind, i).i = i
<1> SUFFICES ASSUME NEW kind \in Kinds
             PROVE  /\ Field(p, kind, i, o) \in Fields(p) /\ Field(p, kind, i, o).kind = kind
                    /\ Field(p, kind, i, o).i = i /\ Field(p, kind, i, o).op = o
                    /\ Due(kind, i) \in Dues /\ Due(kind, i).kind = kind /\ Due(kind, i).i = i
  OBVIOUS
<1> QED BY FieldTyped

LEMMA RequestBlocksTyped ==
  ASSUME NEW p, NEW o \in Operation
  PROVE  /\ RequestBlocks(p, o) \in Seq(Seq(Later(p))) /\ DataBlocks(o) \in Seq(Seq(Dues))
         /\ Len(RequestBlocks(p, o)) = Len(o.param) /\ Len(DataBlocks(o)) = Len(o.param)
         /\ \A i \in 1..Len(o.param) :
              /\ RequestBlocks(p, o)[i] = IF ToServer(o.param[i]) THEN <<Field(p, "data", i, o)>> ELSE <<>>
              /\ DataBlocks(o)[i] = IF ToServer(o.param[i]) THEN <<Due("data", i)>> ELSE <<>>
<1>1. PICK n \in Nat : n = Len(o.param)
  BY OperationTyped
<1>2. \A i \in 1..n : Field(p, "data", i, o) \in Later(p) /\ Due("data", i) \in Dues
  <2> TAKE i \in 1..n
  <2>1. i \in Nat /\ "data" \in Kinds \ {"header"} /\ "data" \in Kinds
    BY DEF Kinds
  <2> QED BY <2>1, FieldTyped DEF Field, Later
<1>3. \A i \in 1..n : <<Field(p, "data", i, o)>> \in Seq(Later(p)) /\ <<Due("data", i)>> \in Seq(Dues)
  BY <1>2
<1> DEFINE r == RequestBlocks(p, o)
           d == DataBlocks(o)
<1>4. \A i \in 1..n : r[i] = IF ToServer(o.param[i]) THEN <<Field(p, "data", i, o)>> ELSE <<>>
  BY <1>1 DEF RequestBlocks
<1>5. \A i \in 1..n : d[i] = IF ToServer(o.param[i]) THEN <<Due("data", i)>> ELSE <<>>
  BY <1>1 DEF DataBlocks
<1>6. r = [i \in 1..n |-> r[i]] /\ d = [i \in 1..n |-> d[i]]
  BY <1>1 DEF RequestBlocks, DataBlocks
<1> HIDE DEF r, d
<1>7. \A i \in 1..n : r[i] \in Seq(Later(p)) /\ d[i] \in Seq(Dues)
  <2> TAKE i \in 1..n
  <2>1. <<>> \in Seq(Later(p)) /\ <<>> \in Seq(Dues)
    BY EmptySeq
  <2>2. r[i] \in Seq(Later(p))
    BY <1>3, <1>4, <2>1
  <2>3. d[i] \in Seq(Dues)
    BY <1>3, <1>5, <2>1
  <2> QED BY <2>2, <2>3
<1>8. r \in Seq(Seq(Later(p))) /\ Len(r) = n
  BY <1>6, <1>7, IsASeq
<1>9. d \in Seq(Seq(Dues)) /\ Len(d) = n
  BY <1>6, <1>7, IsASeq
<1> QED BY <1>1, <1>4, <1>5, <1>8, <1>9 DEF r, d

LEMMA ReplyBlocksTyped ==
  ASSUME NEW p, NEW o \in Operation, NEW v, v = Returned(o)
  PROVE  /\ ReplyBlocks(p, v) \in Seq(Seq(Fields(p))) /\ SizeBlocks(o) \in Seq(Seq(Dues))
         /\ Len(ReplyBlocks(p, v)) = Len(o.param) /\ Len(SizeBlocks(o)) = Len(o.param)
         /\ \A i \in 1..Len(o.param) :
              /\ ReplyBlocks(p, v)[i] =
                   IF ~ToClient(o.param[i]) THEN <<>>
                   ELSE IF o.param[i].full THEN <<Field(p, "size", i, v), Field(p, "data", i, v)>>
                   ELSE <<Field(p, "size", i, v)>>
              /\ SizeBlocks(o)[i] = IF ToClient(o.param[i]) THEN <<Due("size", i)>> ELSE <<>>
<1>1. PICK n \in Nat : n = Len(o.param)
  BY OperationTyped
<1>2. v \in Operation /\ v.param = o.param
  BY OperationTyped
<1>3. \A i \in 1..n : /\ Field(p, "data", i, v) \in Fields(p) /\ Field(p, "size", i, v) \in Fields(p)
                      /\ Due("size", i) \in Dues
  <2> TAKE i \in 1..n
  <2>1. i \in Nat /\ "data" \in Kinds /\ "size" \in Kinds
    BY DEF Kinds
  <2> QED BY <1>2, <2>1, FieldTyped
<1>4. \A i \in 1..n : /\ <<Field(p, "size", i, v), Field(p, "data", i, v)>> \in Seq(Fields(p))
                      /\ <<Field(p, "size", i, v)>> \in Seq(Fields(p))
                      /\ <<Due("size", i)>> \in Seq(Dues)
  BY <1>3
<1> DEFINE r == ReplyBlocks(p, v)
           d == SizeBlocks(o)
<1>5. \A i \in 1..n : r[i] =
         IF ~ToClient(o.param[i]) THEN <<>>
         ELSE IF o.param[i].full THEN <<Field(p, "size", i, v), Field(p, "data", i, v)>>
         ELSE <<Field(p, "size", i, v)>>
  BY <1>2, <1>1 DEF ReplyBlocks
<1>6. \A i \in 1..n : d[i] = IF ToClient(o.param[i]) THEN <<Due("size", i)>> ELSE <<>>
  BY <1>1 DEF SizeBlocks
<1>7. r = [i \in 1..n |-> r[i]] /\ d = [i \in 1..n |-> d[i]]
  BY <1>2, <1>1 DEF ReplyBlocks, SizeBlocks
<1> HIDE DEF r, d
<1>8. \A i \in 1..n : r[i] \in Seq(Fields(p)) /\ d[i] \in Seq(Dues)
  <2> TAKE i \in 1..n
  <2>1. <<>> \in Seq(Fields(p)) /\ <<>> \in Seq(Dues)
    BY EmptySeq
  <2>2. r[i] \in Seq(Fields(p))
    BY <1>4, <1>5, <2>1
  <2>3. d[i] \in Seq(Dues)
    BY <1>4, <1>6, <2>1
  <2> QED BY <2>2, <2>3
<1>9. r \in Seq(Seq(Fields(p))) /\ Len(r) = n
  BY <1>7, <1>8, IsASeq
<1>10. d \in Seq(Seq(Dues)) /\ Len(d) = n
  BY <1>7, <1>8, IsASeq
<1> QED BY <1>1, <1>5, <1>6, <1>9, <1>10 DEF r, d

\* The streams s and d go on with the data of the m-th parameter.
DataNext(p, o, s, d, m) ==
  /\ s = Cons(Field(p, "data", m, o), From(RequestBlocks(p, o), m + 1))
  /\ d = Cons(Due("data", m), From(DataBlocks(o), m + 1))

\* The data of the next parameter that has any, on both sides.
LEMMA NextData ==
  ASSUME NEW p, NEW o \in Operation, NEW r, r = RequestBlocks(p, o), NEW d, d = DataBlocks(o),
         NEW k \in 1..(Len(o.param) + 1)
  PROVE  /\ From(r, k) \in Seq(Later(p)) /\ From(d, k) \in Seq(Dues)
         /\ \/ From(r, k) = <<>> /\ From(d, k) = <<>>
            \/ \E m \in 1..Len(o.param) : DataNext(p, o, From(r, k), From(d, k), m)
<1>1. /\ r \in Seq(Seq(Later(p))) /\ d \in Seq(Seq(Dues))
      /\ Len(r) = Len(o.param) /\ Len(d) = Len(o.param)
      /\ \A i \in 1..Len(o.param) :
           /\ r[i] = IF ToServer(o.param[i]) THEN <<Field(p, "data", i, o)>> ELSE <<>>
           /\ d[i] = IF ToServer(o.param[i]) THEN <<Due("data", i)>> ELSE <<>>
  BY RequestBlocksTyped
<1>2. Alike(r, d)
  <2>1. \A i \in 1..Len(r) : r[i] = <<>> <=> d[i] = <<>>
    <3> TAKE i \in 1..Len(r)
    <3>1. <<Field(p, "data", i, o)>> # <<>> /\ <<Due("data", i)>> # <<>>
      OBVIOUS
    <3> QED BY <1>1, <3>1
  <2> QED BY <1>1, <2>1 DEF Alike
<1>3. From(r, k) \in Seq(Later(p))
  BY <1>1, FromTyped
<1>4. From(d, k) \in Seq(Dues)
  BY <1>1, FromTyped
<1>5. k \in 1..(Len(r) + 1)
  BY <1>1
<1>6. CASE From(r, k) = <<>> /\ From(d, k) = <<>>
  BY <1>3, <1>4, <1>6
<1>7. CASE ~(From(r, k) = <<>> /\ From(d, k) = <<>>)
  <2>1. r \in Seq(Seq(Later(p))) /\ d \in Seq(Seq(Dues))
    BY <1>1
  <2>2. PICK m \in 1..Len(r) : FirstAt(r, d, k, m)
    BY <1>2, <1>5, <1>7, <2>1, NextBlock
  <2>3. /\ r[m] # <<>> /\ d[m] # <<>>
        /\ From(r, k) = Then(r[m], From(r, m + 1))
        /\ From(d, k) = Then(d[m], From(d, m + 1))
    BY <2>2 DEF FirstAt
  <2>4. /\ m \in 1..Len(o.param) /\ m \in Nat
        /\ "data" \in Kinds \ {"header"} /\ "data" \in Kinds
    BY <1>1 DEF Kinds
  <2>5. r[m] = <<Field(p, "data", m, o)>> /\ d[m] = <<Due("data", m)>>
    BY <1>1, <2>3, <2>4
  <2>6. PICK n : n = m + 1
    OBVIOUS
  <2>7. n \in 1..(Len(r) + 1) /\ n \in 1..(Len(d) + 1)
    BY <1>1, <2>4, <2>6
  <2>8. From(r, n) \in Seq(Later(p))
    BY <1>1, <2>7, FromTyped
  <2>9. From(d, n) \in Seq(Dues)
    BY <1>1, <2>7, FromTyped
  <2>10. Field(p, "data", m, o) \in Later(p) /\ Due("data", m) \in Dues
    BY <2>4, FieldTyped DEF Later, Fields
  <2>11. Then(r[m], From(r, n)) = Cons(Field(p, "data", m, o), From(r, n))
    BY <2>5, <2>8, <2>10, ConsProperties
  <2>12. Then(d[m], From(d, n)) = Cons(Due("data", m), From(d, n))
    BY <2>5, <2>9, <2>10, ConsProperties
  <2>13. DataNext(p, o, From(r, k), From(d, k), m)
    BY <2>3, <2>6, <2>11, <2>12 DEF DataNext
  <2> QED BY <1>3, <1>4, <2>4, <2>13
<1> QED BY <1>6, <1>7

\* The streams s and d go on with the m-th parameter.
SizeNext(p, o, s, d, m) ==
  LET v    == Returned(o)
      size == Field(p, "size", m, v)
      data == Field(p, "data", m, v)
      left == From(ReplyBlocks(p, v), m + 1)
  IN /\ s = IF o.param[m].full THEN Cons(size, Cons(data, left)) ELSE Cons(size, left)
     /\ d = Cons(Due("size", m), From(SizeBlocks(o), m + 1))

\* The next parameter that a TApp fills in, on both sides.
LEMMA NextSize ==
  ASSUME NEW p, NEW o \in Operation, NEW v, v = Returned(o),
         NEW r, r = ReplyBlocks(p, v), NEW d, d = SizeBlocks(o),
         NEW k \in 1..(Len(o.param) + 1)
  PROVE  /\ From(r, k) \in Seq(Fields(p)) /\ From(d, k) \in Seq(Dues)
         /\ \/ From(r, k) = <<>> /\ From(d, k) = <<>>
            \/ \E m \in 1..Len(o.param) : SizeNext(p, o, From(r, k), From(d, k), m)
<1>1. /\ r \in Seq(Seq(Fields(p))) /\ d \in Seq(Seq(Dues))
      /\ Len(r) = Len(o.param) /\ Len(d) = Len(o.param)
      /\ \A i \in 1..Len(o.param) :
           /\ r[i] = IF ~ToClient(o.param[i]) THEN <<>>
                     ELSE IF o.param[i].full THEN <<Field(p, "size", i, v), Field(p, "data", i, v)>>
                     ELSE <<Field(p, "size", i, v)>>
           /\ d[i] = IF ToClient(o.param[i]) THEN <<Due("size", i)>> ELSE <<>>
  BY ReplyBlocksTyped
<1>2. v \in Operation
  BY OperationTyped
<1>3. Alike(r, d)
  <2>1. \A i \in 1..Len(r) : r[i] = <<>> <=> d[i] = <<>>
    <3> TAKE i \in 1..Len(r)
    <3>1. /\ <<Field(p, "size", i, v), Field(p, "data", i, v)>> # <<>>
          /\ <<Field(p, "size", i, v)>> # <<>> /\ <<Due("size", i)>> # <<>>
      OBVIOUS
    <3> QED BY <1>1, <3>1
  <2> QED BY <1>1, <2>1 DEF Alike
<1>4. From(r, k) \in Seq(Fields(p))
  BY <1>1, FromTyped
<1>5. From(d, k) \in Seq(Dues)
  BY <1>1, FromTyped
<1>6. k \in 1..(Len(r) + 1)
  BY <1>1
<1>7. CASE From(r, k) = <<>> /\ From(d, k) = <<>>
  BY <1>4, <1>5, <1>7
<1>8. CASE ~(From(r, k) = <<>> /\ From(d, k) = <<>>)
  <2>1. r \in Seq(Seq(Fields(p))) /\ d \in Seq(Seq(Dues))
    BY <1>1
  <2>2. PICK m \in 1..Len(r) : FirstAt(r, d, k, m)
    BY <1>3, <1>6, <1>8, <2>1, NextBlock
  <2>3. /\ r[m] # <<>> /\ d[m] # <<>>
        /\ From(r, k) = Then(r[m], From(r, m + 1))
        /\ From(d, k) = Then(d[m], From(d, m + 1))
    BY <2>2 DEF FirstAt
  <2>4. m \in 1..Len(o.param) /\ m \in Nat /\ {"data", "size"} \subseteq Kinds
    BY <1>1 DEF Kinds
  <2>5. /\ r[m] = IF o.param[m].full THEN <<Field(p, "size", m, v), Field(p, "data", m, v)>>
                  ELSE <<Field(p, "size", m, v)>>
        /\ d[m] = <<Due("size", m)>>
    BY <1>1, <2>3, <2>4
  <2>6. PICK n : n = m + 1
    OBVIOUS
  <2>7. n \in 1..(Len(r) + 1) /\ n \in 1..(Len(d) + 1)
    BY <1>1, <2>4, <2>6
  <2>8. From(r, n) \in Seq(Fields(p))
    BY <1>1, <2>7, FromTyped
  <2>9. From(d, n) \in Seq(Dues)
    BY <1>1, <2>7, FromTyped
  <2>10. PICK x \in Fields(p), y \in Fields(p), z \in Dues :
           x = Field(p, "size", m, v) /\ y = Field(p, "data", m, v) /\ z = Due("size", m)
    BY <1>2, <2>4, FieldTyped
  <2>11. Then(<<x>>, From(r, n)) = Cons(x, From(r, n))
    BY <2>8, ConsProperties
  <2>12. Then(<<x, y>>, From(r, n)) = Cons(x, Cons(y, From(r, n)))
    BY <2>8, TwoFirst
  <2>13. Then(<<z>>, From(d, n)) = Cons(z, From(d, n))
    BY <2>9, ConsProperties
  <2>14. /\ IF o.param[m].full THEN From(r, k) = Cons(x, Cons(y, From(r, n)))
            ELSE From(r, k) = Cons(x, From(r, n))
         /\ From(d, k) = Cons(z, From(d, n))
    BY <2>3, <2>5, <2>6, <2>10, <2>11, <2>12, <2>13
  <2>15. SizeNext(p, o, From(r, k), From(d, k), m)
    BY <2>6, <2>10, <2>14 DEF SizeNext
  <2> QED BY <1>4, <1>5, <2>4, <2>15
<1> QED BY <1>7, <1>8

LEMMA NextDueIs ==
  ASSUME NEW f, NEW rest
  PROVE  /\ f.kind \in {"header", "message", "data"} => NextDue(f, rest) = rest
         /\ f.kind = "op_size" /\ f.op.given => NextDue(f, rest) = <<Due("op", 0)>>
         /\ f.kind = "op_size" /\ ~f.op.given => NextDue(f, rest) = rest
         /\ f.kind = "op" => NextDue(f, rest) = DataDue(f.op.param)
BY DEF NextDue

LEMMA DueAfterIs ==
  ASSUME NEW o, NEW f, NEW rest
  PROVE  /\ f.kind = "op_size" /\ f.op.given => DueAfter(o, f, rest) = <<Due("op", 0)>>
         /\ f.kind = "op_size" /\ ~f.op.given => DueAfter(o, f, rest) = rest
         /\ f.kind = "op" => DueAfter(o, f, rest) = SizesDue(o, Len(f.op.param))
BY DEF DueAfter

LEMMA DueAfterSame ==
  ASSUME NEW o, NEW f, NEW rest, f.kind \in {"header", "message", "data"}
  PROVE  DueAfter(o, f, rest) = rest
BY DEF DueAfter

LEMMA DueAfterSize ==
  ASSUME NEW o, NEW f, NEW rest, f.kind = "size"
  PROVE  DueAfter(o, f, rest) =
           IF f.op.param[f.i].full THEN Cons(Due("data", f.i), rest) ELSE rest
BY DEF DueAfter, Cons

\* x is the field at the head of the stream s, and y what its reader waits for.
AtHead(p, s, d, x, s1, y, d1) ==
  /\ s \in Seq(Fields(p)) /\ s # <<>> /\ Head(s) = x /\ Tail(s) = s1
  /\ d \in Seq(Dues) /\ d # <<>> /\ Head(d) = y /\ Tail(d) = d1
  /\ Fits(s, d)

LEMMA FirstField ==
  ASSUME NEW p, NEW x \in Fields(p), NEW s1 \in Seq(Fields(p)),
         NEW y \in Dues, NEW d1 \in Seq(Dues), x.kind = y.kind, x.i = y.i
  PROVE  AtHead(p, Cons(x, s1), Cons(y, d1), x, s1, y, d1)
<1>1. PICK s, d : s = Cons(x, s1) /\ d = Cons(y, d1)
  OBVIOUS
<1>2. s \in Seq(Fields(p)) /\ s # <<>> /\ Head(s) = x /\ Tail(s) = s1
  BY <1>1, ConsProperties
<1>3. d \in Seq(Dues) /\ d # <<>> /\ Head(d) = y /\ Tail(d) = d1
  BY <1>1, ConsProperties
<1>4. Fits(s, d)
  BY <1>2, <1>3 DEF Fits
<1> QED BY <1>1, <1>2, <1>3, <1>4 DEF AtHead

-----------------------------------------------------------------------------
(* A request, field by field.                                              *)

\* The operation and its data, if the request of o has them.
Rest(p, o) ==
  IF o.given THEN Cons(Field(p, "op", 0, o), From(RequestBlocks(p, o), 1)) ELSE <<>>

\* A server that is within the request: it waits for the fields d, has the
\* parameters params in its operation, and the fields s of the request of p
\* before it.
Begun(p, o, s, d, params) ==
  \/ /\ s = Cons(Field(p, "message", 0, o), Cons(Field(p, "op_size", 0, o), Rest(p, o)))
     /\ d = Cons(Due("message", 0), Cons(Due("op_size", 0), <<>>)) /\ params = <<>>
  \/ /\ s = Cons(Field(p, "op_size", 0, o), Rest(p, o))
     /\ d = Cons(Due("op_size", 0), <<>>) /\ params = <<>>
  \/ /\ o.given /\ s = Rest(p, o)
     /\ d = Cons(Due("op", 0), <<>>) /\ params = <<>>
  \/ /\ d # <<>> /\ params = o.param
     /\ \E k \in 1..(Len(o.param) + 1) :
          s = From(RequestBlocks(p, o), k) /\ d = From(DataBlocks(o), k)

\* The same from the start on.
Expects(p, o, s, d, params) ==
  \/ s = RequestFields(p, o) /\ d = RequestDue /\ params = <<>>
  \/ Begun(p, o, s, d, params)

LEMMA RequestTyped ==
  ASSUME NEW o \in Requests
  PROVE  o \in Operation /\ (~o.given => o.param = <<>>)
BY DEF Requests, NoOperation

LEMMA NoOperationTyped == NoOperation \in Requests
<1>1. <<>> \in [1..0 -> Param]
  <2>1. <<>> \in Seq(Param) /\ Len(<<>>) = 0
    BY EmptySeq
  <2> QED BY <2>1, LenProperties
<1>2. 0 \in 0..MaxParams
  BY CommAssumption
<1>3. <<>> \in ParamList
  BY <1>1, <1>2 DEF ParamList
<1> QED BY <1>3 DEF Requests, Operation, NoOperation

LEMMA DataIsFrom ==
  ASSUME NEW p, NEW o \in Operation
  PROVE  /\ RequestData(p, o) = From(RequestBlocks(p, o), 1)
         /\ DataDue(o.param) = From(DataBlocks(o), 1)
<1>1. RequestBlocks(p, o) \in Seq(Seq(Later(p))) /\ DataBlocks(o) \in Seq(Seq(Dues))
  BY RequestBlocksTyped
<1>2. From(RequestBlocks(p, o), 1) = FlattenSeq(RequestBlocks(p, o))
  BY <1>1, FromFirst
<1>3. From(DataBlocks(o), 1) = FlattenSeq(DataBlocks(o))
  BY <1>1, FromFirst
<1>4. RequestData(p, o) = FlattenSeq(RequestBlocks(p, o))
  BY DEF RequestData, RequestBlocks
<1>5. DataDue(o.param) = FlattenSeq(DataBlocks(o))
  BY DEF DataDue, DataBlocks
<1> QED BY <1>2, <1>3, <1>4, <1>5

LEMMA RestTyped ==
  ASSUME NEW p, NEW o \in Operation
  PROVE  Rest(p, o) \in Seq(Later(p)) /\ Rest(p, o) \in Seq(Fields(p))
<1>1. PICK n : n = Len(o.param)
  OBVIOUS
<1>2. n \in Nat /\ 1 \in 1..(n + 1)
  BY <1>1, OperationTyped
<1>3. From(RequestBlocks(p, o), 1) \in Seq(Later(p))
  BY <1>1, <1>2, NextData
<1>4. Field(p, "op", 0, o) \in Later(p)
  BY DEF Field, Later, Kinds
<1>5. Cons(Field(p, "op", 0, o), From(RequestBlocks(p, o), 1)) \in Seq(Later(p))
  BY <1>3, <1>4, ConsProperties
<1>6. Rest(p, o) \in Seq(Later(p))
  BY <1>5, EmptySeq DEF Rest
<1> QED BY <1>6, LaterFields

LEMMA RequestShape ==
  ASSUME NEW p, NEW o \in Operation
  PROVE  /\ RequestFields(p, o) =
              Cons(Field(p, "header", 0, o),
                   Cons(Field(p, "message", 0, o), Cons(Field(p, "op_size", 0, o), Rest(p, o))))
         /\ RequestDue =
              Cons(Due("header", 0), Cons(Due("message", 0), Cons(Due("op_size", 0), <<>>)))
<1>1. PICK x \in Fields(p), y \in Fields(p), z \in Fields(p), w \in Fields(p) :
        /\ x = Field(p, "header", 0, o) /\ y = Field(p, "message", 0, o)
        /\ z = Field(p, "op_size", 0, o) /\ w = Field(p, "op", 0, o)
  BY FieldTyped DEF Kinds
<1>2. PICK x1 \in Dues, y1 \in Dues, z1 \in Dues :
        x1 = Due("header", 0) /\ y1 = Due("message", 0) /\ z1 = Due("op_size", 0)
  BY FieldTyped DEF Kinds
<1>3. RequestDue = Cons(x1, Cons(y1, Cons(z1, <<>>)))
  <2>1. <<>> \in Seq(Dues)
    BY EmptySeq
  <2>2. <<x1, y1, z1>> = Cons(x1, Cons(y1, Cons(z1, <<>>)))
    BY OnlyThree
  <2> QED BY <1>2, <2>2 DEF RequestDue
<1>4. PICK t \in Seq(Fields(p)) : t = Rest(p, o)
  BY RestTyped
<1>5. t = IF o.given THEN <<w>> \o RequestData(p, o) ELSE <<>>
  BY <1>1, <1>4, DataIsFrom DEF Rest, Cons
<1>6. RequestFields(p, o) = Then(<<x, y, z>>, t)
  BY <1>1, <1>5 DEF RequestFields, Then
<1>7. Then(<<x, y, z>>, t) = Cons(x, Cons(y, Cons(z, t)))
  BY ThreeFirst
<1> QED BY <1>1, <1>2, <1>3, <1>4, <1>6, <1>7

LEMMA OneDue ==
  ASSUME NEW kind \in Kinds, NEW i \in Nat
  PROVE  <<Due(kind, i)>> = Cons(Due(kind, i), <<>>)
<1>1. Due(kind, i) \in Dues
  BY DueTyped
<1>2. <<>> \in Seq(Dues)
  BY EmptySeq
<1> QED BY <1>1, <1>2, OnlyOne

\* From the k-th parameter on.
LEMMA DataLeft ==
  ASSUME NEW p, NEW o \in Operation, NEW k \in 1..(Len(o.param) + 1)
  PROVE  LET s == From(RequestBlocks(p, o), k)
             d == From(DataBlocks(o), k)
         IN  \/ s = <<>> /\ d = <<>>
             \/ d # <<>> /\ Begun(p, o, s, d, o.param)
<1>1. PICK r, d : r = RequestBlocks(p, o) /\ d = DataBlocks(o)
  OBVIOUS
<1>2. CASE From(d, k) # <<>>
  BY <1>1, <1>2 DEF Begun
<1>3. CASE From(d, k) = <<>>
  <2>1. PICK n : n = Len(o.param)
    OBVIOUS
  <2>2. ASSUME NEW m \in 1..Len(o.param), From(d, k) = Cons(Due("data", m), From(d, m + 1))
        PROVE  FALSE
    <3>1. m \in Nat /\ m + 1 \in 1..(Len(o.param) + 1)
      BY OperationTyped
    <3>2. Due("data", m) \in Dues
      BY <3>1, FieldTyped DEF Kinds
    <3>3. PICK j \in 1..(Len(o.param) + 1) : j = m + 1
      BY <3>1
    <3>4. From(d, j) \in Seq(Dues)
      BY <1>1, NextData
    <3>5. Cons(Due("data", m), From(d, j)) # <<>>
      BY <3>2, <3>4, ConsProperties
    <3> QED BY <1>3, <2>2, <3>3, <3>5
  <2>3. From(r, k) = <<>>
    BY <1>1, <2>2, NextData DEF DataNext
  <2> QED BY <1>1, <1>3, <2>3
<1> QED BY <1>2, <1>3

\* Only the first field of a request is a header.
LEMMA RequestHeader ==
  ASSUME NEW p, NEW o \in Operation
  PROVE  /\ RequestFields(p, o) \in Seq(Fields(p)) /\ RequestFields(p, o) # <<>>
         /\ Tail(RequestFields(p, o)) \in Seq(Later(p))
         /\ RequestFields(p, o) \notin Seq(Later(p))
<1>1. PICK h \in Fields(p) : h = Field(p, "header", 0, o) /\ h.kind = "header"
  BY FieldTyped DEF Kinds
<1>2. PICK m \in Later(p), z \in Later(p) :
        m = Field(p, "message", 0, o) /\ z = Field(p, "op_size", 0, o)
  BY DEF Field, Later, Kinds
<1>3. PICK t \in Seq(Later(p)) : t = Rest(p, o)
  BY RestTyped
<1>4. PICK s \in Seq(Later(p)) : s = Cons(m, Cons(z, t))
  <2>1. Cons(z, t) \in Seq(Later(p))
    BY ConsProperties
  <2>2. Cons(m, Cons(z, t)) \in Seq(Later(p))
    BY <2>1, ConsProperties
  <2> QED BY <2>2
<1>5. s \in Seq(Fields(p))
  BY LaterFields
<1>6. RequestFields(p, o) = Cons(h, s)
  BY <1>1, <1>2, <1>3, <1>4, RequestShape
<1>7. /\ Cons(h, s) \in Seq(Fields(p)) /\ Cons(h, s) # <<>>
      /\ Head(Cons(h, s)) = h /\ Tail(Cons(h, s)) = s
  BY <1>5, ConsProperties
<1>8. ASSUME Cons(h, s) \in Seq(Later(p)) PROVE FALSE
  <2>1. Head(Cons(h, s)) \in Later(p)
    BY <1>7, <1>8, HeadTailProperties
  <2> QED BY <1>1, <1>7, <2>1 DEF Later
<1> QED BY <1>6, <1>7, <1>8

LEMMA BegunNotStart ==
  ASSUME NEW p, NEW o \in Operation, NEW s, NEW d, NEW params, Begun(p, o, s, d, params)
  PROVE  d # RequestDue
<1>1. PICK x \in Dues, t \in Seq(Dues) : x = Due("header", 0) /\ x.kind = "header" /\ RequestDue = Cons(x, t)
  <2>1. /\ Due("header", 0) \in Dues /\ Due("header", 0).kind = "header"
        /\ Due("message", 0) \in Dues /\ Due("op_size", 0) \in Dues
    BY DueTyped DEF Kinds
  <2>2. Cons(Due("op_size", 0), <<>>) \in Seq(Dues)
    BY <2>1, EmptySeq, ConsProperties
  <2>3. Cons(Due("message", 0), Cons(Due("op_size", 0), <<>>)) \in Seq(Dues)
    BY <2>1, <2>2, ConsProperties
  <2> QED BY <2>1, <2>3, RequestShape
<1>2. Head(RequestDue).kind = "header"
  BY <1>1, ConsProperties
<1>3. ASSUME NEW kind \in Kinds \ {"header"}, NEW i \in Nat, NEW u \in Seq(Dues), d = Cons(Due(kind, i), u)
      PROVE  d # RequestDue
  <2>1. Due(kind, i) \in Dues /\ Due(kind, i).kind = kind
    BY DueTyped
  <2>2. Head(d).kind = kind
    BY <1>3, <2>1, ConsProperties
  <2> QED BY <1>2, <2>2
<1>4. CASE d = Cons(Due("message", 0), Cons(Due("op_size", 0), <<>>))
  <2>1. Due("op_size", 0) \in Dues
    BY DueTyped DEF Kinds
  <2>2. Cons(Due("op_size", 0), <<>>) \in Seq(Dues)
    BY <2>1, EmptySeq, ConsProperties
  <2> QED BY <1>3, <1>4, <2>2 DEF Kinds
<1>5. CASE d = Cons(Due("op_size", 0), <<>>) \/ d = Cons(Due("op", 0), <<>>)
  <2>1. <<>> \in Seq(Dues)
    BY EmptySeq
  <2> QED BY <1>3, <1>5, <2>1 DEF Kinds
<1>6. CASE d # <<>> /\ \E k \in 1..(Len(o.param) + 1) : d = From(DataBlocks(o), k)
  <2>1. PICK k \in 1..(Len(o.param) + 1) : d = From(DataBlocks(o), k)
    BY <1>6
  <2>2. PICK m \in 1..Len(o.param) : DataNext(p, o, From(RequestBlocks(p, o), k), d, m)
    BY <1>6, <2>1, NextData
  <2>3. d = Cons(Due("data", m), From(DataBlocks(o), m + 1))
    BY <2>2 DEF DataNext
  <2>4. PICK j \in 1..(Len(o.param) + 1) : j = m + 1
    BY OperationTyped
  <2>5. From(DataBlocks(o), j) \in Seq(Dues)
    BY NextData
  <2> QED BY <1>3, <2>3, <2>4, <2>5 DEF Kinds
<1> QED BY <1>4, <1>5, <1>6 DEF Begun

\* The server gets the field it waits for; then it has the whole request and
\* waits for nothing, or it goes on.
Received(p, o, s, d, params) ==
  LET f     == Head(s)
      next  == NextDue(f, Tail(d))
      after == IF f.kind = "op" THEN f.op.param ELSE params
  IN /\ s \in Seq(Fields(p)) /\ s # <<>> /\ d \in Seq(Dues) /\ d # <<>> /\ Fits(s, d)
     /\ \/ next = <<>> /\ Tail(s) = <<>> /\ after = o.param
        \/ next # <<>> /\ Begun(p, o, Tail(s), next, after)

LEMMA ReceiveOne ==
  ASSUME NEW p, NEW o \in Requests, NEW s, NEW d, NEW params, Expects(p, o, s, d, params)
  PROVE  Received(p, o, s, d, params)
<1>1. PICK f, next, after : /\ f = Head(s) /\ next = NextDue(f, Tail(d))
                            /\ after = IF f.kind = "op" THEN f.op.param ELSE params
  OBVIOUS
<1>2. SUFFICES /\ s \in Seq(Fields(p)) /\ s # <<>> /\ d \in Seq(Dues) /\ d # <<>> /\ Fits(s, d)
               /\ \/ next = <<>> /\ Tail(s) = <<>> /\ after = o.param
                  \/ next # <<>> /\ Begun(p, o, Tail(s), next, after)
  BY <1>1 DEF Received
<1> USE <1>1
<1>3. o \in Operation /\ (~o.given => o.param = <<>>)
  BY RequestTyped
<1>4. PICK h \in Fields(p), m \in Fields(p), z \in Fields(p), w \in Fields(p) :
        /\ h = Field(p, "header", 0, o)  /\ h.kind = "header"  /\ h.i = 0
        /\ m = Field(p, "message", 0, o) /\ m.kind = "message" /\ m.i = 0
        /\ z = Field(p, "op_size", 0, o) /\ z.kind = "op_size" /\ z.i = 0 /\ z.op = o
        /\ w = Field(p, "op", 0, o)      /\ w.kind = "op"      /\ w.i = 0 /\ w.op = o
  <2>1. {"header", "message", "op_size", "op"} \subseteq Kinds /\ 0 \in Nat
    BY DEF Kinds
  <2>2. \A kind \in Kinds : /\ Field(p, kind, 0, o) \in Fields(p) /\ Field(p, kind, 0, o).kind = kind
                            /\ Field(p, kind, 0, o).i = 0 /\ Field(p, kind, 0, o).op = o
    BY <1>3, FieldTyped
  <2> QED BY <2>1, <2>2
<1>5. PICK hd \in Dues, md \in Dues, zd \in Dues, wd \in Dues :
        /\ hd = Due("header", 0)  /\ hd.kind = "header"  /\ hd.i = 0
        /\ md = Due("message", 0) /\ md.kind = "message" /\ md.i = 0
        /\ zd = Due("op_size", 0) /\ zd.kind = "op_size" /\ zd.i = 0
        /\ wd = Due("op", 0)      /\ wd.kind = "op"      /\ wd.i = 0
  BY DueTyped DEF Kinds
<1>6. PICK e \in Seq(Dues) : e = <<>>
  BY EmptySeq
<1>7. PICK t \in Seq(Fields(p)) : t = Rest(p, o)
  BY <1>3, RestTyped
<1>8. PICK s1 \in Seq(Fields(p)), s2 \in Seq(Fields(p)) : s1 = Cons(z, t) /\ s2 = Cons(m, s1)
  BY <1>7, ConsProperties
<1>9. PICK d1 \in Seq(Dues), d2 \in Seq(Dues), d3 \in Seq(Dues) :
        d1 = Cons(zd, e) /\ d2 = Cons(md, d1) /\ d3 = Cons(wd, e)
  BY <1>6, ConsProperties
<1>10. d1 # <<>> /\ d2 # <<>> /\ d3 # <<>>
  <2>1. Cons(zd, e) # <<>> /\ Cons(wd, e) # <<>>
    BY <1>6, ConsProperties
  <2>2. Cons(md, d1) # <<>>
    BY <1>9, ConsProperties
  <2> QED BY <1>9, <2>1, <2>2
<1>11. CASE s = RequestFields(p, o) /\ d = RequestDue /\ params = <<>>
  <2>1. s = Cons(h, s2) /\ d = Cons(hd, d2)
    BY <1>3, <1>4, <1>5, <1>6, <1>7, <1>8, <1>9, <1>11, RequestShape
  <2>2. AtHead(p, s, d, h, s2, hd, d2)
    BY <1>4, <1>5, <2>1, FirstField
  <2>3. /\ s \in Seq(Fields(p)) /\ s # <<>> /\ Head(s) = h /\ Tail(s) = s2
        /\ d \in Seq(Dues) /\ d # <<>> /\ Tail(d) = d2 /\ Fits(s, d)
    BY <2>2 DEF AtHead
  <2>4. next = d2 /\ after = params
    BY <1>4, <2>3, NextDueIs
  <2>5. Begun(p, o, s2, d2, params)
    BY <1>4, <1>5, <1>6, <1>7, <1>8, <1>9, <1>11 DEF Begun
  <2> QED BY <1>10, <2>3, <2>4, <2>5
<1>12. CASE s = s2 /\ d = d2 /\ params = <<>>
  <2>1. AtHead(p, s, d, m, s1, md, d1)
    BY <1>4, <1>5, <1>8, <1>9, <1>12, FirstField
  <2>2. /\ s \in Seq(Fields(p)) /\ s # <<>> /\ Head(s) = m /\ Tail(s) = s1
        /\ d \in Seq(Dues) /\ d # <<>> /\ Tail(d) = d1 /\ Fits(s, d)
    BY <2>1 DEF AtHead
  <2>3. next = d1 /\ after = params
    BY <1>4, <2>2, NextDueIs
  <2>4. Begun(p, o, s1, d1, params)
    BY <1>4, <1>5, <1>6, <1>7, <1>8, <1>9, <1>12 DEF Begun
  <2> QED BY <1>10, <2>2, <2>3, <2>4
<1>13. CASE s = s1 /\ d = d1 /\ params = <<>>
  <2>1. AtHead(p, s, d, z, t, zd, e)
    BY <1>4, <1>5, <1>8, <1>9, <1>13, FirstField
  <2>2. /\ s \in Seq(Fields(p)) /\ s # <<>> /\ Head(s) = z /\ Tail(s) = t
        /\ d \in Seq(Dues) /\ d # <<>> /\ Tail(d) = e /\ Fits(s, d)
    BY <2>1 DEF AtHead
  <2>3. CASE o.given
    <3>1. <<wd>> = d3
      BY <1>5, <1>6, <1>9, OnlyOne
    <3>2. next = d3 /\ after = params
      BY <1>4, <1>5, <2>2, <2>3, <3>1, NextDueIs
    <3>3. Begun(p, o, t, d3, params)
      BY <1>5, <1>6, <1>7, <1>9, <1>13, <2>3 DEF Begun
    <3> QED BY <1>10, <2>2, <3>2, <3>3
  <2>4. CASE ~o.given
    <3>1. next = e /\ after = params
      BY <1>4, <2>2, <2>4, NextDueIs
    <3>2. t = <<>> /\ o.param = <<>>
      BY <1>3, <1>7, <2>4 DEF Rest
    <3> QED BY <1>6, <1>13, <2>2, <3>1, <3>2
  <2> QED BY <2>3, <2>4
<1>14. CASE o.given /\ s = t /\ d = d3 /\ params = <<>>
  <2>1. 1 \in 1..(Len(o.param) + 1)
    BY <1>3, OperationTyped
  <2>2. PICK v \in Seq(Fields(p)) : v = From(RequestBlocks(p, o), 1)
    BY <1>3, <2>1, NextData, LaterFields
  <2>3. t = Cons(w, v)
    BY <1>4, <1>7, <1>14, <2>2 DEF Rest
  <2>4. AtHead(p, s, d, w, v, wd, e)
    <3>1. AtHead(p, Cons(w, v), Cons(wd, e), w, v, wd, e)
      BY <1>4, <1>5, <1>6, <2>2, FirstField
    <3> QED BY <1>9, <1>14, <2>3, <3>1
  <2>5. /\ s \in Seq(Fields(p)) /\ s # <<>> /\ Head(s) = w /\ Tail(s) = v
        /\ d \in Seq(Dues) /\ d # <<>> /\ Tail(d) = e /\ Fits(s, d)
    BY <2>4 DEF AtHead
  <2>6. next = DataDue(o.param) /\ after = o.param
    BY <1>4, <2>5, NextDueIs
  <2>7. next = From(DataBlocks(o), 1)
    BY <1>3, <2>6, DataIsFrom
  <2>8. \/ v = <<>> /\ next = <<>>
        \/ next # <<>> /\ Begun(p, o, v, next, o.param)
    BY <1>3, <2>1, <2>2, <2>7, DataLeft
  <2> QED BY <2>5, <2>6, <2>8
<1>15. CASE /\ d # <<>> /\ params = o.param
            /\ \E k \in 1..(Len(o.param) + 1) :
                 s = From(RequestBlocks(p, o), k) /\ d = From(DataBlocks(o), k)
  <2>1. PICK k \in 1..(Len(o.param) + 1) :
          s = From(RequestBlocks(p, o), k) /\ d = From(DataBlocks(o), k)
    BY <1>15
  <2>2. PICK i \in 1..Len(o.param) : DataNext(p, o, s, d, i)
    BY <1>3, <1>15, <2>1, NextData
  <2>3. /\ s = Cons(Field(p, "data", i, o), From(RequestBlocks(p, o), i + 1))
        /\ d = Cons(Due("data", i), From(DataBlocks(o), i + 1))
    BY <2>2 DEF DataNext
  <2>4. PICK j \in 1..(Len(o.param) + 1) : j = i + 1
    BY <1>3, OperationTyped
  <2>5. PICK v \in Seq(Fields(p)), u \in Seq(Dues) :
          v = From(RequestBlocks(p, o), j) /\ u = From(DataBlocks(o), j)
    BY <1>3, NextData, LaterFields
  <2>6. PICK x \in Fields(p), y \in Dues :
          /\ x = Field(p, "data", i, o) /\ x.kind = "data" /\ x.i = i
          /\ y = Due("data", i) /\ y.kind = "data" /\ y.i = i
    <3>1. i \in Nat /\ "data" \in Kinds
      BY DEF Kinds
    <3> QED BY <1>3, <3>1, FieldTyped
  <2>7. AtHead(p, s, d, x, v, y, u)
    BY <2>3, <2>4, <2>5, <2>6, FirstField
  <2>8. /\ s \in Seq(Fields(p)) /\ s # <<>> /\ Head(s) = x /\ Tail(s) = v
        /\ d \in Seq(Dues) /\ d # <<>> /\ Tail(d) = u /\ Fits(s, d)
    BY <2>7 DEF AtHead
  <2>9. next = u /\ after = o.param
    BY <1>15, <2>6, <2>8, NextDueIs
  <2>10. \/ v = <<>> /\ u = <<>>
         \/ u # <<>> /\ Begun(p, o, v, u, o.param)
    BY <1>3, <2>5, DataLeft
  <2> QED BY <2>8, <2>9, <2>10
<1>16. \/ s = RequestFields(p, o) /\ d = RequestDue /\ params = <<>>
       \/ s = s2 /\ d = d2 /\ params = <<>>
       \/ s = s1 /\ d = d1 /\ params = <<>>
       \/ o.given /\ s = t /\ d = d3 /\ params = <<>>
       \/ /\ d # <<>> /\ params = o.param
          /\ \E k \in 1..(Len(o.param) + 1) :
               s = From(RequestBlocks(p, o), k) /\ d = From(DataBlocks(o), k)
  BY <1>4, <1>5, <1>6, <1>7, <1>8, <1>9 DEF Expects, Begun
<1> QED BY <1>11, <1>12, <1>13, <1>14, <1>15, <1>16

-----------------------------------------------------------------------------
(* An answer, field by field.                                              *)

\* The parameters of an answer from the k-th on, or the contents of the i-th
\* and those.
SizesFrom(p, o, s, d, k) ==
  s = From(ReplyBlocks(p, Returned(o)), k) /\ d = From(SizeBlocks(o), k) /\ d # <<>>
DataThen(p, o, s, d, i, k) ==
  /\ s = Cons(Field(p, "data", i, Returned(o)), From(ReplyBlocks(p, Returned(o)), k))
  /\ d = Cons(Due("data", i), From(SizeBlocks(o), k))

\* What is left of the parameters of an answer.
ParamsLeft(p, o, s, d) ==
  \E k \in 1..(Len(o.param) + 1) :
    \/ SizesFrom(p, o, s, d, k)
    \/ \E i \in 1..Len(o.param) : DataThen(p, o, s, d, i, k)

\* Over TCP, the operation and its parameters, if the answer has them.
Tcp(p, o) ==
  IF Len(o.param) > 0
  THEN Cons(Field(p, "op", 0, Returned(o)), From(ReplyBlocks(p, Returned(o)), 1)) ELSE <<>>

\* What follows the message, and what the client waits for then; l: on Fiasco.
AfterMessage(l, p, o) ==
  IF l THEN From(ReplyBlocks(p, Returned(o)), 1)
  ELSE Cons(Field(p, "op_size", 0, Returned(o)), Tcp(p, o))
DueAfterMessage(l, o) == IF l THEN From(SizeBlocks(o), 1) ELSE Cons(Due("op_size", 0), <<>>)

\* The whole answer, and what the client waits for at its start.
ReplyStart(l, p, o) ==
  Cons(Field(p, "header", 0, Returned(o)),
       Cons(Field(p, "message", 0, Returned(o)), AfterMessage(l, p, o)))
ReplyStartDue(l, o) == Cons(Due("header", 0), Cons(Due("message", 0), DueAfterMessage(l, o)))

\* A client that waits for the fields d of the answer to o, and has the fields
\* s before it.
Answers(l, p, o, s, d) ==
  \/ s = ReplyStart(l, p, o) /\ d = ReplyStartDue(l, o)
  \/ /\ s = Cons(Field(p, "message", 0, Returned(o)), AfterMessage(l, p, o))
     /\ d = Cons(Due("message", 0), DueAfterMessage(l, o))
  \/ ~l /\ s = AfterMessage(l, p, o) /\ d = DueAfterMessage(l, o)
  \/ ~l /\ Len(o.param) > 0 /\ s = Tcp(p, o) /\ d = Cons(Due("op", 0), <<>>)
  \/ ParamsLeft(p, o, s, d)

LEMMA SizeIsFrom ==
  ASSUME NEW p, NEW o \in Operation
  PROVE  /\ ReplyData(p, Returned(o)) = From(ReplyBlocks(p, Returned(o)), 1)
         /\ SizesDue(o, Len(o.param)) = From(SizeBlocks(o), 1)
<1>1. ReplyBlocks(p, Returned(o)) \in Seq(Seq(Fields(p))) /\ SizeBlocks(o) \in Seq(Seq(Dues))
  BY ReplyBlocksTyped
<1>2. From(ReplyBlocks(p, Returned(o)), 1) = FlattenSeq(ReplyBlocks(p, Returned(o)))
  BY <1>1, FromFirst
<1>3. From(SizeBlocks(o), 1) = FlattenSeq(SizeBlocks(o))
  BY <1>1, FromFirst
<1>4. ReplyData(p, Returned(o)) = FlattenSeq(ReplyBlocks(p, Returned(o)))
  BY DEF ReplyData, ReplyBlocks
<1>5. SizesDue(o, Len(o.param)) = FlattenSeq(SizeBlocks(o))
  BY DEF SizesDue, SizeBlocks
<1> QED BY <1>2, <1>3, <1>4, <1>5

\* The contents and the sizes from the k-th parameter on are sequences.
LEMMA SizesTyped ==
  ASSUME NEW p, NEW o \in Operation, NEW k \in 1..(Len(o.param) + 1)
  PROVE  /\ From(ReplyBlocks(p, Returned(o)), k) \in Seq(Fields(p))
         /\ From(SizeBlocks(o), k) \in Seq(Dues)
BY NextSize

\* Both sides are at the end of the parameters, or neither is.
LEMMA SizesLeft ==
  ASSUME NEW p, NEW o \in Operation, NEW k \in 1..(Len(o.param) + 1),
         NEW s, s = From(ReplyBlocks(p, Returned(o)), k), NEW d, d = From(SizeBlocks(o), k)
  PROVE  \/ s = <<>> /\ d = <<>>
         \/ d # <<>> /\ ParamsLeft(p, o, s, d)
<1>1. CASE d # <<>>
  <2>1. SizesFrom(p, o, s, d, k)
    BY <1>1 DEF SizesFrom
  <2> QED BY <1>1, <2>1 DEF ParamsLeft
<1>2. CASE d = <<>>
  <2>1. ASSUME NEW m \in 1..Len(o.param), SizeNext(p, o, s, d, m)
        PROVE  FALSE
    <3>1. d = Cons(Due("size", m), From(SizeBlocks(o), m + 1))
      BY <2>1 DEF SizeNext
    <3>2. PICK j \in 1..(Len(o.param) + 1) : j = m + 1
      BY OperationTyped
    <3>3. From(SizeBlocks(o), j) \in Seq(Dues)
      BY SizesTyped
    <3>4. Due("size", m) \in Dues
      <4>1. m \in Nat /\ "size" \in Kinds
        BY DEF Kinds
      <4> QED BY <4>1, DueTyped
    <3> QED BY <1>2, <3>1, <3>2, <3>3, <3>4, ConsProperties
  <2>2. s = <<>>
    BY <2>1, NextSize
  <2> QED BY <1>2, <2>2
<1> QED BY <1>1, <1>2

LEMMA TcpTyped ==
  ASSUME NEW p, NEW o \in Operation, NEW l
  PROVE  /\ Tcp(p, o) \in Seq(Fields(p)) /\ AfterMessage(l, p, o) \in Seq(Fields(p))
         /\ DueAfterMessage(l, o) \in Seq(Dues)
<1>1. 1 \in 1..(Len(o.param) + 1) /\ Returned(o) \in Operation
  BY OperationTyped
<1>2. PICK r \in Seq(Fields(p)), d \in Seq(Dues) :
        r = From(ReplyBlocks(p, Returned(o)), 1) /\ d = From(SizeBlocks(o), 1)
  BY <1>1, SizesTyped
<1>3. PICK w \in Fields(p), z \in Fields(p) :
        w = Field(p, "op", 0, Returned(o)) /\ z = Field(p, "op_size", 0, Returned(o))
  <2>1. {"op", "op_size"} \subseteq Kinds /\ 0 \in Nat
    BY DEF Kinds
  <2>2. \A kind \in Kinds : Field(p, kind, 0, Returned(o)) \in Fields(p)
    BY <1>1, FieldTyped
  <2> QED BY <2>1, <2>2
<1>4. PICK t \in Seq(Fields(p)) : t = Tcp(p, o)
  <2>1. Cons(w, r) \in Seq(Fields(p)) /\ <<>> \in Seq(Fields(p))
    BY ConsProperties, EmptySeq
  <2> QED BY <1>2, <1>3, <2>1 DEF Tcp
<1>5. AfterMessage(l, p, o) \in Seq(Fields(p))
  <2>1. Cons(z, t) \in Seq(Fields(p))
    BY ConsProperties
  <2> QED BY <1>2, <1>3, <1>4, <2>1 DEF AfterMessage
<1>6. DueAfterMessage(l, o) \in Seq(Dues)
  <2>1. Due("op_size", 0) \in Dues /\ <<>> \in Seq(Dues)
    BY DueTyped, EmptySeq DEF Kinds
  <2>2. Cons(Due("op_size", 0), <<>>) \in Seq(Dues)
    BY <2>1, ConsProperties
  <2> QED BY <1>2, <2>2 DEF DueAfterMessage
<1> QED BY <1>4, <1>5, <1>6

LEMMA AnswerShape ==
  ASSUME NEW p, NEW o \in Operation, NEW v, v = Returned(o)
  PROVE  ReplyFields(p, o.param) = ReplyStart(locked, p, o) /\ ReplyDue(o) = ReplyStartDue(locked, o)
<1>1. v \in Operation /\ v.param = o.param /\ v.given = (Len(o.param) > 0)
  BY OperationTyped
<1>2. PICK h \in Fields(p), m \in Fields(p), z \in Fields(p), w \in Fields(p) :
        /\ h = Field(p, "header", 0, v) /\ m = Field(p, "message", 0, v)
        /\ z = Field(p, "op_size", 0, v) /\ w = Field(p, "op", 0, v)
  <2>1. {"header", "message", "op_size", "op"} \subseteq Kinds /\ 0 \in Nat
    BY DEF Kinds
  <2>2. \A kind \in Kinds : Field(p, kind, 0, v) \in Fields(p)
    BY <1>1, FieldTyped
  <2> QED BY <2>1, <2>2
<1>3. PICK hd \in Dues, md \in Dues, zd \in Dues :
        hd = Due("header", 0) /\ md = Due("message", 0) /\ zd = Due("op_size", 0)
  BY DueTyped DEF Kinds
<1>4. PICK a \in Seq(Fields(p)), b \in Seq(Dues), t \in Seq(Fields(p)) :
        a = AfterMessage(locked, p, o) /\ b = DueAfterMessage(locked, o) /\ t = Tcp(p, o)
  BY TcpTyped
<1>5. PICK r \in Seq(Fields(p)) : r = ReplyData(p, v) /\ r = From(ReplyBlocks(p, v), 1)
  <2>1. 1 \in 1..(Len(o.param) + 1)
    BY OperationTyped
  <2> QED BY <2>1, SizesTyped, SizeIsFrom
<1>6. PICK e \in Seq(Fields(p)), hm \in Seq(Fields(p)), zs \in Seq(Fields(p)), ws \in Seq(Fields(p)) :
        e = <<>> /\ hm = <<h, m>> /\ zs = <<z>> /\ ws = <<w>>
  <2>1. <<>> \in Seq(Fields(p)) /\ <<h, m>> \in Seq(Fields(p))
    OBVIOUS
  <2>2. <<z>> \in Seq(Fields(p)) /\ <<w>> \in Seq(Fields(p))
    OBVIOUS
  <2> QED BY <2>1, <2>2
<1>7. ReplyFields(p, o.param) =
        Then(Then(hm, IF locked THEN e ELSE Then(zs, IF v.given THEN ws ELSE e)), r)
  BY <1>2, <1>5, <1>6 DEF ReplyFields, Then, Returned
<1>8. Then(hm, a) = Cons(h, Cons(m, a))
  <2>1. Then(<<h, m>>, a) = Cons(h, Cons(m, a))
    BY TwoFirst
  <2> QED BY <1>6, <2>1
<1>9. ReplyFields(p, o.param) = Then(hm, a)
  <2>1. CASE locked
    <3>1. a = r
      BY <1>1, <1>4, <1>5, <2>1 DEF AfterMessage
    <3>2. Then(hm, e) = hm
      BY <1>6, ThenProperties
    <3> QED BY <1>7, <2>1, <3>1, <3>2
  <2>2. CASE ~locked /\ v.given
    <3>1. t = Cons(w, r) /\ a = Cons(z, t)
      BY <1>1, <1>2, <1>4, <1>5, <2>2 DEF AfterMessage, Tcp
    <3>2. t = Then(ws, r) /\ a = Then(zs, t)
      <4>1. Cons(w, r) = Then(ws, r) /\ Cons(z, t) = Then(zs, t)
        BY <1>6, ConsProperties
      <4> QED BY <3>1, <4>1
    <3>3. Then(zs, ws) \in Seq(Fields(p)) /\ Then(Then(zs, ws), r) = a
      BY <3>2, ThenProperties
    <3>4. PICK q \in Seq(Fields(p)) : q = Then(zs, ws)
      BY <3>3
    <3>5. Then(Then(hm, q), r) = Then(hm, Then(q, r))
      BY ThenProperties
    <3> QED BY <1>7, <2>2, <3>3, <3>4, <3>5
  <2>3. CASE ~locked /\ ~v.given
    <3>1. t = e /\ a = Cons(z, t)
      BY <1>1, <1>2, <1>4, <1>6, <2>3 DEF AfterMessage, Tcp
    <3>2. r = e
      <4>1. Len(o.param) = 0
        BY <1>1, <2>3, OperationTyped
      <4>2. ReplyBlocks(p, v) \in Seq(Seq(Fields(p))) /\ Len(ReplyBlocks(p, v)) = 0
        BY <4>1, ReplyBlocksTyped
      <4>3. 1 = Len(ReplyBlocks(p, v)) + 1
        BY <4>2
      <4> QED BY <1>5, <1>6, <4>2, <4>3, FromEnd
    <3>3. a = zs
      <4>1. Cons(z, e) = Then(zs, e) /\ Then(zs, e) = zs
        <5>1. Cons(z, e) = Then(zs, e)
          BY <1>6, ConsProperties
        <5>2. Then(zs, e) = zs
          BY <1>6, ThenProperties
        <5> QED BY <5>1, <5>2
      <4> QED BY <3>1, <4>1
    <3>4. Then(zs, e) = zs /\ Then(hm, zs) \in Seq(Fields(p))
      BY <1>6, ThenProperties
    <3>5. Then(Then(hm, zs), e) = Then(hm, zs)
      <4>1. PICK q \in Seq(Fields(p)) : q = Then(hm, zs)
        BY <3>4
      <4>2. Then(q, e) = q
        BY <1>6, ThenProperties
      <4> QED BY <4>1, <4>2
    <3> QED BY <1>7, <2>3, <3>2, <3>3, <3>4, <3>5
  <2> QED BY <2>1, <2>2, <2>3
<1>10. ReplyDue(o) = Then(<<hd, md>>, b)
  <2>1. CASE locked
    BY <1>3, <1>4, <2>1, SizeIsFrom DEF ReplyDue, DueAfterMessage, Then
  <2>2. CASE ~locked
    <3>1. b = <<zd>>
      <4>1. <<zd>> = Cons(zd, <<>>)
        BY OnlyOne
      <4> QED BY <1>3, <1>4, <2>2, <4>1 DEF DueAfterMessage
    <3> QED BY <1>3, <2>2, <3>1 DEF ReplyDue, Then
  <2> QED BY <2>1, <2>2
<1>11. Then(<<hd, md>>, b) = Cons(hd, Cons(md, b))
  BY TwoFirst
<1> QED BY <1>2, <1>3, <1>4, <1>8, <1>9, <1>10, <1>11 DEF ReplyStart, ReplyStartDue

\* The client gets the field it waits for; then it has the whole answer and
\* waits for nothing, or it goes on.
LEMMA AnswerOne ==
  ASSUME NEW p, NEW o \in Requests, NEW l, NEW s, NEW d, Answers(l, p, o, s, d),
         NEW next, next = DueAfter(o, Head(s), Tail(d))
  PROVE  /\ s \in Seq(Fields(p)) /\ s # <<>> /\ d \in Seq(Dues) /\ d # <<>> /\ Fits(s, d)
         /\ \/ next = <<>> /\ Tail(s) = <<>>
            \/ next # <<>> /\ Answers(l, p, o, Tail(s), next)
<1>1. o \in Operation
  BY RequestTyped
<1> DEFINE Goal == /\ s \in Seq(Fields(p)) /\ s # <<>> /\ d \in Seq(Dues) /\ d # <<>> /\ Fits(s, d)
                   /\ \/ next = <<>> /\ Tail(s) = <<>>
                      \/ next # <<>> /\ Answers(l, p, o, Tail(s), next)
<1>2. PICK v : v = Returned(o)
  OBVIOUS
<1>3. v \in Operation /\ v.param = o.param /\ v.given = (Len(o.param) > 0) /\ 1 \in 1..(Len(o.param) + 1)
  BY <1>2, <1>1, OperationTyped
<1>4. PICK h \in Fields(p), m \in Fields(p), z \in Fields(p), w \in Fields(p) :
        /\ h = Field(p, "header", 0, v)  /\ h.kind = "header"  /\ h.i = 0
        /\ m = Field(p, "message", 0, v) /\ m.kind = "message" /\ m.i = 0
        /\ z = Field(p, "op_size", 0, v) /\ z.kind = "op_size" /\ z.i = 0 /\ z.op = v
        /\ w = Field(p, "op", 0, v)      /\ w.kind = "op"      /\ w.i = 0 /\ w.op = v
  <2>1. {"header", "message", "op_size", "op"} \subseteq Kinds /\ 0 \in Nat
    BY DEF Kinds
  <2>2. \A kind \in Kinds : /\ Field(p, kind, 0, v) \in Fields(p) /\ Field(p, kind, 0, v).kind = kind
                            /\ Field(p, kind, 0, v).i = 0 /\ Field(p, kind, 0, v).op = v
    BY <1>3, FieldTyped
  <2> QED BY <2>1, <2>2
<1>5. PICK hd \in Dues, md \in Dues, zd \in Dues, wd \in Dues :
        /\ hd = Due("header", 0)  /\ hd.kind = "header"  /\ hd.i = 0
        /\ md = Due("message", 0) /\ md.kind = "message" /\ md.i = 0
        /\ zd = Due("op_size", 0) /\ zd.kind = "op_size" /\ zd.i = 0
        /\ wd = Due("op", 0)      /\ wd.kind = "op"      /\ wd.i = 0
  BY DueTyped DEF Kinds
<1>6. PICK e \in Seq(Dues) : e = <<>>
  BY EmptySeq
<1>7. PICK a \in Seq(Fields(p)), t \in Seq(Fields(p)), b \in Seq(Dues) :
        a = AfterMessage(l, p, o) /\ t = Tcp(p, o) /\ b = DueAfterMessage(l, o)
  BY <1>1, TcpTyped
<1>8. PICK r \in Seq(Fields(p)), c \in Seq(Dues) :
       r = From(ReplyBlocks(p, v), 1) /\ c = From(SizeBlocks(o), 1)
  BY <1>2, <1>1, <1>3, SizesTyped
<1>9. PICK s2 \in Seq(Fields(p)), d2 \in Seq(Dues), d3 \in Seq(Dues) :
        s2 = Cons(m, a) /\ d2 = Cons(md, b) /\ d3 = Cons(wd, e)
  BY <1>6, <1>7, ConsProperties
<1>10. d2 # <<>> /\ d3 # <<>>
  <2>1. Cons(wd, e) # <<>>
    BY <1>6, ConsProperties
  <2>2. Cons(md, b) # <<>>
    BY <1>7, ConsProperties
  <2> QED BY <1>9, <2>1, <2>2
<1>11. \/ r = <<>> /\ c = <<>>
       \/ c # <<>> /\ ParamsLeft(p, o, r, c)
  BY <1>2, <1>1, <1>3, <1>8, SizesLeft
<1>12. CASE s = ReplyStart(l, p, o) /\ d = ReplyStartDue(l, o)
  <2>1. s = Cons(h, s2) /\ d = Cons(hd, d2)
    BY <1>2, <1>1, <1>4, <1>5, <1>7, <1>9, <1>12 DEF ReplyStart, ReplyStartDue
  <2>2. AtHead(p, s, d, h, s2, hd, d2)
    BY <1>4, <1>5, <2>1, FirstField
  <2>3. /\ s \in Seq(Fields(p)) /\ s # <<>> /\ Head(s) = h /\ Tail(s) = s2
        /\ d \in Seq(Dues) /\ d # <<>> /\ Tail(d) = d2 /\ Fits(s, d)
    BY <2>2 DEF AtHead
  <2>4. next = d2
    <3>1. h.kind \in {"header", "message", "data"}
      BY <1>4
    <3>2. DueAfter(o, h, d2) = d2
      BY <3>1, DueAfterSame
    <3> QED BY <2>3, <3>2
  <2>5. Answers(l, p, o, s2, d2)
    BY <1>2, <1>4, <1>5, <1>7, <1>9 DEF Answers
  <2> QED BY <1>10, <2>3, <2>4, <2>5
<1>13. CASE s = s2 /\ d = d2
  <2>1. AtHead(p, s, d, m, a, md, b)
    BY <1>4, <1>5, <1>7, <1>9, <1>13, FirstField
  <2>2. /\ s \in Seq(Fields(p)) /\ s # <<>> /\ Head(s) = m /\ Tail(s) = a
        /\ d \in Seq(Dues) /\ d # <<>> /\ Tail(d) = b /\ Fits(s, d)
    BY <2>1 DEF AtHead
  <2>3. next = b
    <3>1. m.kind \in {"header", "message", "data"}
      BY <1>4
    <3>2. DueAfter(o, m, b) = b
      BY <3>1, DueAfterSame
    <3> QED BY <2>2, <3>2
  <2>4. CASE l
    <3>1. a = r /\ b = c
      BY <1>2, <1>7, <1>8, <2>4 DEF AfterMessage, DueAfterMessage
    <3>2. ParamsLeft(p, o, r, c) => Answers(l, p, o, r, c)
      BY DEF Answers
    <3> QED BY <1>11, <2>2, <2>3, <3>1, <3>2
  <2>5. CASE ~l
    <3>1. Answers(l, p, o, a, b)
      BY <1>7, <2>5 DEF Answers
    <3>2. b = Cons(zd, e)
      BY <1>5, <1>6, <1>7, <2>5 DEF DueAfterMessage
    <3>3. b # <<>>
      BY <1>5, <1>6, <3>2, ConsProperties
    <3> QED BY <2>2, <2>3, <3>1, <3>3
  <2> QED BY <2>4, <2>5
<1>14. CASE ~l /\ s = a /\ d = b
  <2>1. a = Cons(z, t) /\ b = Cons(zd, e)
    BY <1>2, <1>4, <1>5, <1>6, <1>7, <1>14 DEF AfterMessage, DueAfterMessage
  <2>2. AtHead(p, s, d, z, t, zd, e)
    BY <1>4, <1>5, <1>6, <1>7, <1>14, <2>1, FirstField
  <2>3. /\ s \in Seq(Fields(p)) /\ s # <<>> /\ Head(s) = z /\ Tail(s) = t
        /\ d \in Seq(Dues) /\ d # <<>> /\ Tail(d) = e /\ Fits(s, d)
    BY <2>2 DEF AtHead
  <2>4. CASE Len(o.param) > 0
    <3>1. <<wd>> = d3
      BY <1>5, <1>6, <1>9, OnlyOne
    <3>2. z.kind = "op_size" /\ z.op.given
      BY <1>4, <1>3, <2>4
    <3>3. next = d3
      BY <1>5, <2>3, <3>1, <3>2, DueAfterIs
    <3>4. Answers(l, p, o, t, d3)
      BY <1>5, <1>6, <1>7, <1>9, <1>14, <2>4 DEF Answers
    <3> QED BY <1>10, <2>3, <3>3, <3>4
  <2>5. CASE ~(Len(o.param) > 0)
    <3>1. z.kind = "op_size" /\ ~z.op.given
      BY <1>4, <1>3, <2>5
    <3>2. next = e
      BY <2>3, <3>1, DueAfterIs
    <3>3. t = <<>>
      BY <1>7, <2>5 DEF Tcp
    <3> QED BY <1>6, <2>3, <3>2, <3>3
  <2> QED BY <2>4, <2>5
<1>15. CASE ~l /\ Len(o.param) > 0 /\ s = t /\ d = d3
  <2>1. t = Cons(w, r)
    BY <1>2, <1>4, <1>7, <1>15, <1>8 DEF Tcp
  <2>2. AtHead(p, s, d, w, r, wd, e)
    <3>1. AtHead(p, Cons(w, r), Cons(wd, e), w, r, wd, e)
      BY <1>4, <1>5, <1>6, <1>8, FirstField
    <3> QED BY <1>9, <1>15, <2>1, <3>1
  <2>3. /\ s \in Seq(Fields(p)) /\ s # <<>> /\ Head(s) = w /\ Tail(s) = r
        /\ d \in Seq(Dues) /\ d # <<>> /\ Tail(d) = e /\ Fits(s, d)
    BY <2>2 DEF AtHead
  <2>4. next = SizesDue(o, Len(o.param))
    <3>1. DueAfter(o, w, e) = SizesDue(o, Len(w.op.param))
      BY <1>4, DueAfterIs
    <3>2. w.op.param = o.param
      BY <1>3, <1>4
    <3> QED BY <2>3, <3>1, <3>2
  <2>5. next = c
    BY <1>1, <1>8, <2>4, SizeIsFrom
  <2>6. ParamsLeft(p, o, r, c) => Answers(l, p, o, r, c)
    BY DEF Answers
  <2> QED BY <1>11, <2>3, <2>5, <2>6
<1>16. ASSUME NEW k \in 1..(Len(o.param) + 1), SizesFrom(p, o, s, d, k)
       PROVE  Goal
  <2>1. s = From(ReplyBlocks(p, v), k) /\ d = From(SizeBlocks(o), k) /\ d # <<>>
    BY <1>2, <1>16 DEF SizesFrom
  <2>2. PICK i \in 1..Len(o.param) : SizeNext(p, o, s, d, i)
    BY <1>2, <1>1, <2>1, NextSize
  <2>3. PICK j \in 1..(Len(o.param) + 1) : j = i + 1
    BY <1>1, OperationTyped
  <2>4. PICK q \in Seq(Fields(p)), u \in Seq(Dues) :
          q = From(ReplyBlocks(p, v), j) /\ u = From(SizeBlocks(o), j)
    BY <1>2, <1>1, SizesTyped
  <2>5. PICK x \in Fields(p), y \in Fields(p), xd \in Dues, yd \in Dues :
          /\ x = Field(p, "size", i, v) /\ x.kind = "size" /\ x.i = i /\ x.op = v
          /\ y = Field(p, "data", i, v)
          /\ xd = Due("size", i) /\ xd.kind = "size" /\ xd.i = i
          /\ yd = Due("data", i)
    <3>1. i \in Nat /\ "data" \in Kinds /\ "size" \in Kinds
      BY DEF Kinds
    <3>2. \A kind \in Kinds :
            /\ Field(p, kind, i, v) \in Fields(p) /\ Field(p, kind, i, v).kind = kind
            /\ Field(p, kind, i, v).i = i /\ Field(p, kind, i, v).op = v
            /\ Due(kind, i) \in Dues /\ Due(kind, i).kind = kind /\ Due(kind, i).i = i
      <4>1. v \in Operation /\ i \in Nat
        BY <1>3, <3>1
      <4> QED BY ONLY <4>1, FieldsTyped
    <3> QED BY <3>1, <3>2
  <2>6. /\ s = IF o.param[i].full THEN Cons(x, Cons(y, q)) ELSE Cons(x, q)
        /\ d = Cons(xd, u)
    BY <1>2, <2>2, <2>3, <2>4, <2>5 DEF SizeNext
  <2>7. x.op.param[x.i] = o.param[i]
    BY <1>3, <2>5
  <2>8. CASE o.param[i].full
    <3>1. PICK yq \in Seq(Fields(p)), yu \in Seq(Dues) : yq = Cons(y, q) /\ yu = Cons(yd, u) /\ yu # <<>>
      <4>1. Cons(y, q) \in Seq(Fields(p))
        BY <2>4, <2>5, ConsProperties
      <4>2. Cons(yd, u) \in Seq(Dues) /\ Cons(yd, u) # <<>>
        BY <2>4, <2>5, ConsProperties
      <4> QED BY <4>1, <4>2
    <3>2. s = Cons(x, yq)
      BY <2>6, <2>8, <3>1
    <3>3. AtHead(p, s, d, x, yq, xd, u)
      <4>1. AtHead(p, Cons(x, yq), Cons(xd, u), x, yq, xd, u)
        BY <2>4, <2>5, <3>1, FirstField
      <4> QED BY <2>6, <3>2, <4>1
    <3>4. /\ s \in Seq(Fields(p)) /\ s # <<>> /\ Head(s) = x /\ Tail(s) = yq
          /\ d \in Seq(Dues) /\ d # <<>> /\ Tail(d) = u /\ Fits(s, d)
      BY <3>3 DEF AtHead
    <3>5. next = yu
      <4>1. DueAfter(o, x, u) = Cons(Due("data", x.i), u)
        <5>1. x.kind = "size"
          BY <2>5
        <5>2. DueAfter(o, x, u) = IF x.op.param[x.i].full THEN Cons(Due("data", x.i), u) ELSE u
          BY <5>1, DueAfterSize
        <5> QED BY <2>7, <2>8, <5>2
      <4> QED BY <2>5, <3>1, <3>4, <4>1
    <3>6. DataThen(p, o, yq, yu, i, j)
      BY <1>2, <2>4, <2>5, <3>1 DEF DataThen
    <3>7. Answers(l, p, o, yq, yu)
      BY <2>3, <3>6 DEF Answers, ParamsLeft
    <3> QED BY <3>1, <3>4, <3>5, <3>7
  <2>9. CASE ~o.param[i].full
    <3>1. AtHead(p, s, d, x, q, xd, u)
      <4>1. AtHead(p, Cons(x, q), Cons(xd, u), x, q, xd, u)
        BY <2>4, <2>5, FirstField
      <4> QED BY <2>6, <2>9, <4>1
    <3>2. /\ s \in Seq(Fields(p)) /\ s # <<>> /\ Head(s) = x /\ Tail(s) = q
          /\ d \in Seq(Dues) /\ d # <<>> /\ Tail(d) = u /\ Fits(s, d)
      BY <3>1 DEF AtHead
    <3>3. next = u
      BY <2>5, <2>7, <2>9, <3>2, DueAfterSize
    <3>4. \/ q = <<>> /\ u = <<>>
          \/ u # <<>> /\ ParamsLeft(p, o, q, u)
      BY <1>2, <1>1, <2>4, SizesLeft
    <3>5. ParamsLeft(p, o, q, u) => Answers(l, p, o, q, u)
      BY DEF Answers
    <3> QED BY <3>2, <3>3, <3>4, <3>5
  <2> QED BY <2>8, <2>9
<1>17. ASSUME NEW k \in 1..(Len(o.param) + 1), NEW i \in 1..Len(o.param), DataThen(p, o, s, d, i, k)
       PROVE  Goal
  <2>1. PICK q \in Seq(Fields(p)), u \in Seq(Dues) :
          q = From(ReplyBlocks(p, v), k) /\ u = From(SizeBlocks(o), k)
    BY <1>2, <1>1, SizesTyped
  <2>2. PICK y \in Fields(p), yd \in Dues :
          /\ y = Field(p, "data", i, v) /\ y.kind = "data" /\ y.i = i
          /\ yd = Due("data", i) /\ yd.kind = "data" /\ yd.i = i
    <3>1. i \in Nat /\ "data" \in Kinds
      BY DEF Kinds
    <3>2. \A kind \in Kinds :
            /\ Field(p, kind, i, v) \in Fields(p) /\ Field(p, kind, i, v).kind = kind
            /\ Field(p, kind, i, v).i = i /\ Field(p, kind, i, v).op = v
            /\ Due(kind, i) \in Dues /\ Due(kind, i).kind = kind /\ Due(kind, i).i = i
      <4>1. v \in Operation /\ i \in Nat
        BY <1>3, <3>1
      <4> QED BY ONLY <4>1, FieldsTyped
    <3> QED BY <3>1, <3>2
  <2>3. AtHead(p, s, d, y, q, yd, u)
    <3>1. AtHead(p, Cons(y, q), Cons(yd, u), y, q, yd, u)
      BY <2>1, <2>2, FirstField
    <3>2. s = Cons(y, q) /\ d = Cons(yd, u)
      BY <1>2, <1>17, <2>1, <2>2 DEF DataThen
    <3> QED BY <3>1, <3>2
  <2>4. /\ s \in Seq(Fields(p)) /\ s # <<>> /\ Head(s) = y /\ Tail(s) = q
        /\ d \in Seq(Dues) /\ d # <<>> /\ Tail(d) = u /\ Fits(s, d)
    BY <2>3 DEF AtHead
  <2>5. next = u
    <3>1. y.kind \in {"header", "message", "data"}
      BY <2>2
    <3>2. DueAfter(o, y, u) = u
      BY <3>1, DueAfterSame
    <3> QED BY <2>4, <3>2
  <2>6. \/ q = <<>> /\ u = <<>>
        \/ u # <<>> /\ ParamsLeft(p, o, q, u)
    BY <1>2, <1>1, <2>1, SizesLeft
  <2>7. ParamsLeft(p, o, q, u) => Answers(l, p, o, q, u)
    BY DEF Answers
  <2> QED BY <2>4, <2>5, <2>6, <2>7
<1>18. CASE ParamsLeft(p, o, s, d)
  BY <1>16, <1>17, <1>18 DEF ParamsLeft
<1>19. \/ s = ReplyStart(l, p, o) /\ d = ReplyStartDue(l, o)
       \/ s = s2 /\ d = d2
       \/ ~l /\ s = a /\ d = b
       \/ ~l /\ Len(o.param) > 0 /\ s = t /\ d = d3
       \/ ParamsLeft(p, o, s, d)
  BY <1>2, <1>4, <1>5, <1>6, <1>7, <1>9 DEF Answers
<1> QED BY <1>12, <1>13, <1>14, <1>15, <1>18, <1>19

-----------------------------------------------------------------------------
(* Streams.                                                                *)

LEMMA Moved ==
  ASSUME NEW X, NEW s \in Seq(X), NEW t \in Seq(X), t # <<>>
  PROVE  /\ Append(s, Head(t)) \in Seq(X) /\ Append(s, Head(t)) # <<>> /\ Tail(t) \in Seq(X)
         /\ Then(Append(s, Head(t)), Tail(t)) = Then(s, t)
<1>1. PICK x \in X, u \in Seq(X) : x = Head(t) /\ u = Tail(t)
  BY HeadTailProperties
<1>2. t = Cons(x, u)
  <2>1. PICK c : c = Cons(x, u)
    OBVIOUS
  <2>2. /\ c \in Seq(X) /\ c # <<>> /\ Head(c) = x /\ Tail(c) = u
    BY <2>1, ConsProperties
  <2>3. t \in Seq(X) /\ t # <<>> /\ Head(t) = x /\ Tail(t) = u
    BY <1>1
  <2>4. Len(u) = Len(t) - 1 /\ \A i \in 1..Len(u) : u[i] = t[i + 1]
    BY <1>1, HeadTailProperties
  <2>5. Len(u) = Len(c) - 1 /\ \A i \in 1..Len(u) : u[i] = c[i + 1]
    BY <2>2, HeadTailProperties
  <2>6. Len(t) \in Nat \ {0} /\ Len(c) \in Nat \ {0}
    BY <2>2, EmptySeq
  <2>7. Len(t) = Len(c)
    BY <2>4, <2>5, <2>6
  <2>8. t[1] = x /\ c[1] = x
    BY <2>2, <2>3
  <2>9. ASSUME NEW i \in 1..Len(t) PROVE t[i] = c[i]
    <3>1. CASE i = 1
      BY <2>8, <3>1
    <3>2. CASE i # 1
      <4>1. i - 1 \in 1..Len(u) /\ (i - 1) + 1 = i
        BY <2>4, <2>6, <3>2
      <4> QED BY <2>4, <2>5, <4>1
    <3> QED BY <3>1, <3>2
  <2>10. t = c
    BY <2>2, <2>7, <2>9, SeqEqual
  <2> QED BY <2>1, <2>10
<1>3. PICK w \in Seq(X) : w = <<x>>
  <2>1. <<x>> \in Seq(X)
    OBVIOUS
  <2> QED BY <2>1
<1>4. Append(s, x) = Then(s, w)
  <2>1. Append(s, x) = s \o <<x>>
    BY AppendIsConcat
  <2> QED BY <1>3, <2>1 DEF Then
<1>5. Append(s, x) \in Seq(X) /\ Append(s, x) # <<>>
  BY AppendProperties
<1>6. Then(w, u) = t
  <2>1. Cons(x, u) = Then(w, u)
    BY <1>3, ConsProperties
  <2> QED BY <1>2, <2>1
<1>7. Then(Then(s, w), u) = Then(s, Then(w, u))
  BY ThenProperties
<1> QED BY <1>1, <1>4, <1>5, <1>6, <1>7

LEMMA Taken ==
  ASSUME NEW X, NEW s \in Seq(X), NEW t \in Seq(X)
  PROVE  /\ s # <<>> => /\ Head(s) \in X /\ Tail(s) \in Seq(X)
                        /\ Then(s, t) # <<>> /\ Head(Then(s, t)) = Head(s)
                        /\ Tail(Then(s, t)) = Then(Tail(s), t)
         /\ Then(s, t) = <<>> => s = <<>> /\ t = <<>>
<1>1. ASSUME s # <<>>
      PROVE  /\ Head(s) \in X /\ Tail(s) \in Seq(X)
             /\ Then(s, t) # <<>> /\ Head(Then(s, t)) = Head(s)
             /\ Tail(Then(s, t)) = Then(Tail(s), t)
  <2>1. PICK x \in X, u \in Seq(X) : x = Head(s) /\ u = Tail(s)
    BY <1>1, HeadTailProperties
  <2>2. PICK e \in Seq(X) : e = <<>>
    BY EmptySeq
  <2>3. Then(Append(e, x), u) = s
    <3>1. Then(Append(e, x), u) = Then(e, s)
      BY <1>1, <2>1, Moved
    <3>2. Then(e, s) = s
      BY <2>2, ThenProperties
    <3> QED BY <3>1, <3>2
  <2>4. Append(e, x) = <<x>>
    BY <2>2
  <2>5. s = Cons(x, u)
    <3>1. Cons(x, u) = Then(<<x>>, u)
      BY ConsProperties
    <3> QED BY <2>3, <2>4, <3>1
  <2>6. Cons(x, Then(u, t)) = Then(s, t)
    BY <2>5, ConsThen
  <2>7. Then(u, t) \in Seq(X)
    BY ThenProperties
  <2>8. PICK v \in Seq(X) : v = Then(u, t)
    BY <2>7
  <2>9. Cons(x, v) # <<>> /\ Head(Cons(x, v)) = x /\ Tail(Cons(x, v)) = v
    BY ConsProperties
  <2> QED BY <2>1, <2>6, <2>8, <2>9
<1>2. ASSUME Then(s, t) = <<>> PROVE s = <<>> /\ t = <<>>
  <2>1. s = <<>>
    BY <1>1, <1>2
  <2>2. Then(<<>>, t) = t
    BY ThenProperties
  <2> QED BY <1>2, <2>1, <2>2
<1> QED BY <1>1, <1>2

LEMMA LastOne ==
  ASSUME NEW X, NEW t \in Seq(X), t # <<>>
  PROVE  Len(t) \in Nat \ {0} /\ (Len(t) = 1 <=> Tail(t) = <<>>)
<1>1. Len(t) \in Nat \ {0}
  BY EmptySeq
<1>2. Tail(t) \in Seq(X) /\ Len(Tail(t)) = Len(t) - 1
  BY HeadTailProperties
<1>3. Tail(t) = <<>> <=> Len(Tail(t)) = 0
  BY <1>2, EmptySeq
<1> QED BY <1>1, <1>2, <1>3

-----------------------------------------------------------------------------
(* The invariant.                                                          *)

Typed ==
  /\ locked \in BOOLEAN
  /\ at  \in [Client -> {"idle", "wait", "write", "read", "gone"}]
  /\ op  \in [Client -> Requests]
  /\ out \in [Client -> UNION {Seq(Fields(p)) : p \in Client}]
  /\ due \in [Client -> Seq(Dues)]
  /\ \A p \in Client : /\ out[p] \in Seq(Fields(p))
                       /\ at[p] = "write" <=> out[p] # <<>>

\* Who is in an exchange.
Alone ==
  /\ locked => \A p \in Client : Busy(p) <=> lock = p
  /\ ~locked => /\ lock = "nobody"
                /\ \E p \in Client : \A q \in Client \ {p} : at[q] = "gone"

AllGone == ~locked /\ \A p \in Client : at[p] = "gone"

\* The exchange that is under way is that of p; over TCP p may be gone.
Engaged(p) == Busy(p) \/ AllGone

Resting ==
  /\ \A p \in Client : ~Busy(p)
  /\ req = <<>> /\ rep = <<>> /\ sout = <<>>
  /\ sat = "recv" /\ sdue = RequestDue /\ sparam = <<>>

\* The fields rest are still to write.
Asking(p, o, rest) ==
  /\ Engaged(p)
  /\ Busy(p) => op[p] = o /\ due[p] = ReplyStartDue(locked, o) /\ out[p] = rest
  /\ rep = <<>> /\ sout = <<>> /\ sat = "recv"
  /\ req \in Seq(Fields(p)) /\ rest \in Seq(Fields(p))
  /\ Expects(p, o, Then(req, rest), sdue, sparam)
  /\ \/ rest \in Seq(Later(p))
     \/ req = <<>> /\ sdue = RequestDue /\ sparam = <<>> /\ rest = RequestFields(p, o)

Handling(p, o) ==
  /\ Engaged(p)
  /\ Busy(p) => at[p] = "read" /\ op[p] = o /\ due[p] = ReplyStartDue(locked, o)
  /\ req = <<>> /\ rep = <<>> /\ sout = <<>>
  /\ sat = "handle" /\ sparam = o.param /\ speer = p

Answering(p, o) ==
  /\ Engaged(p)
  /\ Busy(p) => at[p] = "read" /\ op[p] = o /\ Answers(locked, p, o, Then(rep, sout), due[p])
  /\ req = <<>> /\ rep \in Seq(Fields(p)) /\ sout \in Seq(Fields(p))
  /\ \/ sat = "send" /\ sout # <<>>
     \/ sat = "recv" /\ sout = <<>> /\ sdue = RequestDue /\ sparam = <<>>

\* The server's loop has ended, over TCP at any time and on Fiasco within an
\* exchange.
Stopped(p) ==
  /\ sat = "ended"
  /\ rep = <<>> \/ AllGone
  /\ req \in Seq(Fields(p))
  /\ locked => Busy(p) /\ out[p] \in Seq(Later(p))
  /\ ~locked => \A q \in Client \ {p} : at[q] = "gone"

Exchanging ==
  \/ Resting
  \/ \E p \in Client : Stopped(p)
  \/ \E p \in Client, o \in Requests : \E rest \in Seq(Fields(p)) : Asking(p, o, rest)
  \/ \E p \in Client, o \in Requests : Handling(p, o) \/ Answering(p, o)

IInv == Typed /\ Alone /\ Exchanging /\ BuffersFreed

LEMMA NowAsking ==
  ASSUME NEW p \in Client, NEW o \in Requests, NEW rest \in Seq(Fields(p)), Asking(p, o, rest)'
  PROVE  Exchanging'
BY DEF Exchanging

LEMMA NowHandling ==
  ASSUME NEW p \in Client, NEW o \in Requests, Handling(p, o)' \/ Answering(p, o)'
  PROVE  Exchanging'
BY DEF Exchanging

LEMMA NowStopped ==
  ASSUME NEW p \in Client, Stopped(p)'
  PROVE  Exchanging'
BY DEF Exchanging

-----------------------------------------------------------------------------
(* What the steps of the clients that no exchange is about leave as it is. *)

LEMMA SameProcess ==
  ASSUME Alone, NEW p \in Client, Busy(p), NEW q \in Client, Engaged(q)
  PROVE  p = q /\ Busy(q)
<1>1. ~AllGone
  BY DEF Busy, AllGone
<1>2. Busy(q)
  BY <1>1 DEF Engaged
<1>3. CASE locked
  BY <1>2, <1>3 DEF Alone
<1>4. CASE ~locked
  <2>1. at[p] # "gone" /\ at[q] # "gone"
    BY <1>2 DEF Busy
  <2>2. PICK r \in Client : \A x \in Client \ {r} : at[x] = "gone"
    BY <1>4 DEF Alone
  <2>3. p = r /\ q = r
    BY <2>1, <2>2
  <2> QED BY <1>2, <2>3
<1>5. locked \/ ~locked
  OBVIOUS
<1> QED BY <1>3, <1>4, <1>5

\* Over TCP, who is not gone is the only one.
LEMMA OthersGone ==
  ASSUME Alone, ~locked, NEW p \in Client, at[p] # "gone"
  PROVE  \A q \in Client \ {p} : at[q] = "gone"
<1>1. PICK r \in Client : \A x \in Client \ {r} : at[x] = "gone"
  BY DEF Alone
<1>2. p = r
  BY <1>1
<1> QED BY <1>1, <1>2

LEMMA Frame ==
  ASSUME Exchanging, locked' = locked, UNCHANGED <<req, rep, svars>>,
         \A q \in Client : Busy(q)' => /\ Busy(q) /\ at'[q] = at[q] /\ out'[q] = out[q]
                                       /\ due'[q] = due[q] /\ op'[q] = op[q],
         \A q \in Client : Engaged(q) => Engaged(q)',
         \A q \in Client : at[q] = "gone" => at'[q] = "gone"
  PROVE  Exchanging'
<1>1. /\ req' = req /\ rep' = rep /\ sat' = sat /\ sparam' = sparam
      /\ sout' = sout /\ sdue' = sdue /\ speer' = speer
  BY DEF svars
<1>2. AllGone => AllGone'
  BY DEF AllGone
<1>3. CASE Resting
  <2>1. Resting'
    BY <1>1, <1>3 DEF Resting
  <2> QED BY <2>1 DEF Exchanging
<1>4. ASSUME NEW p \in Client, Stopped(p) PROVE Exchanging'
  <2>1. locked => Busy(p)' /\ out'[p] \in Seq(Later(p))
    <3>1. locked => Engaged(p)' /\ locked' /\ out[p] \in Seq(Later(p))
      BY <1>4 DEF Stopped, Engaged
    <3>2. locked => Busy(p)'
      BY <3>1 DEF Engaged, AllGone
    <3>3. Busy(p)' => out'[p] = out[p]
      OBVIOUS
    <3> QED BY <3>1, <3>2, <3>3
  <2>2. Stopped(p)'
    BY <1>1, <1>2, <1>4, <2>1 DEF Stopped
  <2> QED BY <2>2 DEF Exchanging
<1>5. ASSUME NEW p \in Client, NEW o \in Requests, NEW rest \in Seq(Fields(p)), Asking(p, o, rest)
      PROVE  Exchanging'
  <2>1. Engaged(p)'
    BY <1>5 DEF Asking
  <2>2. Busy(p)' => op'[p] = o /\ due'[p] = ReplyStartDue(locked', o) /\ out'[p] = rest
    BY <1>5 DEF Asking
  <2>3. Asking(p, o, rest)'
    BY <1>1, <1>5, <2>1, <2>2 DEF Asking
  <2> QED BY <2>3 DEF Exchanging
<1>6. ASSUME NEW p \in Client, NEW o \in Requests, Handling(p, o)
      PROVE  Exchanging'
  <2>1. Engaged(p)'
    BY <1>6 DEF Handling
  <2>2. Busy(p)' => at'[p] = "read" /\ op'[p] = o /\ due'[p] = ReplyStartDue(locked', o)
    BY <1>6 DEF Handling
  <2>3. Handling(p, o)'
    BY <1>1, <1>6, <2>1, <2>2 DEF Handling
  <2> QED BY <2>3 DEF Exchanging
<1>7. ASSUME NEW p \in Client, NEW o \in Requests, Answering(p, o)
      PROVE  Exchanging'
  <2>1. Engaged(p)'
    BY <1>7 DEF Answering
  <2>2. Busy(p)' => at'[p] = "read" /\ op'[p] = o /\ Answers(locked', p, o, Then(rep', sout'), due'[p])
    BY <1>1, <1>7 DEF Answering
  <2>3. Answering(p, o)'
    BY <1>1, <1>7, <2>1, <2>2 DEF Answering
  <2> QED BY <2>3 DEF Exchanging
<1> QED BY <1>3, <1>4, <1>5, <1>6, <1>7 DEF Exchanging

\* A process that was not in an exchange starts a call.
LEMMA CallKeeps ==
  ASSUME IInv, NEW p \in Client, NEW o \in Requests, Call(p, o)
  PROVE  IInv'
<1> USE DEF IInv
<1>1. /\ at[p] = "idle" /\ at' = [at EXCEPT ![p] = "wait"] /\ op' = [op EXCEPT ![p] = o]
      /\ locked' = locked /\ out' = out /\ due' = due /\ lock' = lock
      /\ UNCHANGED <<req, rep, svars>>
  BY DEF Call
<1>2. Typed'
  BY <1>1 DEF Typed
<1>3. \A q \in Client : /\ at'[q] = IF q = p THEN "wait" ELSE at[q]
                        /\ op'[q] = IF q = p THEN o ELSE op[q]
  BY <1>1 DEF Typed
<1>4. \A q \in Client : Busy(q)' <=> Busy(q)
  BY <1>1, <1>3 DEF Busy
<1>5. Alone'
  BY <1>1, <1>3, <1>4 DEF Alone
<1>6. Exchanging'
  <2>1. \A q \in Client : Busy(q)' => /\ Busy(q) /\ at'[q] = at[q] /\ out'[q] = out[q]
                                      /\ due'[q] = due[q] /\ op'[q] = op[q]
    BY <1>1, <1>3, <1>4 DEF Busy
  <2>2. ~AllGone
    BY <1>1 DEF AllGone
  <2>3. \A q \in Client : Engaged(q) => Engaged(q)'
    BY <1>4, <2>2 DEF Engaged
  <2>4. \A q \in Client : at[q] = "gone" => at'[q] = "gone"
    BY <1>1, <1>3
  <2> QED BY <1>1, <2>1, <2>3, <2>4, Frame
<1>7. BuffersFreed'
  BY <1>1 DEF BuffersFreed, svars
<1> QED BY <1>2, <1>5, <1>6, <1>7

\* What Leave does, to p and to the others.
LEMMA LeaveIs ==
  ASSUME Typed, NEW p \in Client, NEW where \in {"idle", "gone"}, Leave(p, where),
         at[p] # "gone", locked' = locked
  PROVE  /\ Typed' /\ at'[p] = where /\ ~Busy(p)'
         /\ \A q \in Client \ {p} : /\ at'[q] = at[q] /\ out'[q] = out[q] /\ due'[q] = due[q]
                                    /\ op'[q] = op[q] /\ (Busy(q)' <=> Busy(q))
         /\ Alone => Alone'
<1>1. /\ at' = [at EXCEPT ![p] = where] /\ out' = [out EXCEPT ![p] = <<>>]
      /\ due' = [due EXCEPT ![p] = <<>>] /\ op' = [op EXCEPT ![p] = NoOperation]
      /\ lock' = IF lock = p THEN "nobody" ELSE lock
  BY DEF Leave
<1>2. /\ at'[p] = where /\ out'[p] = <<>> /\ ~Busy(p)'
      /\ \A q \in Client \ {p} : /\ at'[q] = at[q] /\ out'[q] = out[q] /\ due'[q] = due[q]
                                 /\ op'[q] = op[q] /\ (Busy(q)' <=> Busy(q))
  BY <1>1 DEF Typed, Busy
<1>3. Typed'
  <2>1. NoOperation \in Requests
    BY NoOperationTyped
  <2>2. <<>> \in Seq(Fields(p)) /\ <<>> \in Seq(Dues)
    BY EmptySeq
  <2>3. at' \in [Client -> {"idle", "wait", "write", "read", "gone"}] /\ locked' \in BOOLEAN
    BY <1>1 DEF Typed
  <2>4. op' \in [Client -> Requests] /\ due' \in [Client -> Seq(Dues)]
    BY <1>1, <2>1, <2>2 DEF Typed
  <2>5. out' \in [Client -> UNION {Seq(Fields(q)) : q \in Client}]
    <3>1. <<>> \in UNION {Seq(Fields(q)) : q \in Client}
      BY <2>2
    <3> QED BY <1>1, <3>1 DEF Typed
  <2>6. \A q \in Client : out'[q] \in Seq(Fields(q)) /\ (at'[q] = "write" <=> out'[q] # <<>>)
    <3> TAKE q \in Client
    <3>1. CASE q = p
      BY <1>2, <2>2, <3>1
    <3>2. CASE q # p
      BY <1>2, <3>2 DEF Typed
    <3> QED BY <3>1, <3>2
  <2> QED BY <2>3, <2>4, <2>5, <2>6 DEF Typed
<1>4. ASSUME Alone PROVE Alone'
  <2>1. CASE locked
    <3>1. \A q \in Client : Busy(q) <=> lock = q
      BY <1>4, <2>1 DEF Alone
    <3>2. \A q \in Client : Busy(q)' <=> lock' = q
      <4> TAKE q \in Client
      <4>1. q # "nobody"
        BY CommAssumption
      <4>2. CASE q = p
        BY <1>1, <1>2, <4>1, <4>2
      <4>3. CASE q # p
        <5>1. (Busy(q)' <=> Busy(q)) /\ (Busy(q) <=> lock = q)
          BY <1>2, <3>1, <4>3
        <5>2. lock' = q <=> lock = q
          BY <1>1, <4>1, <4>3
        <5> QED BY <5>1, <5>2
      <4> QED BY <4>2, <4>3
    <3> QED BY <2>1, <3>2 DEF Alone
  <2>2. CASE ~locked
    <3>1. lock = "nobody" /\ \E r \in Client : \A q \in Client \ {r} : at[q] = "gone"
      BY <1>4, <2>2 DEF Alone
    <3>2. lock' = "nobody"
      BY <1>1, <3>1
    <3>3. \A q \in Client \ {p} : at[q] = "gone"
      BY <1>4, <2>2, OthersGone
    <3>4. \A q \in Client \ {p} : at'[q] = "gone"
      BY <1>2, <3>3
    <3> QED BY <2>2, <3>2, <3>4 DEF Alone
  <2>3. locked \/ ~locked
    OBVIOUS
  <2> QED BY <2>1, <2>2, <2>3
<1> QED BY <1>1, <1>2, <1>3, <1>4

\* A process ends.
LEMMA GoneKeeps ==
  ASSUME IInv, NEW p \in Client, Gone(p)
  PROVE  IInv'
<1> USE DEF IInv
<1>1. /\ Leave(p, "gone") /\ locked' = locked /\ UNCHANGED <<req, rep, svars>>
      /\ at[p] \in {"idle", "wait"} \/ (~locked /\ at[p] \in {"write", "read"})
  BY DEF Gone
<1>2. /\ Typed' /\ at'[p] = "gone" /\ ~Busy(p)' /\ Alone'
      /\ \A q \in Client \ {p} : /\ at'[q] = at[q] /\ out'[q] = out[q] /\ due'[q] = due[q]
                                 /\ op'[q] = op[q] /\ (Busy(q)' <=> Busy(q))
  BY <1>1, LeaveIs
<1>3. Exchanging'
  <2>1. \A q \in Client : Busy(q)' => /\ Busy(q) /\ at'[q] = at[q] /\ out'[q] = out[q]
                                      /\ due'[q] = due[q] /\ op'[q] = op[q]
    BY <1>2
  <2>2. \A q \in Client : Engaged(q) => Engaged(q)'
    <3>1. CASE at[p] \in {"idle", "wait"}
      <4>1. ~Busy(p) /\ ~AllGone
        BY <3>1 DEF Busy, AllGone
      <4>2. \A q \in Client : Busy(q) => Busy(q)'
        BY <1>2, <4>1
      <4> QED BY <4>1, <4>2 DEF Engaged
    <3>2. CASE ~locked /\ at[p] \in {"write", "read"}
      <4>1. \A q \in Client \ {p} : at[q] = "gone"
        BY <3>2, OthersGone
      <4>2. AllGone'
        BY <1>1, <1>2, <3>2, <4>1 DEF AllGone
      <4> QED BY <4>2 DEF Engaged
    <3> QED BY <1>1, <3>1, <3>2
  <2>3. \A q \in Client : at[q] = "gone" => at'[q] = "gone"
    BY <1>2
  <2> QED BY <1>1, <2>1, <2>2, <2>3, Frame
<1>4. BuffersFreed'
  BY <1>1 DEF BuffersFreed, svars
<1> QED BY <1>2, <1>3, <1>4

\* Over TCP, a process sees that the server is gone.
LEMMA ClientSeesEndKeeps ==
  ASSUME IInv, NEW p \in Client, ClientSeesEnd(p)
  PROVE  IInv'
<1> USE DEF IInv
<1>1. PICK where \in {"idle", "gone"} : Leave(p, where)
  BY DEF ClientSeesEnd
<1>2. /\ ~locked /\ sat = "ended" /\ at[p] \in {"write", "read"} /\ locked' = locked
      /\ req' = req /\ rep' = rep /\ sat' = sat /\ sdue' = sdue /\ sbuf' = sbuf
  BY DEF ClientSeesEnd, svars
<1>3. /\ Typed' /\ Alone'
      /\ \A q \in Client \ {p} : at'[q] = at[q]
  BY <1>1, <1>2, LeaveIs
<1>4. PICK q \in Client : Stopped(q)
  BY <1>2 DEF Exchanging, Resting, Asking, Handling, Answering
<1>5. p = q
  BY <1>2, <1>4 DEF Stopped
<1>6. rep = <<>>
  BY <1>2, <1>4 DEF Stopped, AllGone
<1>7. Stopped(p)'
  <2>1. \A r \in Client \ {p} : at'[r] = "gone"
    BY <1>2, <1>3, <1>4, <1>5 DEF Stopped
  <2> QED BY <1>2, <1>4, <1>5, <1>6, <2>1 DEF Stopped
<1>8. Exchanging'
  BY <1>7 DEF Exchanging
<1>9. BuffersFreed'
  BY <1>2 DEF BuffersFreed
<1> QED BY <1>3, <1>8, <1>9

-----------------------------------------------------------------------------
(* The steps of an exchange.                                               *)

\* The device is locked and the exchange begins.
LEMMA LockKeeps ==
  ASSUME IInv, NEW p \in Client, Lock(p)
  PROVE  IInv'
<1> USE DEF IInv
<1>1. /\ at[p] = "wait" /\ lock = "nobody" /\ lock' = IF locked THEN p ELSE lock
      /\ at' = [at EXCEPT ![p] = "write"] /\ out' = [out EXCEPT ![p] = RequestFields(p, op[p])]
      /\ due' = [due EXCEPT ![p] = ReplyDue(op[p])]
      /\ locked' = locked /\ op' = op /\ req' = req /\ rep' = rep
      /\ sat' = sat /\ sparam' = sparam /\ sout' = sout /\ sdue' = sdue /\ sbuf' = sbuf
  BY DEF Lock, svars
<1>2. PICK o \in Requests : o = op[p]
  BY DEF Typed
<1>3. o \in Operation
  BY RequestTyped
<1>4. PICK f \in Seq(Fields(p)) : f = RequestFields(p, o) /\ f # <<>>
  BY <1>3, RequestHeader
<1>5. PICK d \in Seq(Dues) : d = ReplyDue(o) /\ d = ReplyStartDue(locked, o)
  <2>1. ReplyDue(o) = ReplyStartDue(locked, o)
    BY <1>3, AnswerShape
  <2>2. Answers(locked, p, o, ReplyStart(locked, p, o), ReplyStartDue(locked, o))
    BY DEF Answers
  <2>3. ReplyStartDue(locked, o) \in Seq(Dues)
    BY <2>2, AnswerOne
  <2> QED BY <2>1, <2>3
<1>6. /\ at'[p] = "write" /\ out'[p] = f /\ due'[p] = d /\ op'[p] = o
      /\ \A q \in Client \ {p} : at'[q] = at[q] /\ out'[q] = out[q] /\ due'[q] = due[q]
  BY <1>1, <1>2, <1>4, <1>5 DEF Typed
<1>7. Typed'
  <2>1. /\ at' \in [Client -> {"idle", "wait", "write", "read", "gone"}] /\ locked' \in BOOLEAN
        /\ op' \in [Client -> Requests]
    BY <1>1 DEF Typed
  <2>2. due' \in [Client -> Seq(Dues)]
    BY <1>1, <1>2, <1>5 DEF Typed
  <2>3. out' \in [Client -> UNION {Seq(Fields(q)) : q \in Client}]
    <3>1. f \in UNION {Seq(Fields(q)) : q \in Client}
      BY <1>4
    <3> QED BY <1>1, <1>2, <1>4, <3>1 DEF Typed
  <2>4. \A q \in Client : out'[q] \in Seq(Fields(q)) /\ (at'[q] = "write" <=> out'[q] # <<>>)
    <3> TAKE q \in Client
    <3>1. CASE q = p
      BY <1>4, <1>6, <3>1
    <3>2. CASE q # p
      BY <1>6, <3>2 DEF Typed
    <3> QED BY <3>1, <3>2
  <2> QED BY <2>1, <2>2, <2>3, <2>4 DEF Typed
<1>8. \A q \in Client : ~Busy(q)
  <2>1. CASE locked
    BY <1>1, <2>1, CommAssumption DEF Alone
  <2>2. CASE ~locked
    <3>1. \A q \in Client \ {p} : at[q] = "gone"
      BY <1>1, <2>2, OthersGone
    <3> QED BY <1>1, <3>1 DEF Busy
  <2>3. locked \/ ~locked
    OBVIOUS
  <2> QED BY <2>1, <2>2, <2>3
<1>9. \A q \in Client : Busy(q)' <=> q = p
  BY <1>6, <1>8 DEF Busy
<1>10. Alone'
  <2>1. CASE locked
    BY <1>1, <1>9, <2>1 DEF Alone
  <2>2. CASE ~locked
    <3>1. \A q \in Client \ {p} : at'[q] = "gone"
      BY <1>1, <1>6, <2>2, OthersGone
    <3> QED BY <1>1, <2>2, <3>1 DEF Alone
  <2>3. locked \/ ~locked
    OBVIOUS
  <2> QED BY <2>1, <2>2, <2>3
<1>11. ~AllGone /\ \A q \in Client : ~Engaged(q)
  BY <1>1, <1>8 DEF AllGone, Engaged
<1>12. Resting \/ \E q \in Client : Stopped(q)
  BY <1>11 DEF Exchanging, Asking, Handling, Answering
<1>13. ASSUME Resting PROVE Exchanging'
  <2>1. PICK e \in Seq(Fields(p)) : e = <<>>
    BY EmptySeq
  <2>2. Then(e, f) = f
    BY <2>1, ThenProperties
  <2>3. Expects(p, o, Then(e, f), RequestDue, <<>>)
    BY <1>4, <2>2 DEF Expects
  <2>4. req' = e /\ rep' = <<>> /\ sout' = <<>> /\ sat' = "recv" /\ sdue' = RequestDue /\ sparam' = <<>>
    BY <1>1, <1>13, <2>1 DEF Resting
  <2>5. Engaged(p)'
    BY <1>9 DEF Engaged
  <2>6. Asking(p, o, f)'
    BY <1>1, <1>4, <1>5, <1>6, <2>1, <2>3, <2>4, <2>5 DEF Asking
  <2> QED BY <1>2, <1>4, <2>6, NowAsking
<1>14. ASSUME NEW q \in Client, Stopped(q) PROVE Exchanging'
  <2>1. ~locked
    BY <1>8, <1>14 DEF Stopped
  <2>2. p = q
    BY <1>1, <1>14, <2>1 DEF Stopped
  <2>3. \A r \in Client \ {q} : at'[r] = "gone"
    BY <1>6, <1>14, <2>1, <2>2 DEF Stopped
  <2>4. Stopped(q)'
    BY <1>1, <1>11, <1>14, <2>1, <2>3 DEF Stopped
  <2> QED BY <2>4 DEF Exchanging
<1>15. BuffersFreed'
  BY <1>1 DEF BuffersFreed
<1> QED BY <1>7, <1>10, <1>12, <1>13, <1>14, <1>15

\* Who is in an exchange is the one that the exchange is of.
LEMMA WhoseExchange ==
  ASSUME IInv, NEW p \in Client, Busy(p)
  PROVE  \/ Stopped(p)
         \/ \E o \in Requests : \E rest \in Seq(Fields(p)) : Asking(p, o, rest)
         \/ \E o \in Requests : Handling(p, o) \/ Answering(p, o)
<1> USE DEF IInv
<1>1. ~Resting
  BY DEF Resting
<1>2. ASSUME NEW q \in Client, Stopped(q) PROVE p = q
  <2>1. CASE locked
    <3>1. Engaged(q)
      BY <1>2, <2>1 DEF Stopped, Engaged
    <3> QED BY <3>1, SameProcess
  <2>2. CASE ~locked
    BY <1>2, <2>2 DEF Stopped, Busy
  <2>3. locked \/ ~locked
    OBVIOUS
  <2> QED BY <2>1, <2>2, <2>3
<1>3. \A q \in Client : Engaged(q) => p = q
  BY SameProcess
<1>4. ASSUME NEW q \in Client, NEW o \in Requests, NEW rest \in Seq(Fields(q)), Asking(q, o, rest)
      PROVE  p = q
  BY <1>3, <1>4 DEF Asking
<1>5. ASSUME NEW q \in Client, NEW o \in Requests, Handling(q, o) \/ Answering(q, o)
      PROVE  p = q
  BY <1>3, <1>5 DEF Handling, Answering
<1> QED BY <1>1, <1>2, <1>4, <1>5 DEF Exchanging

\* A field of the request is written.
LEMMA WriteKeeps ==
  ASSUME IInv, NEW p \in Client, Write(p)
  PROVE  IInv'
<1> USE DEF IInv
<1>1. /\ at[p] = "write" /\ req' = Append(req, Head(out[p])) /\ out' = [out EXCEPT ![p] = Tail(out[p])]
      /\ at' = [at EXCEPT ![p] = IF Len(out[p]) = 1 THEN "read" ELSE "write"]
      /\ locked' = locked /\ op' = op /\ due' = due /\ lock' = lock /\ rep' = rep
      /\ sat' = sat /\ sparam' = sparam /\ sout' = sout /\ sdue' = sdue /\ sbuf' = sbuf
  BY DEF Write, svars
<1>2. PICK t \in Seq(Fields(p)) : t = out[p] /\ t # <<>>
  BY <1>1 DEF Typed
<1>3. PICK u \in Seq(Fields(p)) : u = Tail(t)
  BY <1>2, Moved
<1>4. Len(t) = 1 <=> u = <<>>
  BY <1>2, <1>3, LastOne
<1>5. /\ at'[p] \in {"write", "read"} /\ (at'[p] = "write" <=> u # <<>>) /\ out'[p] = u
      /\ \A q \in Client \ {p} : at'[q] = at[q] /\ out'[q] = out[q]
  BY <1>1, <1>2, <1>3, <1>4 DEF Typed
<1>6. Typed'
  <2>1. /\ at' \in [Client -> {"idle", "wait", "write", "read", "gone"}] /\ locked' \in BOOLEAN
        /\ op' \in [Client -> Requests] /\ due' \in [Client -> Seq(Dues)]
    BY <1>1 DEF Typed
  <2>2. out' \in [Client -> UNION {Seq(Fields(q)) : q \in Client}]
    <3>1. u \in UNION {Seq(Fields(q)) : q \in Client}
      BY <1>3
    <3> QED BY <1>1, <1>2, <1>3, <3>1 DEF Typed
  <2>3. \A q \in Client : out'[q] \in Seq(Fields(q)) /\ (at'[q] = "write" <=> out'[q] # <<>>)
    <3> TAKE q \in Client
    <3>1. CASE q = p
      BY <1>3, <1>5, <3>1
    <3>2. CASE q # p
      BY <1>5, <3>2 DEF Typed
    <3> QED BY <3>1, <3>2
  <2> QED BY <2>1, <2>2, <2>3 DEF Typed
<1>7. Busy(p) /\ Busy(p)' /\ \A q \in Client \ {p} : Busy(q)' <=> Busy(q)
  BY <1>1, <1>5 DEF Busy
<1>8. Alone'
  <2>1. CASE locked
    <3>1. \A q \in Client : Busy(q)' <=> lock' = q
      BY <1>1, <1>7, <2>1 DEF Alone
    <3> QED BY <1>1, <2>1, <3>1 DEF Alone
  <2>2. CASE ~locked
    <3>1. \A q \in Client \ {p} : at'[q] = "gone"
      BY <1>1, <1>5, <2>2, OthersGone
    <3> QED BY <1>1, <2>2, <3>1 DEF Alone
  <2>3. locked \/ ~locked
    OBVIOUS
  <2> QED BY <2>1, <2>2, <2>3
<1>9. ASSUME Stopped(p) PROVE Exchanging'
  <2>1. req' \in Seq(Fields(p))
    <3>1. req \in Seq(Fields(p))
      BY <1>9 DEF Stopped
    <3> QED BY <1>1, <1>2, <3>1, Moved
  <2>2. rep = <<>>
    BY <1>1, <1>9 DEF Stopped, AllGone
  <2>3. ~locked => \A q \in Client \ {p} : at'[q] = "gone"
    BY <1>5, <1>9 DEF Stopped
  <2>4. locked => out'[p] \in Seq(Later(p))
    <3>1. ASSUME t \in Seq(Later(p)) PROVE u \in Seq(Later(p))
      BY <1>2, <1>3, <3>1, HeadTailProperties
    <3> QED BY <1>2, <1>5, <1>9, <3>1 DEF Stopped
  <2>5. Stopped(p)'
    BY <1>1, <1>7, <1>9, <2>1, <2>2, <2>3, <2>4 DEF Stopped
  <2> QED BY <2>5, NowStopped
<1>10. ASSUME NEW o \in Requests, NEW rest \in Seq(Fields(p)), Asking(p, o, rest)
       PROVE  Exchanging'
  <2>1. rest = t /\ op[p] = o /\ due[p] = ReplyStartDue(locked, o)
    BY <1>2, <1>7, <1>10 DEF Asking
  <2>2. PICK s \in Seq(Fields(p)) : s = req
    BY <1>10 DEF Asking
  <2>3. PICK s1 \in Seq(Fields(p)) : s1 = Append(s, Head(t)) /\ Then(s1, u) = Then(s, t)
    <3>1. /\ Append(s, Head(t)) \in Seq(Fields(p))
          /\ Then(Append(s, Head(t)), Tail(t)) = Then(s, t)
      BY <1>2, Moved
    <3> QED BY <1>3, <3>1
  <2>4. req' = s1
    BY <1>1, <1>2, <2>2, <2>3
  <2>5. Expects(p, o, Then(s1, u), sdue, sparam)
    BY <1>10, <2>1, <2>2, <2>3 DEF Asking
  <2>6. u \in Seq(Later(p))
    <3>1. CASE t \in Seq(Later(p))
      BY <1>2, <1>3, <3>1, HeadTailProperties
    <3>2. CASE t = RequestFields(p, o)
      BY <1>3, <3>2, RequestTyped, RequestHeader
    <3> QED BY <1>10, <2>1, <3>1, <3>2 DEF Asking
  <2>7. Engaged(p)'
    BY <1>7 DEF Engaged
  <2>8. Asking(p, o, u)'
    <3>1. Busy(p)' => op'[p] = o /\ due'[p] = ReplyStartDue(locked', o) /\ out'[p] = u
      BY <1>1, <1>5, <2>1
    <3>2. rep' = <<>> /\ sout' = <<>> /\ sat' = "recv"
      BY <1>1, <1>10 DEF Asking
    <3> QED BY <1>1, <1>3, <2>3, <2>4, <2>5, <2>6, <2>7, <3>1, <3>2 DEF Asking
  <2> QED BY <1>3, <2>8, NowAsking
<1>11. ASSUME NEW o \in Requests, Handling(p, o) \/ Answering(p, o) PROVE FALSE
  BY <1>1, <1>7, <1>11 DEF Handling, Answering
<1>12. Exchanging'
  BY <1>7, <1>9, <1>10, <1>11, WhoseExchange
<1>13. BuffersFreed'
  BY <1>1 DEF BuffersFreed
<1> QED BY <1>6, <1>8, <1>12, <1>13

\* A field of the answer is read.
LEMMA ReadKeeps ==
  ASSUME IInv, NEW p \in Client, Read(p)
  PROVE  /\ IInv'
         /\ at'[p] = "read" => \E q \in Requests : Answering(p, q)'
<1> USE DEF IInv
<1>1. /\ at[p] = "read" /\ rep # <<>> /\ rep' = Tail(rep) /\ locked' = locked /\ req' = req
      /\ sat' = sat /\ sparam' = sparam /\ sout' = sout /\ sdue' = sdue /\ sbuf' = sbuf
  BY DEF Read, svars
<1>2. Busy(p) /\ ~AllGone
  BY <1>1 DEF Busy, AllGone
<1>3. PICK o \in Requests : Answering(p, o)
  <2>1. ~Stopped(p) /\ \A o \in Requests : ~Handling(p, o)
    BY <1>1, <1>2 DEF Stopped, Handling
  <2>2. \A o \in Requests : \A rest \in Seq(Fields(p)) : ~Asking(p, o, rest)
    BY <1>1 DEF Asking
  <2> QED BY <1>2, <2>1, <2>2, WhoseExchange
<1>4. PICK d : d = due[p]
  OBVIOUS
<1>5. PICK s \in Seq(Fields(p)), t \in Seq(Fields(p)) :
        s = rep /\ t = sout /\ d = due[p] /\ Answers(locked, p, o, Then(s, t), d)
  BY <1>2, <1>3, <1>4 DEF Answering
<1>6. /\ op[p] = o /\ req = <<>>
      /\ \/ sat = "send" /\ sout # <<>>
         \/ sat = "recv" /\ sout = <<>> /\ sdue = RequestDue /\ sparam = <<>>
  BY <1>2, <1>3 DEF Answering
<1>7. PICK u \in Seq(Fields(p)) : u = Tail(s)
  BY <1>1, <1>5, Taken
<1>8. Head(Then(s, t)) = Head(s) /\ Tail(Then(s, t)) = Then(u, t)
  BY <1>1, <1>5, <1>7, Taken
<1>9. PICK st : st = Then(s, t)
  OBVIOUS
<1>10. PICK next : next = DueAfter(o, Head(st), Tail(d))
  OBVIOUS
<1>11. /\ d \in Seq(Dues) /\ d # <<>> /\ Fits(st, d)
       /\ \/ next = <<>> /\ Tail(st) = <<>>
          \/ next # <<>> /\ Answers(locked, p, o, Tail(st), next)
  BY <1>5, <1>9, <1>10, AnswerOne
<1>12. Fits(rep, due[p])
  BY <1>5, <1>8, <1>9, <1>11 DEF Fits
<1>13. next = DueAfter(op[p], Head(rep), Tail(due[p]))
  BY <1>5, <1>6, <1>8, <1>9, <1>10
<1>14. \/ next = <<>> /\ Leave(p, "idle")
       \/ /\ next # <<>>
          /\ due' = [due EXCEPT ![p] = next]
          /\ UNCHANGED <<at, op, out, lock>>
  BY <1>12, <1>13 DEF Read
<1>15. BuffersFreed'
  BY <1>1 DEF BuffersFreed
<1>16. CASE next = <<>>
  <2>1. Leave(p, "idle")
    BY <1>14, <1>16
  <2>2. Typed' /\ Alone' /\ at'[p] = "idle" /\ ~Busy(p)' /\ \A q \in Client \ {p} : Busy(q)' <=> Busy(q)
    BY <1>1, <2>1, LeaveIs
  <2>3. Then(u, t) = <<>>
    <3>1. Tail(st) = <<>>
      BY <1>11, <1>16
    <3> QED BY <1>8, <1>9, <3>1
  <2>4. u = <<>> /\ t = <<>>
    BY <2>3, Taken
  <2>5. \A q \in Client : ~Busy(q)'
    <3>1. \A q \in Client \ {p} : ~Busy(q)
      BY <1>2, SameProcess DEF Engaged
    <3> QED BY <2>2, <3>1
  <2>6. Resting'
    BY <1>1, <1>5, <1>6, <1>7, <2>4, <2>5 DEF Resting
  <2>7. Exchanging'
    BY <2>6 DEF Exchanging
  <2> QED BY <1>15, <2>2, <2>7
<1>17. CASE next # <<>>
  <2>1. due' = [due EXCEPT ![p] = next] /\ at' = at /\ op' = op /\ out' = out /\ lock' = lock
    BY <1>14, <1>17
  <2>2. Answers(locked, p, o, Then(u, t), next)
    BY <1>8, <1>9, <1>11, <1>17
  <2>3. next \in Seq(Dues)
    BY <2>2, AnswerOne
  <2>4. Typed'
    BY <1>1, <2>1, <2>3 DEF Typed
  <2>5. \A q \in Client : Busy(q)' <=> Busy(q)
    BY <2>1 DEF Busy
  <2>6. Alone'
    BY <1>1, <2>1, <2>5 DEF Alone
  <2>7. due'[p] = next
    BY <2>1 DEF Typed
  <2>8. Answering(p, o)'
    <3>1. rep' = u /\ sout' = t
      BY <1>1, <1>5, <1>7
    <3>2. Busy(p)' => at'[p] = "read" /\ op'[p] = o /\ Answers(locked', p, o, Then(rep', sout'), due'[p])
      BY <1>1, <1>6, <2>1, <2>2, <2>7, <3>1
    <3>3. Engaged(p)'
      BY <1>2, <2>5 DEF Engaged
    <3> QED BY <1>1, <1>5, <1>6, <1>7, <3>1, <3>2, <3>3 DEF Answering
  <2>9. Exchanging'
    BY <2>8, NowHandling
  <2> QED BY <1>3, <1>15, <2>4, <2>6, <2>8, <2>9
<1> QED BY <1>16, <1>17

\* A call on the device fails, and nothing of the exchange is left behind.
LEMMA ClientFailsKeeps ==
  ASSUME IInv, NEW p \in Client, ClientFails(p)
  PROVE  IInv'
<1> USE DEF IInv
<1>1. /\ locked /\ locked' = locked /\ Leave(p, "idle") /\ UNCHANGED <<req, svars>>
      /\ NothingBehind(p)
  BY DEF ClientFails
<1>2. /\ req' = req /\ sat' = sat /\ sparam' = sparam /\ sout' = sout /\ sdue' = sdue
      /\ sbuf' = sbuf
  BY <1>1 DEF svars
<1>3. at[p] # "gone"
  BY <1>1 DEF NothingBehind
<1>4. /\ Typed' /\ at'[p] = "idle" /\ ~Busy(p)' /\ Alone'
      /\ \A q \in Client \ {p} : /\ at'[q] = at[q] /\ out'[q] = out[q] /\ due'[q] = due[q]
                                 /\ op'[q] = op[q] /\ (Busy(q)' <=> Busy(q))
  BY <1>1, <1>3, LeaveIs
<1>5. BuffersFreed'
  BY <1>2 DEF BuffersFreed
<1>6. CASE at[p] = "wait" /\ rep' = rep
  <2>1. ~Busy(p) /\ ~AllGone
    BY <1>6 DEF Busy, AllGone
  <2>2. \A q \in Client : Busy(q)' => /\ Busy(q) /\ at'[q] = at[q] /\ out'[q] = out[q]
                                      /\ due'[q] = due[q] /\ op'[q] = op[q]
    BY <1>4
  <2>3. \A q \in Client : Engaged(q) => Engaged(q)'
    <3>1. \A q \in Client : Busy(q) => Busy(q)'
      BY <1>4, <2>1
    <3> QED BY <2>1, <3>1 DEF Engaged
  <2>4. \A q \in Client : at[q] = "gone" => at'[q] = "gone"
    BY <1>4, <1>6
  <2>5. Exchanging'
    BY <1>1, <1>6, <2>2, <2>3, <2>4, Frame
  <2> QED BY <1>4, <1>5, <2>5
<1>7. CASE at[p] = "write" /\ out[p] = RequestFields(p, op[p]) /\ rep' = rep
  <2>1. Busy(p) /\ \A q \in Client \ {p} : ~Busy(q)
    <3>1. Busy(p)
      BY <1>7 DEF Busy
    <3> QED BY <3>1, SameProcess DEF Engaged
  <2>2. PICK r \in Requests : r = op[p]
    BY DEF Typed
  <2>3. PICK f : f = out[p] /\ f \notin Seq(Later(p))
    BY <1>7, <2>2, RequestTyped, RequestHeader
  <2>4. PICK o \in Requests, rest \in Seq(Fields(p)) : Asking(p, o, rest)
    <3>1. ~Stopped(p)
      BY <1>1, <2>3 DEF Stopped
    <3>2. \A o \in Requests : ~Handling(p, o) /\ ~Answering(p, o)
      BY <1>7, <2>1 DEF Handling, Answering
    <3> QED BY <2>1, <3>1, <3>2, WhoseExchange
  <2>5. rest \notin Seq(Later(p))
    BY <2>1, <2>3, <2>4 DEF Asking
  <2>6. /\ req = <<>> /\ rep = <<>> /\ sout = <<>>
        /\ sat = "recv" /\ sdue = RequestDue /\ sparam = <<>>
    BY <2>4, <2>5 DEF Asking
  <2>7. \A q \in Client : ~Busy(q)'
    BY <1>4, <2>1
  <2>8. Resting'
    BY <1>2, <1>7, <2>6, <2>7 DEF Resting
  <2> QED BY <1>4, <1>5, <2>8 DEF Exchanging
<1>8. CASE /\ at[p] = "read" /\ rep # <<>> /\ Fits(rep, due[p])
           /\ DueAfter(op[p], Head(rep), Tail(due[p])) = <<>>
           /\ rep' = Tail(rep)
  <2>1. Read(p)
    BY <1>1, <1>8 DEF Read
  <2> QED BY <2>1, ReadKeeps
<1> QED BY <1>1, <1>6, <1>7, <1>8 DEF NothingBehind

\* The server takes a field of the request.
LEMMA ReceiveKeeps ==
  ASSUME IInv, Receive
  PROVE  IInv'
<1> USE DEF IInv
<1>1. /\ sat = "recv" /\ req # <<>> /\ req' = Tail(req) /\ speer' = Head(req).from
      /\ locked' = locked /\ at' = at /\ op' = op /\ out' = out /\ due' = due /\ lock' = lock
      /\ rep' = rep /\ sout' = sout
  BY DEF Receive, cvars
<1>2. PICK p \in Client, o \in Requests : \E rest \in Seq(Fields(p)) : Asking(p, o, rest)
  BY <1>1 DEF Exchanging, Resting, Stopped, Handling, Answering
<1>3. PICK rest \in Seq(Fields(p)) : Asking(p, o, rest)
  BY <1>2
<1>4. PICK d, params : d = sdue /\ params = sparam
  OBVIOUS
<1>5. PICK s \in Seq(Fields(p)) :
        s = req /\ d = sdue /\ params = sparam /\ Expects(p, o, Then(s, rest), d, params)
  BY <1>3, <1>4 DEF Asking
<1>6. PICK u \in Seq(Fields(p)) : u = Tail(s)
  BY <1>1, <1>5, Taken
<1>7. PICK st : st = Then(s, rest) /\ Head(st) = Head(s) /\ Tail(st) = Then(u, rest)
  BY <1>1, <1>5, <1>6, Taken
<1>8. PICK f : f = Head(s) /\ f = Head(st) /\ f \in Fields(p)
  BY <1>1, <1>5, <1>7, Taken
<1>9. PICK next, after : /\ next = NextDue(f, Tail(d))
                         /\ after = IF f.kind = "op" THEN f.op.param ELSE params
  OBVIOUS
<1>10. /\ d # <<>> /\ Fits(st, d)
       /\ \/ next = <<>> /\ Tail(st) = <<>> /\ after = o.param
          \/ next # <<>> /\ Begun(p, o, Tail(st), next, after)
  <2>1. o \in Requests /\ Expects(p, o, st, d, params) /\ f = Head(st)
    BY <1>2, <1>5, <1>7, <1>8
  <2>2. Received(p, o, st, d, params)
    BY <2>1, ReceiveOne
  <2> QED BY <1>8, <1>9, <2>2 DEF Received
<1>11. Fits(req, sdue)
  BY <1>5, <1>7, <1>10 DEF Fits
<1>12. /\ sdue' = next /\ sparam' = after
       /\ sat' = IF next = <<>> THEN "handle" ELSE "recv"
  BY <1>5, <1>8, <1>9, <1>11 DEF Receive
<1>13. speer' = p
  BY <1>1, <1>5, <1>8 DEF Fields
<1>14. rest \in Seq(Later(p))
  BY <1>1, <1>3 DEF Asking
<1>15. Typed' /\ Alone'
  <2>1. Typed'
    BY <1>1 DEF Typed
  <2>2. \A q \in Client : Busy(q)' <=> Busy(q)
    BY <1>1 DEF Busy
  <2>3. Alone'
    BY <1>1, <2>2 DEF Alone
  <2> QED BY <2>1, <2>3
<1>16. /\ Engaged(p)' /\ rep' = <<>> /\ sout' = <<>>
       /\ Busy(p)' => op'[p] = o /\ due'[p] = ReplyStartDue(locked', o) /\ out'[p] = rest
  <2>1. Engaged(p)'
    BY <1>1, <1>3 DEF Asking, Engaged, Busy, AllGone
  <2>2. Busy(p)' => Busy(p)
    BY <1>1 DEF Busy
  <2> QED BY <1>1, <1>3, <2>1, <2>2 DEF Asking
<1>17. CASE next = <<>>
  <2>1. Then(u, rest) = <<>> /\ after = o.param
    BY <1>7, <1>10, <1>17
  <2>2. u = <<>> /\ rest = <<>>
    BY <2>1, Taken
  <2>3. Busy(p)' => at'[p] = "read"
    BY <1>15, <1>16, <2>2 DEF Busy, Typed
  <2>4. sat' = "handle" /\ sparam' = o.param /\ req' = <<>>
    BY <1>1, <1>5, <1>6, <1>12, <1>17, <2>1, <2>2
  <2>5. Handling(p, o)'
    BY <1>13, <1>16, <2>3, <2>4 DEF Handling
  <2>6. Exchanging'
    BY <1>2, <2>5, NowHandling
  <2>7. BuffersFreed'
    BY <2>4 DEF BuffersFreed
  <2> QED BY <1>15, <2>6, <2>7
<1>18. CASE next # <<>>
  <2>1. Begun(p, o, Then(u, rest), next, after)
    BY <1>7, <1>10, <1>18
  <2>2. next # RequestDue
    BY <2>1, RequestTyped, BegunNotStart
  <2>3. sat' = "recv" /\ sdue' = next /\ sparam' = after /\ req' = u
    BY <1>1, <1>5, <1>6, <1>12, <1>18
  <2>4. Expects(p, o, Then(u, rest), next, after)
    BY <2>1 DEF Expects
  <2>5. Asking(p, o, rest)'
    BY <1>6, <1>3, <1>14, <1>16, <2>3, <2>4 DEF Asking
  <2>6. Exchanging'
    BY <1>2, <1>3, <2>5, NowAsking
  <2>7. BuffersFreed'
    BY <2>2, <2>3 DEF BuffersFreed
  <2> QED BY <1>15, <2>6, <2>7
<1> QED BY <1>17, <1>18

\* The server's loop ends while nothing but a request is on the way.
LEMMA EndKeeps ==
  ASSUME IInv, EndServer, UNCHANGED <<locked, cvars, req, rep>>,
         NEW p \in Client, Engaged(p), req \in Seq(Fields(p)), rep = <<>> \/ AllGone,
         locked => out[p] \in Seq(Later(p))
  PROVE  IInv'
<1> USE DEF IInv
<1>1. /\ sat' = "ended" /\ sbuf' = {} /\ sdue' = <<>>
      /\ locked' = locked /\ at' = at /\ op' = op /\ out' = out /\ due' = due /\ lock' = lock
      /\ req' = req /\ rep' = rep
  BY DEF EndServer, cvars
<1>2. Typed' /\ Alone' /\ (Busy(p)' <=> Busy(p)) /\ (AllGone' <=> AllGone)
  <2>1. Typed'
    BY <1>1 DEF Typed
  <2>2. \A q \in Client : Busy(q)' <=> Busy(q)
    BY <1>1 DEF Busy
  <2>3. Alone'
    BY <1>1, <2>2 DEF Alone
  <2>4. AllGone' <=> AllGone
    BY <1>1 DEF AllGone
  <2> QED BY <2>1, <2>2, <2>3, <2>4
<1>3. locked => Busy(p)
  BY DEF Engaged, AllGone
<1>4. ~locked => \A q \in Client \ {p} : at[q] = "gone"
  <2>1. SUFFICES ASSUME ~locked PROVE \A q \in Client \ {p} : at[q] = "gone"
    OBVIOUS
  <2>2. CASE Busy(p)
    <3>1. at[p] # "gone"
      BY <2>2 DEF Busy
    <3> QED BY <2>1, <3>1, OthersGone
  <2>3. CASE AllGone
    BY <2>3 DEF AllGone
  <2> QED BY <2>2, <2>3 DEF Engaged
<1>5. Stopped(p)'
  BY <1>1, <1>2, <1>3, <1>4 DEF Stopped
<1>6. Exchanging'
  BY <1>5, NowStopped
<1>7. BuffersFreed'
  BY <1>1 DEF BuffersFreed
<1> QED BY <1>2, <1>6, <1>7

\* The server answers, or its loop ends.
LEMMA HandleKeeps ==
  ASSUME IInv, Handle
  PROVE  IInv'
<1> USE DEF IInv
<1>1. sat = "handle" /\ UNCHANGED <<locked, cvars, req, rep>>
  BY DEF Handle
<1>2. PICK p \in Client, o \in Requests : Handling(p, o)
  BY <1>1 DEF Exchanging, Resting, Stopped, Asking, Answering
<1>3. /\ Engaged(p) /\ req = <<>> /\ rep = <<>> /\ sparam = o.param /\ speer = p
      /\ Busy(p) => at[p] = "read" /\ op[p] = o /\ due[p] = ReplyStartDue(locked, o)
  BY <1>2 DEF Handling
<1>4. CASE EndServer
  <2>1. req \in Seq(Fields(p)) /\ <<>> \in Seq(Later(p))
    BY <1>3, EmptySeq
  <2>2. locked => Busy(p)
    BY <1>3 DEF Engaged, AllGone
  <2>3. locked => out[p] = <<>>
    BY <1>3, <2>2 DEF Typed
  <2> QED BY <1>1, <1>3, <1>4, <2>1, <2>3, EndKeeps
<1>5. CASE /\ sat' = "send" /\ sout' = ReplyFields(speer, sparam)
           /\ UNCHANGED <<sparam, sdue, speer, sbuf>>
  <2>1. /\ locked' = locked /\ at' = at /\ op' = op /\ out' = out /\ due' = due /\ lock' = lock
        /\ req' = <<>> /\ rep' = <<>>
    BY <1>1, <1>3 DEF cvars
  <2>2. Typed'
    BY <2>1 DEF Typed
  <2>3. \A q \in Client : Busy(q)' <=> Busy(q)
    BY <2>1 DEF Busy
  <2>4. Alone'
    BY <2>1, <2>3 DEF Alone
  <2>5. Answers(locked, p, o, ReplyStart(locked, p, o), ReplyStartDue(locked, o))
    BY DEF Answers
  <2>6. PICK s, e : s = ReplyStart(locked, p, o) /\ e = <<>>
    OBVIOUS
  <2>7. s \in Seq(Fields(p)) /\ s # <<>> /\ e \in Seq(Fields(p))
    BY <2>5, <2>6, AnswerOne, EmptySeq
  <2>8. Then(e, s) = s
    BY <2>6, <2>7, ThenProperties
  <2>9. sout' = s
    BY <1>3, <1>5, <2>6, RequestTyped, AnswerShape
  <2>10. Engaged(p)'
    BY <1>3, <2>1, <2>3 DEF Engaged, AllGone
  <2>11. Busy(p)' => at'[p] = "read" /\ op'[p] = o /\ Answers(locked', p, o, Then(rep', sout'), due'[p])
    BY <1>3, <2>1, <2>3, <2>5, <2>6, <2>8, <2>9
  <2>12. Answering(p, o)'
    BY <1>5, <2>1, <2>6, <2>7, <2>9, <2>10, <2>11 DEF Answering
  <2>13. Exchanging'
    BY <1>2, <2>12, NowHandling
  <2>14. BuffersFreed'
    BY <1>5 DEF BuffersFreed
  <2> QED BY <2>2, <2>4, <2>13, <2>14
<1> QED BY <1>4, <1>5 DEF Handle

\* A field of the answer is written; after the last one the server is back at
\* the top of its loop, and has freed what it had.
LEMMA SendKeeps ==
  ASSUME IInv, Send
  PROVE  IInv'
<1> USE DEF IInv
<1>1. /\ sat = "send" /\ rep' = Append(rep, Head(sout)) /\ sout' = Tail(sout)
      /\ sbuf' = sbuf \ Freed(Head(sout)) /\ req' = req
      /\ locked' = locked /\ at' = at /\ op' = op /\ out' = out /\ due' = due /\ lock' = lock
      /\ \/ Len(sout) = 1 /\ Start
         \/ Len(sout) > 1 /\ UNCHANGED <<sat, sdue, sparam>>
  BY DEF Send, cvars
<1>2. PICK p \in Client, o \in Requests : Answering(p, o)
  BY <1>1 DEF Exchanging, Resting, Stopped, Asking, Handling
<1>3. /\ Engaged(p) /\ req = <<>>
      /\ Busy(p) => at[p] = "read" /\ op[p] = o /\ Answers(locked, p, o, Then(rep, sout), due[p])
  BY <1>2 DEF Answering
<1>4. PICK s \in Seq(Fields(p)), t \in Seq(Fields(p)) : s = rep /\ t = sout /\ t # <<>>
  BY <1>1, <1>2 DEF Answering
<1>5. PICK s1 \in Seq(Fields(p)), u \in Seq(Fields(p)) :
        s1 = Append(s, Head(t)) /\ u = Tail(t) /\ Then(s1, u) = Then(s, t)
  <2>1. /\ Append(s, Head(t)) \in Seq(Fields(p)) /\ Tail(t) \in Seq(Fields(p))
        /\ Then(Append(s, Head(t)), Tail(t)) = Then(s, t)
    BY <1>4, Moved
  <2> QED BY <2>1
<1>6. rep' = s1 /\ sout' = u
  BY <1>1, <1>4, <1>5
<1>7. Len(t) \in Nat \ {0} /\ (Len(t) = 1 <=> u = <<>>)
  BY <1>4, <1>5, LastOne
<1>8. \/ sat' = "send" /\ sout' # <<>>
      \/ sat' = "recv" /\ sout' = <<>> /\ sdue' = RequestDue /\ sparam' = <<>>
  <2>1. CASE Len(sout) = 1 /\ Start
    BY <1>4, <1>6, <1>7, <2>1 DEF Start
  <2>2. CASE Len(sout) > 1 /\ UNCHANGED <<sat, sdue, sparam>>
    <3>1. Len(t) # 1 /\ sat' = "send"
      BY <1>1, <1>4, <1>7, <2>2
    <3> QED BY <1>6, <1>7, <3>1
  <2> QED BY <1>1, <2>1, <2>2
<1>9. \A q \in Client : Busy(q)' <=> Busy(q)
  BY <1>1 DEF Busy
<1>10. Typed' /\ Alone'
  <2>1. Typed'
    BY <1>1 DEF Typed
  <2>2. Alone'
    BY <1>1, <1>9 DEF Alone
  <2> QED BY <2>1, <2>2
<1>11. Engaged(p)'
  BY <1>1, <1>3, <1>9 DEF Engaged, AllGone
<1>12. Busy(p)' => at'[p] = "read" /\ op'[p] = o /\ Answers(locked', p, o, Then(rep', sout'), due'[p])
  BY <1>1, <1>3, <1>4, <1>5, <1>6, <1>9
<1>13. Answering(p, o)'
  BY <1>1, <1>3, <1>5, <1>6, <1>8, <1>11, <1>12 DEF Answering
<1>14. Exchanging'
  BY <1>2, <1>13, NowHandling
<1>15. BuffersFreed'
  <2>1. CASE Len(sout) = 1 /\ Start
    <3>1. sbuf' = {}
      BY <1>1, <2>1 DEF Freed
    <3> QED BY <3>1 DEF BuffersFreed
  <2>2. CASE Len(sout) > 1 /\ UNCHANGED <<sat, sdue, sparam>>
    BY <1>1, <2>2 DEF BuffersFreed
  <2> QED BY <1>1, <2>1, <2>2
<1> QED BY <1>10, <1>14, <1>15

\* A read of the server gets a part of the field.
LEMMA ShortReadKeeps ==
  ASSUME IInv, ServerShortRead
  PROVE  IInv'
<1> USE DEF IInv
<1>1. sat = "recv" /\ req # <<>> /\ EndServer /\ UNCHANGED <<locked, cvars, req, rep>>
  BY DEF ServerShortRead
<1>2. PICK p \in Client, o \in Requests : \E rest \in Seq(Fields(p)) : Asking(p, o, rest)
  BY <1>1 DEF Exchanging, Resting, Stopped, Handling, Answering
<1>3. Engaged(p) /\ rep = <<>> /\ req \in Seq(Fields(p))
  BY <1>2 DEF Asking
<1>4. locked => out[p] \in Seq(Later(p))
  <2>1. locked => Busy(p)
    BY <1>3 DEF Engaged, AllGone
  <2> QED BY <1>1, <1>2, <2>1 DEF Asking
<1> QED BY <1>1, <1>2, <1>3, <1>4, EndKeeps

\* Over TCP, the server sees that the last process is gone.
LEMMA ServerSeesEndKeeps ==
  ASSUME IInv, ServerSeesEnd
  PROVE  IInv'
<1> USE DEF IInv
<1>1. /\ (sat = "recv" /\ req = <<>>) \/ sat = "send"
      /\ EndServer /\ UNCHANGED <<locked, cvars, req, rep>>
  BY DEF ServerSeesEnd
<1>2. ~locked /\ AllGone
  BY DEF ServerSeesEnd, AllGone
<1>3. req = <<>>
  BY <1>1 DEF Exchanging, Resting, Stopped, Asking, Handling, Answering
<1>4. PICK p \in Client : TRUE
  BY <1>2 DEF Alone
<1>5. Engaged(p)
  BY <1>2 DEF Engaged
<1>6. req \in Seq(Fields(p))
  BY <1>3, EmptySeq
<1> QED BY <1>1, <1>2, <1>4, <1>5, <1>6, EndKeeps

-----------------------------------------------------------------------------
(* The theorems.                                                           *)

LEMMA InitInvariant ==
  ASSUME Init
  PROVE  IInv
<1>1. PICK connected \in SUBSET Client :
        /\ IF locked THEN connected = Client ELSE Cardinality(connected) = 1
        /\ at = [p \in Client |-> IF p \in connected THEN "idle" ELSE "gone"]
  BY DEF Init
<1>2. /\ locked \in BOOLEAN /\ lock = "nobody"
      /\ op = [p \in Client |-> NoOperation] /\ out = [p \in Client |-> <<>>]
      /\ due = [p \in Client |-> <<>>]
      /\ req = <<>> /\ rep = <<>> /\ sat = "recv" /\ sparam = <<>> /\ sout = <<>>
      /\ sdue = RequestDue /\ sbuf = {}
  BY DEF Init
<1>3. \A p \in Client : at[p] \in {"idle", "gone"} /\ ~Busy(p)
  BY <1>1 DEF Busy
<1>4. Typed
  <2>1. at \in [Client -> {"idle", "wait", "write", "read", "gone"}] /\ locked \in BOOLEAN
    BY <1>1, <1>2
  <2>2. \A p \in Client : <<>> \in Seq(Fields(p))
    BY EmptySeq
  <2>3. op \in [Client -> Requests] /\ due \in [Client -> Seq(Dues)]
    BY <1>2, NoOperationTyped, EmptySeq
  <2>4. out \in [Client -> UNION {Seq(Fields(p)) : p \in Client}]
    BY <1>2, <2>2
  <2>5. \A p \in Client : out[p] \in Seq(Fields(p)) /\ (at[p] = "write" <=> out[p] # <<>>)
    BY <1>2, <1>3, <2>2
  <2> QED BY <2>1, <2>3, <2>4, <2>5 DEF Typed
<1>5. Alone
  <2>1. CASE locked
    <3>1. \A p \in Client : lock # p
      BY <1>2, CommAssumption
    <3> QED BY <1>3, <2>1, <3>1 DEF Alone
  <2>2. CASE ~locked
    <3>1. IsFiniteSet(connected) /\ Cardinality(connected) = 1
      BY <1>1, <2>2, CommAssumption, FS_Subset
    <3>2. PICK p : connected = {p}
      BY <3>1, FS_Singleton
    <3>3. p \in Client /\ \A q \in Client \ {p} : at[q] = "gone"
      BY <1>1, <3>2
    <3> QED BY <1>2, <2>2, <3>3 DEF Alone
  <2>3. locked \/ ~locked
    OBVIOUS
  <2> QED BY <2>1, <2>2, <2>3
<1>6. Exchanging
  BY <1>2, <1>3 DEF Exchanging, Resting
<1>7. BuffersFreed
  BY <1>2 DEF BuffersFreed
<1> QED BY <1>4, <1>5, <1>6, <1>7 DEF IInv

LEMMA StutterKeeps ==
  ASSUME IInv, UNCHANGED vars
  PROVE  IInv'
<1>1. /\ locked' = locked /\ at' = at /\ op' = op /\ out' = out /\ due' = due /\ lock' = lock
      /\ req' = req /\ rep' = rep /\ sat' = sat /\ sparam' = sparam /\ sout' = sout
      /\ sdue' = sdue /\ speer' = speer /\ sbuf' = sbuf
  BY DEF vars, cvars, svars
<1>2. Typed'
  BY <1>1 DEF IInv, Typed
<1>3. Alone'
  BY <1>1 DEF IInv, Alone, Busy
<1>4. Exchanging'
  <2>1. \A q \in Client : (Busy(q)' <=> Busy(q)) /\ (Engaged(q)' <=> Engaged(q))
    BY <1>1 DEF Busy, Engaged, AllGone
  <2>2. UNCHANGED <<req, rep, svars>>
    BY <1>1 DEF svars
  <2> QED BY <1>1, <2>1, <2>2, Frame DEF IInv
<1>5. BuffersFreed'
  BY <1>1 DEF IInv, BuffersFreed
<1> QED BY <1>2, <1>3, <1>4, <1>5 DEF IInv

\* The inductive invariant: one exchange at a time, its fields on the way in
\* the order of the writer, which is that of the reader, and both sides within
\* it where the fields say (comm_proc, comm_recv, comm_send).
THEOREM CommInvariant == Spec => []IInv
<1>1. Init => IInv
  BY InitInvariant
<1>2. IInv /\ [Next]_vars => IInv'
  <2> SUFFICES ASSUME IInv, [Next]_vars PROVE IInv'
    OBVIOUS
  <2>1. ASSUME NEW p \in Client, NEW o \in Requests, Call(p, o) PROVE IInv'
    BY <2>1, CallKeeps
  <2>2. ASSUME NEW p \in Client, Lock(p) \/ Write(p) \/ Read(p) PROVE IInv'
    BY <2>2, LockKeeps, WriteKeeps, ReadKeeps
  <2>3. CASE Receive \/ Handle \/ Send
    BY <2>3, ReceiveKeeps, HandleKeeps, SendKeeps
  <2>4. ASSUME NEW p \in Client, Gone(p) \/ ClientFails(p) \/ ClientSeesEnd(p) PROVE IInv'
    BY <2>4, GoneKeeps, ClientFailsKeeps, ClientSeesEndKeeps
  <2>5. CASE ServerShortRead \/ ServerSeesEnd
    BY <2>5, ShortReadKeeps, ServerSeesEndKeeps
  <2>6. CASE UNCHANGED vars
    BY <2>6, StutterKeeps
  <2> QED BY <2>1, <2>2, <2>3, <2>4, <2>5, <2>6 DEF Next
<1> QED BY <1>1, <1>2, PTL DEF Spec

\* Each reader finds the field it waits for, for every operation and whatever
\* the requests before: no process and no server is ever lost.
THEOREM FramesCorrect == Spec => []FramesKept
<1>1. IInv => FramesKept
  <2> SUFFICES ASSUME IInv PROVE FramesKept
    OBVIOUS
  <2>1. sat # "lost"
    BY DEF IInv, Exchanging, Resting, Stopped, Asking, Handling, Answering
  <2>2. \A p \in Client : at[p] # "lost"
    BY DEF IInv, Typed
  <2> QED BY <2>1, <2>2 DEF FramesKept
<1> QED BY <1>1, CommInvariant, PTL

\* Exchanges do not overlap: everything on the way is of the one process that
\* is in an exchange, and it starts with empty streams.
THEOREM ExchangesCorrect == Spec => []ExchangesApart
<1>1. IInv => ExchangesApart
  <2> SUFFICES ASSUME IInv, NEW p \in Client, Busy(p)
               PROVE  /\ \A q \in Client : Busy(q) => p = q
                      /\ \A k \in 1..Len(req) : req[k].from = p
                      /\ \A k \in 1..Len(rep) : rep[k].from = p
                      /\ out[p] = RequestFields(p, op[p]) /\ sat # "ended" =>
                           req = <<>> /\ rep = <<>> /\ sat = "recv" /\ sdue = RequestDue
    BY DEF ExchangesApart
  <2>1. \A q \in Client : Busy(q) => p = q
    BY SameProcess DEF IInv, Engaged
  <2>2. ~AllGone
    BY DEF Busy, AllGone
  <2>3. req \in Seq(Fields(p)) /\ rep \in Seq(Fields(p))
    <3>1. <<>> \in Seq(Fields(p))
      BY EmptySeq
    <3>2. CASE Stopped(p)
      BY <2>2, <3>1, <3>2 DEF Stopped
    <3>3. ASSUME NEW o \in Requests, NEW rest \in Seq(Fields(p)), Asking(p, o, rest)
          PROVE  req \in Seq(Fields(p)) /\ rep \in Seq(Fields(p))
      BY <3>1, <3>3 DEF Asking
    <3>4. ASSUME NEW o \in Requests, Handling(p, o) \/ Answering(p, o)
          PROVE  req \in Seq(Fields(p)) /\ rep \in Seq(Fields(p))
      BY <3>1, <3>4 DEF Handling, Answering
    <3> QED BY <3>2, <3>3, <3>4, WhoseExchange
  <2>4. ASSUME NEW s \in Seq(Fields(p)) PROVE \A k \in 1..Len(s) : s[k].from = p
    <3>1. \A k \in 1..Len(s) : s[k] \in Fields(p)
      BY ElementOfSeq
    <3> QED BY <3>1 DEF Fields
  <2>5. ASSUME out[p] = RequestFields(p, op[p]), sat # "ended"
        PROVE  req = <<>> /\ rep = <<>> /\ sat = "recv" /\ sdue = RequestDue
    <3>1. PICK o \in Requests : o = op[p]
      BY DEF IInv, Typed
    <3>2. PICK f : f = out[p] /\ f # <<>> /\ f \notin Seq(Later(p))
      BY <2>5, <3>1, RequestTyped, RequestHeader
    <3>3. at[p] = "write"
      BY <3>2 DEF IInv, Typed
    <3>4. PICK r \in Requests, rest \in Seq(Fields(p)) : Asking(p, r, rest)
      <4>1. \A r \in Requests : ~Handling(p, r) /\ ~Answering(p, r)
        BY <3>3 DEF Handling, Answering
      <4> QED BY <2>5, <4>1, WhoseExchange DEF Stopped
    <3>5. rest = f /\ rep = <<>> /\ sat = "recv"
      BY <3>2, <3>4 DEF Asking
    <3> QED BY <3>2, <3>4, <3>5 DEF Asking
  <2> QED BY <2>1, <2>3, <2>4, <2>5
<1> QED BY <1>1, CommInvariant, PTL

\* A server that starts with a request holds no buffer of the requests before.
THEOREM BuffersCorrect == Spec => []BuffersFreed
<1>1. IInv => BuffersFreed
  BY DEF IInv
<1> QED BY <1>1, CommInvariant, PTL

-----------------------------------------------------------------------------
(* The refinement of Exchange.                                             *)

Phase(p) == IF at[p] \notin {"wait", "write", "read"} THEN "idle"
            ELSE IF Served(p) THEN "served" ELSE "asked"
Phases   == [p \in Client |-> Phase(p)]

OthersStay(p) == \A q \in Client \ {p} : Phase(q)' = Phase(q)

\* A process moves on, and the others stay where they are.
LEMMA OneMoves ==
  ASSUME NEW p \in Client, OthersStay(p),
         \/ Phase(p) = "idle" /\ Phase(p)' = "asked"
         \/ /\ Phase(p) = "asked" /\ Phase(p)' = "served"
            /\ \A q \in Client : Phase(q) # "served"
         \/ Phase(p)' = "idle"
         \/ Phase(p)' = Phase(p)
  PROVE  [Abstract!Next]_Phases
<1>1. Phases' = [Phases EXCEPT ![p] = Phase(p)']
  BY DEF Phases, OthersStay
<1>2. \A q \in Client : Phases[q] = Phase(q)
  BY DEF Phases
<1>3. CASE Phase(p) = "idle" /\ Phase(p)' = "asked"
  <2>1. Abstract!Ask(p)
    BY <1>1, <1>2, <1>3 DEF Abstract!Ask, Phases, Phase
  <2> QED BY <2>1 DEF Abstract!Next
<1>4. CASE /\ Phase(p) = "asked" /\ Phase(p)' = "served"
           /\ \A q \in Client : Phase(q) # "served"
  <2>1. Abstract!Serve(p)
    BY <1>1, <1>2, <1>4 DEF Abstract!Serve, Phases, Phase
  <2> QED BY <2>1 DEF Abstract!Next
<1>5. CASE Phase(p)' = "idle" /\ Phase(p) # "idle"
  <2>1. Abstract!Fail(p)
    BY <1>1, <1>2, <1>5 DEF Abstract!Fail, Phases, Phase
  <2> QED BY <2>1 DEF Abstract!Next
<1>6. CASE Phase(p)' = Phase(p)
  BY <1>6 DEF Phases, OthersStay
<1> QED BY <1>3, <1>4, <1>5, <1>6

LEMMA NoneMoves ==
  ASSUME \A q \in Client : Phase(q)' = Phase(q)
  PROVE  [Abstract!Next]_Phases
BY DEF Phases

\* A process whose place does not change stays in its phase unless it reads an
\* answer.
LEMMA Stays ==
  ASSUME NEW q \in Client, at'[q] = at[q],
         at[q] # "read" \/ (Served(q)' <=> Served(q))
  PROVE  Phase(q)' = Phase(q)
BY DEF Phase, Served

\* Every step is one of Exchange, or changes no phase.
LEMMA StepRefines ==
  ASSUME IInv, [Next]_vars
  PROVE  [Abstract!Next]_Phases
<1> USE DEF IInv
<1>1. ASSUME NEW p \in Client, NEW o \in Requests, Call(p, o)
      PROVE  [Abstract!Next]_Phases
  <2>1. /\ at[p] = "idle" /\ at'[p] = "wait" /\ rep' = rep /\ sat' = sat
        /\ \A q \in Client \ {p} : at'[q] = at[q]
    BY <1>1 DEF Call, svars, Typed
  <2>2. OthersStay(p)
    BY <2>1, Stays DEF OthersStay, Served
  <2>3. Phase(p) = "idle" /\ Phase(p)' = "asked"
    BY <2>1 DEF Phase, Served
  <2> QED BY <2>2, <2>3, OneMoves
<1>2. ASSUME NEW p \in Client, Lock(p)
      PROVE  [Abstract!Next]_Phases
  <2>1. /\ at[p] = "wait" /\ at'[p] = "write" /\ rep' = rep /\ sat' = sat
        /\ \A q \in Client \ {p} : at'[q] = at[q]
    BY <1>2 DEF Lock, svars, Typed
  <2>2. OthersStay(p)
    BY <2>1, Stays DEF OthersStay, Served
  <2>3. Phase(p)' = Phase(p)
    BY <2>1 DEF Phase, Served
  <2> QED BY <2>2, <2>3, OneMoves
<1>3. ASSUME NEW p \in Client, Write(p)
      PROVE  [Abstract!Next]_Phases
  <2>1. /\ at[p] = "write" /\ at'[p] \in {"write", "read"} /\ rep' = rep /\ sat' = sat
        /\ \A q \in Client \ {p} : at'[q] = at[q]
    BY <1>3 DEF Write, svars, Typed
  <2>2. OthersStay(p)
    BY <2>1, Stays DEF OthersStay, Served
  <2>3. sat # "send" /\ rep = <<>>
    <3>1. Busy(p) /\ ~AllGone
      BY <2>1 DEF Busy, AllGone
    <3>2. \A o \in Requests : ~Handling(p, o) /\ ~Answering(p, o)
      BY <2>1, <3>1 DEF Handling, Answering
    <3> QED BY <3>1, <3>2, WhoseExchange DEF Stopped, Asking
  <2>4. Phase(p)' = Phase(p)
    BY <2>1, <2>3 DEF Phase, Served
  <2> QED BY <2>2, <2>4, OneMoves
<1>4. ASSUME NEW p \in Client, Read(p)
      PROVE  [Abstract!Next]_Phases
  <2>1. at[p] = "read" /\ rep # <<>> /\ sat' = sat
    BY <1>4 DEF Read, svars
  <2>2. Busy(p) /\ \A q \in Client \ {p} : at[q] # "read"
    BY <2>1, SameProcess DEF Busy, Engaged
  <2>3. CASE \E where \in {"idle", "lost"} : Leave(p, where)
    <3>1. /\ at'[p] \in {"idle", "lost"}
          /\ \A q \in Client \ {p} : at'[q] = at[q]
      BY <2>3 DEF Leave, Typed
    <3>2. OthersStay(p)
      BY <2>2, <3>1, Stays DEF OthersStay
    <3>3. Phase(p)' = "idle"
      BY <3>1 DEF Phase
    <3> QED BY <3>2, <3>3, OneMoves
  <2>4. CASE at' = at
    <3>1. OthersStay(p)
      BY <2>2, <2>4, Stays DEF OthersStay
    <3>2. Busy(p)' /\ ~AllGone'
      BY <2>1, <2>4 DEF Busy, AllGone
    <3>3. Served(p)'
      <4>1. CASE sat = "send"
        BY <2>1, <2>4, <4>1 DEF Served
      <4>2. CASE sat # "send"
        <5>1. PICK o \in Requests : Answering(p, o)'
          BY <1>4, <2>1, <2>4, ReadKeeps
        <5>2. Answers(locked', p, o, Then(rep', sout'), due'[p]) /\ sout' = <<>>
          BY <2>1, <3>2, <4>2, <5>1 DEF Answering
        <5>3. PICK s \in Seq(Fields(p)), e \in Seq(Fields(p)) : s = rep' /\ e = sout'
          BY <5>1 DEF Answering
        <5>4. Then(s, e) = s
          BY <5>2, <5>3, ThenProperties
        <5>5. rep' # <<>>
          BY <5>2, <5>3, <5>4, AnswerOne
        <5> QED BY <2>1, <2>4, <5>5 DEF Served
      <4> QED BY <4>1, <4>2
    <3>4. Served(p)
      BY <2>1 DEF Served
    <3>5. Phase(p)' = Phase(p)
      BY <2>4, <3>3, <3>4, Stays
    <3> QED BY <3>1, <3>5, OneMoves
  <2> QED BY <1>4, <2>3, <2>4 DEF Read
<1>5. CASE Receive
  <2>1. sat # "send" /\ sat' # "send" /\ rep' = rep /\ at' = at
    BY <1>5 DEF Receive, cvars
  <2> QED BY <2>1, Stays, NoneMoves DEF Served
<1>6. CASE Handle
  <2>1. sat = "handle" /\ at' = at /\ rep' = rep
    BY <1>6 DEF Handle, cvars
  <2>2. PICK p \in Client, o \in Requests : Handling(p, o)
    BY <2>1 DEF Exchanging, Resting, Stopped, Asking, Answering
  <2>3. rep = <<>> /\ Engaged(p)
    BY <2>2 DEF Handling
  <2>4. CASE sat' = "send" /\ Busy(p)
    <3>1. at[p] = "read"
      BY <2>2, <2>4 DEF Handling
    <3>2. OthersStay(p)
      <4>1. \A q \in Client \ {p} : at[q] # "read"
        BY <2>4, SameProcess DEF Busy, Engaged
      <4> QED BY <2>1, <4>1, Stays DEF OthersStay
    <3>3. Phase(p) = "asked" /\ Phase(p)' = "served"
      BY <2>1, <2>3, <2>4, <3>1 DEF Phase, Served
    <3>4. \A q \in Client : Phase(q) # "served"
      BY <2>1, <2>3 DEF Phase, Served
    <3> QED BY <3>2, <3>3, <3>4, OneMoves
  <2>5. CASE ~Busy(p)
    <3>1. \A q \in Client : at[q] = "gone"
      BY <2>3, <2>5 DEF Engaged, AllGone
    <3> QED BY <2>1, <3>1, Stays, NoneMoves
  <2>6. CASE sat' # "send"
    BY <2>1, <2>6, Stays, NoneMoves DEF Served
  <2> QED BY <2>4, <2>5, <2>6
<1>7. CASE Send
  <2>1. sat = "send" /\ at' = at
    BY <1>7 DEF Send, cvars
  <2>2. rep' # <<>>
    <3>1. PICK p \in Client, o \in Requests : Answering(p, o)
      BY <2>1 DEF Exchanging, Resting, Stopped, Asking, Handling
    <3>2. PICK s \in Seq(Fields(p)), t \in Seq(Fields(p)) : s = rep /\ t = sout /\ t # <<>>
      BY <2>1, <3>1 DEF Answering
    <3>3. Head(t) \in Fields(p)
      BY <3>2, HeadTailProperties
    <3>4. Append(s, Head(t)) # <<>>
      BY <3>2, <3>3, AppendProperties
    <3> QED BY <1>7, <3>2, <3>4 DEF Send
  <2> QED BY <2>1, <2>2, Stays, NoneMoves DEF Served
<1>8. ASSUME NEW p \in Client, Gone(p) \/ ClientSeesEnd(p)
      PROVE  [Abstract!Next]_Phases
  <2>1. PICK where \in {"idle", "gone"} : Leave(p, where)
    BY <1>8 DEF Gone, ClientSeesEnd
  <2>2. rep' = rep /\ sat' = sat
    BY <1>8 DEF Gone, ClientSeesEnd, svars
  <2>3. /\ at'[p] \in {"idle", "gone"}
        /\ \A q \in Client \ {p} : at'[q] = at[q]
    BY <2>1 DEF Leave, Typed
  <2>4. OthersStay(p)
    BY <2>2, <2>3, Stays DEF OthersStay, Served
  <2>5. Phase(p)' = "idle"
    BY <2>3 DEF Phase
  <2> QED BY <2>4, <2>5, OneMoves
<1>9. CASE ServerShortRead
  <2>1. sat = "recv" /\ sat' = "ended" /\ rep' = rep /\ at' = at
    BY <1>9 DEF ServerShortRead, EndServer, cvars
  <2> QED BY <2>1, Stays, NoneMoves DEF Served
<1>10. CASE ServerSeesEnd
  <2>1. at' = at /\ \A q \in Client : at[q] = "gone"
    BY <1>10 DEF ServerSeesEnd, cvars
  <2> QED BY <2>1, Stays, NoneMoves
<1>11. CASE UNCHANGED vars
  <2>1. at' = at /\ rep' = rep /\ sat' = sat
    BY <1>11 DEF vars, cvars, svars
  <2> QED BY <2>1, Stays, NoneMoves DEF Served
<1>12. ASSUME NEW p \in Client, ClientFails(p)
       PROVE  [Abstract!Next]_Phases
  <2>1. /\ Leave(p, "idle") /\ sat' = sat /\ NothingBehind(p)
    BY <1>12 DEF ClientFails, svars
  <2>2. at'[p] = "idle" /\ \A q \in Client \ {p} : at'[q] = at[q]
    BY <2>1 DEF Leave, Typed
  <2>3. OthersStay(p)
    <3>1. CASE rep' = rep
      BY <2>1, <2>2, <3>1, Stays DEF OthersStay, Served
    <3>2. CASE at[p] = "read"
      <4>1. \A q \in Client \ {p} : at[q] # "read"
        BY <3>2, SameProcess DEF Busy, Engaged
      <4> QED BY <2>2, <4>1, Stays DEF OthersStay
    <3> QED BY <2>1, <3>1, <3>2 DEF NothingBehind
  <2>4. Phase(p)' = "idle"
    BY <2>2 DEF Phase
  <2> QED BY <2>3, <2>4, OneMoves
<1> QED BY <1>1, <1>2, <1>3, <1>4, <1>5, <1>6, <1>7, <1>8, <1>9, <1>10, <1>11, <1>12 DEF Next

\* The fields, the two streams and the lock together keep the promise of
\* Exchange: the server answers the request it has before it takes another one,
\* and the answer goes to the process that asked.
THEOREM ExchangeKept == Spec => ExchangeSpec
<1>1. Init => Abstract!Init
  <2> SUFFICES ASSUME Init PROVE Abstract!Init
    OBVIOUS
  <2>1. \A p \in Client : at[p] \notin {"wait", "write", "read"}
    BY DEF Init
  <2> QED BY <2>1 DEF Abstract!Init
<1>2. IInv /\ [Next]_vars => [Abstract!Next]_Phases
  BY StepRefines
<1> QED BY <1>1, <1>2, CommInvariant, PTL DEF ExchangeSpec, Spec, Abstract!Spec, Phases, Phase
=============================================================================
