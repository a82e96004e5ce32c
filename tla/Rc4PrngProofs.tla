---------------------------- MODULE Rc4PrngProofs ----------------------------
(***************************************************************************)
(* The properties of Rc4Prng for a buffer of any size, in particular for   *)
(* the 256 of the code, which TLC cannot reach.                            *)
(***************************************************************************)
EXTENDS Rc4Prng, TLAPS

\* Arithmetic on bytes stays within the bytes, and Inc is the successor
\* around the end.
LEMMA ByteArithmetic ==
  ASSUME NEW a \in Byte, NEW b \in Byte
  PROVE  Inc(a) \in Byte /\ Add(a, b) \in Byte
  BY SizeAssumption DEF Byte, Inc, Add

LEMMA IncInjective ==
  ASSUME NEW a \in Byte, NEW b \in Byte, Inc(a) = Inc(b)
  PROVE  a = b
  BY SizeAssumption DEF Byte, Inc

\* In a turn of the schedule x and j are inside of the arrays, and in a read x.
LEMMA IndexInside ==
  ASSUME TypeOK
  PROVE  /\ Schedule => x \in Byte /\ j \in Byte
         /\ phase = "ready" => x \in Byte
  <1>1. x \in 0..N /\ j \in 0..N
    BY DEF TypeOK
  <1>2. ASSUME Schedule PROVE x < N /\ j <= x
    BY <1>2 DEF Schedule, TypeOK
  <1>3. phase = "ready" => x < N
    BY DEF TypeOK
  <1>4. QED  BY <1>1, <1>2, <1>3, SizeAssumption DEF Byte

\* What a read leaves.
LEMMA ReadByteValues ==
  ASSUME TypeOK, ReadByte
  PROVE  /\ x \in Byte /\ x' \in Byte /\ y \in Byte /\ y' \in Byte
         /\ buf[x'] \in Byte
         /\ buf' = Swapped(buf, x', y')
         /\ buf'[y'] = buf[x']
  <1>1. x \in Byte /\ y \in Byte
    BY IndexInside DEF ReadByte, TypeOK
  <1>2. x' \in Byte
    BY <1>1, ByteArithmetic DEF ReadByte
  <1>3. buf[x'] \in Byte
    BY <1>2 DEF TypeOK
  <1>4. y' \in Byte
    BY <1>1, <1>3, ByteArithmetic DEF ReadByte
  <1>5. Swapped(buf, x', y')[y'] = buf[x']
    BY <1>2, <1>4 DEF TypeOK, Swapped
  <1>6. QED  BY <1>1, <1>2, <1>3, <1>4, <1>5 DEF ReadByte

\* Exchanging two elements gives a buffer again, with every other element
\* where it was.
LEMMA SwapValues ==
  ASSUME NEW s \in [Byte -> Byte], NEW a \in Byte, NEW b \in Byte
  PROVE  /\ Swapped(s, a, b) \in [Byte -> Byte]
         /\ Swapped(s, a, b)[a] = s[b]
         /\ Swapped(s, a, b)[b] = s[a]
         /\ \A c \in Byte \ {a, b} : Swapped(s, a, b)[c] = s[c]
  BY DEF Swapped

\* Exchanging them twice is doing nothing.
LEMMA SwapTwice ==
  ASSUME NEW s \in [Byte -> Byte], NEW a \in Byte, NEW b \in Byte
  PROVE  Swapped(Swapped(s, a, b), a, b) = s
  <1>1. Swapped(Swapped(s, a, b), a, b) \in [Byte -> Byte]
    BY SwapValues
  <1>2. ASSUME NEW c \in Byte
        PROVE  Swapped(Swapped(s, a, b), a, b)[c] = s[c]
    BY DEF Swapped
  <1>3. QED  BY <1>1, <1>2

\* An exchange keeps elements apart that were apart.
LEMMA SwapKeepsPermutation ==
  ASSUME NEW s \in [Byte -> Byte], NEW a \in Byte, NEW b \in Byte,
         \A c, d \in Byte : s[c] = s[d] => c = d
  PROVE  \A c, d \in Byte : Swapped(s, a, b)[c] = Swapped(s, a, b)[d] => c = d
  <1> DEFINE from(c) == IF c = a THEN b ELSE IF c = b THEN a ELSE c
  <1>1. \A c \in Byte : from(c) \in Byte /\ Swapped(s, a, b)[c] = s[from(c)]
    BY SMTT(20), SwapValues
  <1>2. \A c, d \in Byte : from(c) = from(d) => c = d
    OBVIOUS
  <1>3. QED  BY <1>1, <1>2

------------------------------------------------------------------------------
\* Every variable keeps its type, and the schedule reads its key inside of
\* the array and of what was given.
THEOREM TypeCorrect == Spec => []TypeOK
  <1>1. Init => TypeOK
    BY SizeAssumption DEF Init, TypeOK, Byte, NoKey
  <1>2. TypeOK /\ [Next]_vars => TypeOK'
    <2> SUFFICES ASSUME TypeOK, [Next]_vars PROVE TypeOK'
      OBVIOUS
    <2> USE SizeAssumption
    <2>1. ASSUME NEW n \in SeedSizes, NEW in \in [1..n -> Byte], Seed(n, in)
          PROVE  TypeOK'
      <3>1. n \in Nat /\ Accepted(n) \in 0..n /\ x + Accepted(n) \in 0..N
        BY SeedAssumption DEF TypeOK, Accepted
      <3>2. ASSUME NEW i \in Byte, x <= i, i < x + Accepted(n)
            PROVE  in[i - x + 1] \in Byte
        <4>1. i - x + 1 \in 1..n
          BY SMTT(20), <3>1, <3>2 DEF TypeOK, Byte
        <4>2. QED  BY <4>1
      <3>3. buf' \in [Byte -> Byte]
        BY <2>1, <3>2 DEF Seed, TypeOK
      <3>4. QED  BY <2>1, <3>1, <3>3 DEF Seed, TypeOK
    <2>2. CASE Ready
      BY <2>2 DEF Ready, TypeOK, Identity, Byte
    <2>3. CASE Schedule
      <3>1. x \in Byte /\ j \in Byte
        BY <2>3, IndexInside
      <3>2. buf[x] \in Byte /\ key[j] \in Byte
        BY <3>1 DEF TypeOK
      <3>3. y' \in Byte
        BY <2>3, <3>2, ByteArithmetic DEF Schedule, TypeOK
      <3>4. buf' \in [Byte -> Byte]
        BY <2>3, <3>1, <3>3, SwapValues DEF Schedule, TypeOK
      <3>5. /\ x \in Nat /\ x < N /\ x' = x + 1
            /\ j \in Nat /\ j <= x /\ keylen \in 0..N
            /\ keylen > 0 => j < keylen
            /\ j' = IF j + 1 = keylen THEN 0 ELSE j + 1
        BY <2>3 DEF Schedule, TypeOK
      <3>6. /\ x' \in 0..N /\ j' \in 0..N /\ j' <= x'
            /\ keylen > 0 => j' < keylen
        BY <3>5
      <3>7. QED  BY <2>3, <3>3, <3>4, <3>6 DEF Schedule, TypeOK
    <2>4. CASE Scheduled
      BY <2>4 DEF Scheduled, TypeOK, NoKey, Byte
    <2>5. CASE ReadByte
      <3>1. buf' \in [Byte -> Byte]
        BY <2>5, ReadByteValues, SwapValues DEF TypeOK
      <3>2. x' \in 0..N /\ x' < N
        BY <2>5, ReadByteValues DEF Byte
      <3>3. QED  BY <2>5, ReadByteValues, <3>1, <3>2 DEF ReadByte, TypeOK
    <2>6. CASE UNCHANGED vars
      BY <2>6 DEF vars, TypeOK
    <2>7. QED  BY <2>1, <2>2, <2>3, <2>4, <2>5, <2>6 DEF Next
  <1>3. QED  BY <1>1, <1>2, PTL DEF Spec

\* The buffer is a permutation from the schedule on, whatever was seeded.
THEOREM PermutationKept == Spec => []BufferIsPermutation
  <1>1. Init => BufferIsPermutation
    BY DEF Init, BufferIsPermutation
  <1>2. TypeOK /\ TypeOK' /\ BufferIsPermutation /\ [Next]_vars
          => BufferIsPermutation'
    <2> SUFFICES ASSUME TypeOK, TypeOK', BufferIsPermutation, [Next]_vars
                 PROVE  BufferIsPermutation'
      OBVIOUS
    <2>1. ASSUME NEW n \in SeedSizes, NEW in \in [1..n -> Byte], Seed(n, in)
          PROVE  BufferIsPermutation'
      BY <2>1 DEF Seed, BufferIsPermutation
    <2>2. CASE Ready
      BY <2>2 DEF Ready, BufferIsPermutation, Identity
    <2>3. CASE Schedule
      <3>1. x \in Byte /\ y' \in Byte /\ buf' = Swapped(buf, x, y')
        BY <2>3, IndexInside DEF Schedule, TypeOK
      <3>2. QED
        BY <2>3, <3>1, SwapKeepsPermutation
        DEF Schedule, TypeOK, BufferIsPermutation
    <2>4. CASE Scheduled
      BY <2>4 DEF Scheduled, BufferIsPermutation
    <2>5. CASE ReadByte
      BY SMTT(20), <2>5, ReadByteValues, SwapKeepsPermutation
      DEF ReadByte, TypeOK, BufferIsPermutation
    <2>6. CASE UNCHANGED vars
      BY <2>6 DEF vars, BufferIsPermutation
    <2>7. QED  BY <2>1, <2>2, <2>3, <2>4, <2>5, <2>6 DEF Next
  <1>3. QED  BY <1>1, <1>2, TypeCorrect, PTL DEF Spec

\* The short cycle is closed backwards: a read that ends in it began in it.
LEMMA ShortCycleClosed ==
  ASSUME TypeOK, ReadByte, ShortCycle'
  PROVE  ShortCycle
  <1>1. buf[x'] = 1
    BY ReadByteValues DEF ShortCycle
  <1>2. y' = Inc(y)
    BY <1>1, ReadByteValues, SizeAssumption DEF ReadByte, Add, Inc, Byte
  <1>3. y' = Inc(x')
    BY DEF ShortCycle
  <1>4. y = x'
    BY <1>2, <1>3, ReadByteValues, IncInjective
  <1>5. QED  BY <1>1, <1>4 DEF ShortCycle, ReadByte

\* The generator starts outside of the short cycle and never gets there.
THEOREM ShortCycleAvoided == Spec => []NeverShortCycle
  <1>1. Init => NeverShortCycle
    BY DEF Init, NeverShortCycle
  <1>2. TypeOK /\ NeverShortCycle /\ [Next]_vars => NeverShortCycle'
    <2> SUFFICES ASSUME TypeOK, NeverShortCycle, [Next]_vars
                 PROVE  NeverShortCycle'
      OBVIOUS
    <2>1. CASE \E n \in SeedSizes : \E in \in [1..n -> Byte] : Seed(n, in)
      BY <2>1 DEF Seed, NeverShortCycle
    <2>2. CASE Ready \/ Schedule
      BY <2>2 DEF Ready, Schedule, NeverShortCycle
    <2>3. CASE Scheduled
      BY <2>3, SizeAssumption DEF Scheduled, NeverShortCycle, ShortCycle, Inc
    <2>4. CASE ReadByte
      BY <2>4, ShortCycleClosed DEF ReadByte, NeverShortCycle
    <2>5. CASE UNCHANGED vars
      BY <2>5 DEF vars, NeverShortCycle, ShortCycle
    <2>6. QED  BY <2>1, <2>2, <2>3, <2>4, <2>5 DEF Next
  <1>3. QED  BY <1>1, <1>2, TypeCorrect, PTL DEF Spec

\* Every read can be undone from the state it leads to.
THEOREM ReadsInvertible == Spec => ReadLosesNothing
  <1> DEFINE Undone == /\ x' = Inc(x)
                       /\ y' = Add(y, buf'[y'])
                       /\ buf = Swapped(buf', x', y')
  <1>1. TypeOK /\ ReadByte => Undone
    <2> SUFFICES ASSUME TypeOK, ReadByte PROVE Undone
      OBVIOUS
    <2>1. buf = Swapped(buf', x', y')
      BY ReadByteValues, SwapTwice DEF TypeOK
    <2>2. QED  BY <2>1, ReadByteValues DEF ReadByte
  <1>2. TypeOK /\ [Next]_vars => [ReadByte => Undone]_vars
    BY <1>1
  <1>3. QED  BY <1>2, TypeCorrect, PTL DEF Spec, ReadLosesNothing
==============================================================================
