------------------------------- MODULE Rc4Prng -------------------------------
(***************************************************************************)
(* The generator behind the handles of contexts and sessions,              *)
(* my_rc4_prng.c, as sk_swld_tapi_handle_generator_plugin_init drives it:  *)
(* init, seed, ready, and then one read for every handle.                  *)
(*                                                                         *)
(* The algorithm is kept whole and N stands for its 256.  A read XORs its  *)
(* bytes onto the old handle of the table's slot; what that handle then is *)
(* no property here asks, so a read is the sequence of its state changes.  *)
(***************************************************************************)
EXTENDS Naturals

CONSTANTS
  N,         \* 256: the size of the permutation, bytes are below it
  SeedSizes  \* how much entropy a caller passes (the plugin: 16 bytes)

ASSUME SizeAssumption == N \in Nat /\ N >= 2

ASSUME SeedAssumption == SeedSizes \subseteq Nat

Byte == 0..N - 1

VARIABLES
  buf,    \* prng->buf: first the entropy, then the permutation
  x, y,   \* prng->x and prng->y; in the schedule, the locals of that name
  key,    \* the local copy of the entropy
  keylen, \* how much of it was given
  j,      \* the next byte of the key
  phase   \* "seeding", "scheduling", "ready"

vars == <<buf, x, y, key, keylen, j, phase>>

\* Arithmetic "& 255", of bytes.
Inc(a)    == IF a = N - 1 THEN 0 ELSE a + 1
Add(a, b) == IF a + b >= N THEN a + b - N ELSE a + b

\* A bug: the second assignment is missing.
CopiedOver(s, a, b) == [s EXCEPT ![a] = s[b]]

\* tmp = s[a]; s[a] = s[b]; s[b] = tmp
Swapped(s, a, b) == [s EXCEPT ![a] = s[b], ![b] = s[a]]

Identity == [i \in Byte |-> i]
NoKey    == [i \in Byte |-> 0]

\* The object comes from malloc: my_rc4_prng_init sets x and leaves the rest.
Init ==
  /\ buf \in [Byte -> Byte]
  /\ x = 0
  /\ y \in Byte
  /\ key = NoKey /\ keylen = 0 /\ j = 0
  /\ phase = "seeding"

\* A bug: the entropy is not trimmed.
AcceptedAll(n) == n

\* How many of n more bytes the buffer takes.
Accepted(n) == IF x + n > N THEN N - x ELSE n

\* my_rc4_prng_seed(in, n): appends what fits.
Seed(n, in) ==
  /\ phase = "seeding"
  /\ buf' = [i \in Byte |->
               IF x <= i /\ i < x + Accepted(n) THEN in[i - x + 1] ELSE buf[i]]
  /\ x' = x + Accepted(n)
  /\ UNCHANGED <<y, key, keylen, j, phase>>

\* my_rc4_prng_ready up to its loop.
Ready ==
  /\ phase = "seeding"
  /\ key' = buf /\ keylen' = x
  /\ buf' = Identity
  /\ x' = 0 /\ y' = 0 /\ j' = 0
  /\ phase' = "scheduling"

\* One turn of the loop.  The test of the key's end follows the increment:
\* without entropy it never strikes, and the loop runs over the whole buffer.
Schedule ==
  /\ phase = "scheduling" /\ x < N
  /\ y' = Add(Add(y, buf[x]), key[j])
  /\ j' = IF j + 1 = keylen THEN 0 ELSE j + 1
  /\ buf' = Swapped(buf, x, y')
  /\ x' = x + 1
  /\ UNCHANGED <<key, keylen, phase>>

\* A bug: y goes on where the schedule left it.
ScheduledKeepY ==
  /\ phase = "scheduling" /\ x = N
  /\ x' = 0 /\ y' = y
  /\ key' = NoKey /\ keylen' = 0 /\ j' = 0
  /\ phase' = "ready"
  /\ UNCHANGED buf

\* Its end: the locals go, the indices start again.
Scheduled ==
  /\ phase = "scheduling" /\ x = N
  /\ x' = 0 /\ y' = 0
  /\ key' = NoKey /\ keylen' = 0 /\ j' = 0
  /\ phase' = "ready"
  /\ UNCHANGED buf

\* A bug: y moves on before x does.
ReadByteLate ==
  /\ phase = "ready"
  /\ x' = Inc(x)
  /\ y' = Add(y, buf[x])
  /\ buf' = Swapped(buf, x', y')
  /\ UNCHANGED <<key, keylen, j, phase>>

\* One byte of my_rc4_prng_read.
ReadByte ==
  /\ phase = "ready"
  /\ x' = Inc(x)
  /\ y' = Add(y, buf[x'])
  /\ buf' = Swapped(buf, x', y')
  /\ UNCHANGED <<key, keylen, j, phase>>

Next ==
  \/ \E n \in SeedSizes : \E in \in [1..n -> Byte] : Seed(n, in)
  \/ Ready
  \/ Schedule
  \/ Scheduled
  \/ ReadByte

Spec == Init /\ [][Next]_vars
------------------------------------------------------------------------------
(***************************************************************************)
(* Properties                                                              *)
(***************************************************************************)

TypeOK ==
  /\ buf \in [Byte -> Byte]
  /\ x \in 0..N /\ y \in Byte
  /\ key \in [Byte -> Byte] /\ keylen \in 0..N /\ j \in 0..N
  /\ phase \in {"seeding", "scheduling", "ready"}
  /\ phase = "ready" => x < N
  \* key[j] is read: inside the array, and inside what was given, if any was.
  /\ phase = "scheduling" => j <= x /\ (keylen > 0 => j < keylen)

\* From the schedule on the buffer is a permutation of the bytes: a turn of
\* either loop loses none (my_rc4_prng_ready, my_rc4_prng_read).
BufferIsPermutation ==
  phase # "seeding" => \A a, b \in Byte : buf[a] = buf[b] => a = b

\* The states of RC4's short cycle, where one byte of value 1 moves along with
\* x and the state returns after only N * (N - 1) bytes.
ShortCycle == y = Inc(x) /\ buf[y] = 1

\* Handles repeat early in no run: whatever the entropy was, the generator
\* starts outside of the short cycle and a read never enters it.  That the
\* indices start again after the schedule (my_rc4_prng_ready) is what does it.
NeverShortCycle == phase = "ready" => ~ShortCycle

\* A read can be undone: two states never lead to the same one, so the first
\* state that comes back is the one after the schedule, and no run of handles
\* falls into a loop it did not start in (my_rc4_prng_read).
ReadLosesNothing ==
  [][ ReadByte =>
        /\ x' = Inc(x)
        /\ y' = Add(y, buf'[y'])
        /\ buf = Swapped(buf', x', y') ]_vars
==============================================================================
