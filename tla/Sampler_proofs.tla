--------------------------- MODULE Sampler_proofs ---------------------------
(***************************************************************************)
(* Proofs about the way of a program through the device, for any           *)
(* statements, files, contents and texts.                                  *)
(***************************************************************************)
EXTENDS Sampler, Sequences_proofs

-----------------------------------------------------------------------------
(* base64: numbers of six and of eight bits have the same bits *)

\* A number and its bits.
LEMMA Bits6 ==
  /\ \A v \in 0 .. 63 :
        v = 32 * ((v \div 32) % 2) + 16 * ((v \div 16) % 2) + 8 * ((v \div 8) % 2)
              + 4 * ((v \div 4) % 2) + 2 * ((v \div 2) % 2) + (v % 2)
  /\ \A a, b, c, d, e, f \in 0 .. 1 :
        LET v == 32 * a + 16 * b + 8 * c + 4 * d + 2 * e + f
        IN  /\ v \in 0 .. 63
            /\ (v \div 32) % 2 = a /\ (v \div 16) % 2 = b /\ (v \div 8) % 2 = c
            /\ (v \div 4) % 2 = d /\ (v \div 2) % 2 = e /\ v % 2 = f
  OBVIOUS

\* A byte and its bits.
LEMMA Bits8 ==
  /\ \A v \in 0 .. 255 :
        v = 128 * ((v \div 128) % 2) + 64 * ((v \div 64) % 2)
              + 32 * ((v \div 32) % 2) + 16 * ((v \div 16) % 2) + 8 * ((v \div 8) % 2)
              + 4 * ((v \div 4) % 2) + 2 * ((v \div 2) % 2) + (v % 2)
  /\ \A a, b, c, d, e, f, g, h \in 0 .. 1 :
        LET v == 128 * a + 64 * b + 32 * c + 16 * d + 8 * e + 4 * f + 2 * g + h
        IN  /\ v \in 0 .. 255
            /\ (v \div 128) % 2 = a /\ (v \div 64) % 2 = b
            /\ (v \div 32) % 2 = c /\ (v \div 16) % 2 = d /\ (v \div 8) % 2 = e
            /\ (v \div 4) % 2 = f /\ (v \div 2) % 2 = g /\ v % 2 = h
  OBVIOUS

\* The bits of a number, the highest first.
Has6(v, a, b, c, d, e, f) ==
  /\ v \in 0 .. 63
  /\ (v \div 32) % 2 = a /\ (v \div 16) % 2 = b /\ (v \div 8) % 2 = c
  /\ (v \div 4) % 2 = d /\ (v \div 2) % 2 = e /\ v % 2 = f
Has8(v, a, b, c, d, e, f, g, h) ==
  /\ v \in 0 .. 255
  /\ (v \div 128) % 2 = a /\ (v \div 64) % 2 = b
  /\ (v \div 32) % 2 = c /\ (v \div 16) % 2 = d /\ (v \div 8) % 2 = e
  /\ (v \div 4) % 2 = f /\ (v \div 2) % 2 = g /\ v % 2 = h

\* A number that is put together from bits has them.
LEMMA FromBits6 ==
  ASSUME NEW v, NEW a \in 0 .. 1, NEW b \in 0 .. 1, NEW c \in 0 .. 1,
         NEW d \in 0 .. 1, NEW e \in 0 .. 1, NEW f \in 0 .. 1,
         v = 32 * a + 16 * b + 8 * c + 4 * d + 2 * e + f
  PROVE  Has6(v, a, b, c, d, e, f)
  BY DEF Has6

\* So has a byte.
LEMMA FromBits8 ==
  ASSUME NEW v, NEW a \in 0 .. 1, NEW b \in 0 .. 1, NEW c \in 0 .. 1,
         NEW d \in 0 .. 1, NEW e \in 0 .. 1, NEW f \in 0 .. 1, NEW g \in 0 .. 1,
         NEW h \in 0 .. 1,
         v = 128 * a + 64 * b + 32 * c + 16 * d + 8 * e + 4 * f + 2 * g + h
  PROVE  Has8(v, a, b, c, d, e, f, g, h)
  BY DEF Has8

\* Digits are natural numbers.
LEMMA Naturals6 == ASSUME NEW d \in Seq(0 .. 63) PROVE d \in Seq(Nat)
  <1>1. 0 .. 63 \subseteq Nat
    OBVIOUS
  <1>2. QED
    BY <1>1, SeqMonotonic

\* Bytes are natural numbers.
LEMMA Naturals8 == ASSUME NEW b \in Seq(0 .. 255) PROVE b \in Seq(Nat)
  <1>1. 0 .. 255 \subseteq Nat
    OBVIOUS
  <1>2. QED
    BY <1>1, SeqMonotonic

\* Where the bits of number i are.
LEMMA BitsOf6 ==
  ASSUME NEW ns, Len(ns) \in Nat, NEW i \in 1 .. Len(ns), ns[i] \in Nat
  PROVE  /\ BitAt(ns, 6, 6 * (i - 1) + 1) = (ns[i] \div 32) % 2
         /\ BitAt(ns, 6, 6 * (i - 1) + 2) = (ns[i] \div 16) % 2
         /\ BitAt(ns, 6, 6 * (i - 1) + 3) = (ns[i] \div 8) % 2
         /\ BitAt(ns, 6, 6 * (i - 1) + 4) = (ns[i] \div 4) % 2
         /\ BitAt(ns, 6, 6 * (i - 1) + 5) = (ns[i] \div 2) % 2
         /\ BitAt(ns, 6, 6 * (i - 1) + 6) = ns[i] % 2
  <1>1. ASSUME NEW k \in 1 .. 6
        PROVE  BitAt(ns, 6, 6 * (i - 1) + k) = (ns[i] \div 2^(6 - k)) % 2
    <2>1. /\ 1 + (6 * (i - 1) + k - 1) \div 6 = i
          /\ 6 - 1 - ((6 * (i - 1) + k - 1) % 6) = 6 - k
          /\ ~(6 * (i - 1) + k > 6 * Len(ns))
      OBVIOUS
    <2>2. QED
      BY <2>1 DEF BitAt
  <1>2. /\ 2^(6 - 1) = 32 /\ 2^(6 - 2) = 16 /\ 2^(6 - 3) = 8
        /\ 2^(6 - 4) = 4 /\ 2^(6 - 5) = 2 /\ 2^(6 - 6) = 1
    OBVIOUS
  <1>3. ns[i] \div 1 = ns[i]
    OBVIOUS
  <1>4. 1 \in 1 .. 6 /\ 2 \in 1 .. 6 /\ 3 \in 1 .. 6 /\ 4 \in 1 .. 6 /\ 5 \in 1 .. 6
          /\ 6 \in 1 .. 6
    OBVIOUS
  <1>5. QED
    BY <1>1, <1>2, <1>3, <1>4, ZenonT(60)

\* Where the bits of byte i are.
LEMMA BitsOf8 ==
  ASSUME NEW ns, Len(ns) \in Nat, NEW i \in 1 .. Len(ns), ns[i] \in Nat
  PROVE  /\ BitAt(ns, 8, 8 * (i - 1) + 1) = (ns[i] \div 128) % 2
         /\ BitAt(ns, 8, 8 * (i - 1) + 2) = (ns[i] \div 64) % 2
         /\ BitAt(ns, 8, 8 * (i - 1) + 3) = (ns[i] \div 32) % 2
         /\ BitAt(ns, 8, 8 * (i - 1) + 4) = (ns[i] \div 16) % 2
         /\ BitAt(ns, 8, 8 * (i - 1) + 5) = (ns[i] \div 8) % 2
         /\ BitAt(ns, 8, 8 * (i - 1) + 6) = (ns[i] \div 4) % 2
         /\ BitAt(ns, 8, 8 * (i - 1) + 7) = (ns[i] \div 2) % 2
         /\ BitAt(ns, 8, 8 * (i - 1) + 8) = ns[i] % 2
  <1>1. ASSUME NEW k \in 1 .. 8
        PROVE  BitAt(ns, 8, 8 * (i - 1) + k) = (ns[i] \div 2^(8 - k)) % 2
    <2>1. /\ 1 + (8 * (i - 1) + k - 1) \div 8 = i
          /\ 8 - 1 - ((8 * (i - 1) + k - 1) % 8) = 8 - k
          /\ ~(8 * (i - 1) + k > 8 * Len(ns))
      OBVIOUS
    <2>2. QED
      BY <2>1 DEF BitAt
  <1>2. BitAt(ns, 8, 8 * (i - 1) + 1) = (ns[i] \div 128) % 2
    <2>1. 1 \in 1 .. 8 /\ 2^(8 - 1) = 128
      OBVIOUS
    <2>2. QED
      BY <1>1, <2>1, Zenon
  <1>3. BitAt(ns, 8, 8 * (i - 1) + 2) = (ns[i] \div 64) % 2
    <2>1. 2 \in 1 .. 8 /\ 2^(8 - 2) = 64
      OBVIOUS
    <2>2. QED
      BY <1>1, <2>1, Zenon
  <1>4. BitAt(ns, 8, 8 * (i - 1) + 3) = (ns[i] \div 32) % 2
    <2>1. 3 \in 1 .. 8 /\ 2^(8 - 3) = 32
      OBVIOUS
    <2>2. QED
      BY <1>1, <2>1, Zenon
  <1>5. BitAt(ns, 8, 8 * (i - 1) + 4) = (ns[i] \div 16) % 2
    <2>1. 4 \in 1 .. 8 /\ 2^(8 - 4) = 16
      OBVIOUS
    <2>2. QED
      BY <1>1, <2>1, Zenon
  <1>6. BitAt(ns, 8, 8 * (i - 1) + 5) = (ns[i] \div 8) % 2
    <2>1. 5 \in 1 .. 8 /\ 2^(8 - 5) = 8
      OBVIOUS
    <2>2. QED
      BY <1>1, <2>1, Zenon
  <1>7. BitAt(ns, 8, 8 * (i - 1) + 6) = (ns[i] \div 4) % 2
    <2>1. 6 \in 1 .. 8 /\ 2^(8 - 6) = 4
      OBVIOUS
    <2>2. QED
      BY <1>1, <2>1, Zenon
  <1>8. BitAt(ns, 8, 8 * (i - 1) + 7) = (ns[i] \div 2) % 2
    <2>1. 7 \in 1 .. 8 /\ 2^(8 - 7) = 2
      OBVIOUS
    <2>2. QED
      BY <1>1, <2>1, Zenon
  <1>9. BitAt(ns, 8, 8 * (i - 1) + 8) = ns[i] % 2
    <2>1. 8 \in 1 .. 8 /\ 2^(8 - 8) = 1
      OBVIOUS
    <2>2. ns[i] \div 1 = ns[i]
      OBVIOUS
    <2>3. QED
      BY <1>1, <2>1, <2>2, Zenon
  <1>10. QED
    BY <1>2, <1>3, <1>4, <1>5, <1>6, <1>7, <1>8, <1>9, Zenon

\* Every position is that of a bit of some number.
LEMMA Positions ==
  ASSUME NEW n \in Nat, NEW size \in {6, 8}, NEW p \in 1 .. size * n
  PROVE  \E i \in 1 .. n : \E k \in 1 .. size : p = size * (i - 1) + k
  <1>1. CASE size = 6
    <2>1. /\ 1 + (p - 1) \div 6 \in 1 .. n /\ 1 + ((p - 1) % 6) \in 1 .. 6
          /\ p = 6 * ((1 + (p - 1) \div 6) - 1) + (1 + ((p - 1) % 6))
      BY <1>1
    <2>2. QED
      BY <1>1, <2>1
  <1>2. CASE size = 8
    <2>1. /\ 1 + (p - 1) \div 8 \in 1 .. n /\ 1 + ((p - 1) % 8) \in 1 .. 8
          /\ p = 8 * ((1 + (p - 1) \div 8) - 1) + (1 + ((p - 1) % 8))
      BY <1>2
    <2>2. QED
      BY <1>2, <2>1
  <1>3. QED
    BY <1>1, <1>2

\* Bits are zeros and ones.
LEMMA BitType ==
  ASSUME NEW ns \in Seq(Nat), NEW size \in {6, 8}, NEW p \in Nat, p >= 1
  PROVE  BitAt(ns, size, p) \in 0 .. 1
  <1>0. Len(ns) \in Nat /\ \A i \in 1 .. Len(ns) : ns[i] \in Nat
    OBVIOUS
  <1>1. CASE p > size * Len(ns)
    BY <1>1 DEF BitAt
  <1>2. CASE ~(p > size * Len(ns))
    <2>1. p \in 1 .. size * Len(ns)
      BY <1>0, <1>2
    <2>2. PICK i \in 1 .. Len(ns) : \E k \in 1 .. size : p = size * (i - 1) + k
      BY <1>0, <2>1, Positions
    <2>3. PICK k \in 1 .. size : p = size * (i - 1) + k
      BY <2>2
    <2>4. PICK v \in Nat : v = ns[i]
      BY <1>0
    <2>5. /\ (v \div 128) % 2 \in 0 .. 1 /\ (v \div 64) % 2 \in 0 .. 1
          /\ (v \div 32) % 2 \in 0 .. 1 /\ (v \div 16) % 2 \in 0 .. 1
          /\ (v \div 8) % 2 \in 0 .. 1 /\ (v \div 4) % 2 \in 0 .. 1
          /\ (v \div 2) % 2 \in 0 .. 1 /\ v % 2 \in 0 .. 1
      OBVIOUS
    <2>6. CASE size = 6
      <3>0. k \in {1, 2, 3, 4, 5, 6}
        BY <2>6
      <3>a. v \in Nat /\ ns[i] \in Nat /\ p = 6 * (i - 1) + k
        BY <1>0, <2>3, <2>4, <2>6
      <3>1. CASE k = 1
        <4>1. BitAt(ns, 6, 6 * (i - 1) + 1) \in 0 .. 1
          BY <1>0, <2>4, <2>5, <3>a, BitsOf6
        <4>2. QED
          BY <2>6, <3>a, <3>1, <4>1
      <3>2. CASE k = 2
        <4>1. BitAt(ns, 6, 6 * (i - 1) + 2) \in 0 .. 1
          BY <1>0, <2>4, <2>5, <3>a, BitsOf6
        <4>2. QED
          BY <2>6, <3>a, <3>2, <4>1
      <3>3. CASE k = 3
        <4>1. BitAt(ns, 6, 6 * (i - 1) + 3) \in 0 .. 1
          BY <1>0, <2>4, <2>5, <3>a, BitsOf6
        <4>2. QED
          BY <2>6, <3>a, <3>3, <4>1
      <3>4. CASE k = 4
        <4>1. BitAt(ns, 6, 6 * (i - 1) + 4) \in 0 .. 1
          BY <1>0, <2>4, <2>5, <3>a, BitsOf6
        <4>2. QED
          BY <2>6, <3>a, <3>4, <4>1
      <3>5. CASE k = 5
        <4>1. BitAt(ns, 6, 6 * (i - 1) + 5) \in 0 .. 1
          BY <1>0, <2>4, <2>5, <3>a, BitsOf6
        <4>2. QED
          BY <2>6, <3>a, <3>5, <4>1
      <3>6. CASE k = 6
        <4>1. BitAt(ns, 6, 6 * (i - 1) + 6) \in 0 .. 1
          BY <1>0, <2>4, <2>5, <3>a, BitsOf6
        <4>2. QED
          BY <2>6, <3>a, <3>6, <4>1
      <3>7. QED
        BY <3>0, <3>1, <3>2, <3>3, <3>4, <3>5, <3>6
    <2>7. CASE size = 8
      <3>0. k \in {1, 2, 3, 4, 5, 6, 7, 8}
        BY <2>7
      <3>a. v \in Nat /\ ns[i] \in Nat /\ p = 8 * (i - 1) + k
        BY <1>0, <2>3, <2>4, <2>7
      <3>1. CASE k = 1
        <4>1. BitAt(ns, 8, 8 * (i - 1) + 1) \in 0 .. 1
          BY <1>0, <2>4, <2>5, <3>a, BitsOf8
        <4>2. QED
          BY <2>7, <3>a, <3>1, <4>1
      <3>2. CASE k = 2
        <4>1. BitAt(ns, 8, 8 * (i - 1) + 2) \in 0 .. 1
          BY <1>0, <2>4, <2>5, <3>a, BitsOf8
        <4>2. QED
          BY <2>7, <3>a, <3>2, <4>1
      <3>3. CASE k = 3
        <4>1. BitAt(ns, 8, 8 * (i - 1) + 3) \in 0 .. 1
          BY <1>0, <2>4, <2>5, <3>a, BitsOf8
        <4>2. QED
          BY <2>7, <3>a, <3>3, <4>1
      <3>4. CASE k = 4
        <4>1. BitAt(ns, 8, 8 * (i - 1) + 4) \in 0 .. 1
          BY <1>0, <2>4, <2>5, <3>a, BitsOf8
        <4>2. QED
          BY <2>7, <3>a, <3>4, <4>1
      <3>5. CASE k = 5
        <4>1. BitAt(ns, 8, 8 * (i - 1) + 5) \in 0 .. 1
          BY <1>0, <2>4, <2>5, <3>a, BitsOf8
        <4>2. QED
          BY <2>7, <3>a, <3>5, <4>1
      <3>6. CASE k = 6
        <4>1. BitAt(ns, 8, 8 * (i - 1) + 6) \in 0 .. 1
          BY <1>0, <2>4, <2>5, <3>a, BitsOf8
        <4>2. QED
          BY <2>7, <3>a, <3>6, <4>1
      <3>7. CASE k = 7
        <4>1. BitAt(ns, 8, 8 * (i - 1) + 7) \in 0 .. 1
          BY <1>0, <2>4, <2>5, <3>a, BitsOf8
        <4>2. QED
          BY <2>7, <3>a, <3>7, <4>1
      <3>8. CASE k = 8
        <4>1. BitAt(ns, 8, 8 * (i - 1) + 8) \in 0 .. 1
          BY <1>0, <2>4, <2>5, <3>a, BitsOf8
        <4>2. QED
          BY <2>7, <3>a, <3>8, <4>1
      <3>9. QED
        BY <3>0, <3>1, <3>2, <3>3, <3>4, <3>5, <3>6, <3>7, <3>8
    <2>8. QED
      BY <2>6, <2>7
  <1>3. QED
    BY <1>1, <1>2

\* Numbers of the other size, bit by bit.
LEMMA RegroupTo6 ==
  ASSUME NEW ns \in Seq(Nat), NEW from \in {6, 8}, NEW i \in Nat, i >= 1
  PROVE  LET b(k) == BitAt(ns, from, 6 * (i - 1) + k)
         IN  Regroup(ns, from, 6, i)
                = 32 * b(1) + 16 * b(2) + 8 * b(3) + 4 * b(4) + 2 * b(5) + b(6)
  <1> DEFINE b(k) == BitAt(ns, from, 6 * (i - 1) + k)
  <1>1. ASSUME NEW k \in 1 .. 6 PROVE b(k) \in 0 .. 1
    <2>1. 6 * (i - 1) + k \in Nat /\ 6 * (i - 1) + k >= 1
      OBVIOUS
    <2>2. QED
      BY <2>1, BitType
  <1>2. PICK fun : fun = [k \in 1 .. 6 |-> BitAt(ns, from, (i - 1) * 6 + k) * 2^(6 - k)]
    OBVIOUS
  <1>3. \A k \in 1 .. 6 : (i - 1) * 6 + k = 6 * (i - 1) + k
    OBVIOUS
  <1>4. \A k \in 1 .. 6 : fun[k] = b(k) * 2^(6 - k)
    BY <1>2, <1>3
  <1> HIDE DEF b
  <1>5. /\ fun[1] = 32 * b(1) /\ fun[2] = 16 * b(2) /\ fun[3] = 8 * b(3)
        /\ fun[4] = 4 * b(4) /\ fun[5] = 2 * b(5) /\ fun[6] = b(6)
    <2>1. /\ 2^(6 - 1) = 32 /\ 2^(6 - 2) = 16 /\ 2^(6 - 3) = 8
          /\ 2^(6 - 4) = 4 /\ 2^(6 - 5) = 2 /\ 2^(6 - 6) = 1
      OBVIOUS
    <2>2. /\ fun[1] = b(1) * 32 /\ fun[2] = b(2) * 16 /\ fun[3] = b(3) * 8
          /\ fun[4] = b(4) * 4 /\ fun[5] = b(5) * 2 /\ fun[6] = b(6) * 1
      BY <1>4, <2>1
    <2>3. QED
      BY <1>1, <2>2, SMTT(60)
  <1>6. \A k \in 1 .. 6 : fun[k] \in Int
    <2>1. \A k \in 1 .. 6 : k \in {1, 2, 3, 4, 5, 6}
      OBVIOUS
    <2>2. QED
      BY <1>1, <1>5, <2>1
  <1>7. Regroup(ns, from, 6, i) = Total(fun, 6)
    <2>1. DOMAIN fun = 1 .. 6
      BY <1>2
    <2>2. QED
      BY <1>2, <2>1 DEF Regroup, SumFunction, Total
  <1>8. /\ Total(fun, 0) = 0
        /\ \A k \in 1 .. 6 : Total(fun, k) = Total(fun, k - 1) + fun[k]
    BY <1>6, TotalSteps
  <1>9. /\ Total(fun, 1) = fun[1] /\ Total(fun, 2) = Total(fun, 1) + fun[2]
        /\ Total(fun, 3) = Total(fun, 2) + fun[3] /\ Total(fun, 4) = Total(fun, 3) + fun[4]
        /\ Total(fun, 5) = Total(fun, 4) + fun[5] /\ Total(fun, 6) = Total(fun, 5) + fun[6]
    BY <1>6, <1>8
  <1>10. Regroup(ns, from, 6, i)
            = 32 * b(1) + 16 * b(2) + 8 * b(3) + 4 * b(4) + 2 * b(5) + b(6)
    BY <1>1, <1>5, <1>7, <1>9
  <1>11. QED
    BY <1>10 DEF b

\* Bytes, bit by bit.
LEMMA RegroupTo8 ==
  ASSUME NEW ns \in Seq(Nat), NEW from \in {6, 8}, NEW i \in Nat, i >= 1
  PROVE  LET b(k) == BitAt(ns, from, 8 * (i - 1) + k)
         IN  Regroup(ns, from, 8, i)
                = 128 * b(1) + 64 * b(2) + 32 * b(3) + 16 * b(4)
                    + 8 * b(5) + 4 * b(6) + 2 * b(7) + b(8)
  <1> DEFINE b(k) == BitAt(ns, from, 8 * (i - 1) + k)
  <1>1. ASSUME NEW k \in 1 .. 8 PROVE b(k) \in 0 .. 1
    <2>1. 8 * (i - 1) + k \in Nat /\ 8 * (i - 1) + k >= 1
      OBVIOUS
    <2>2. QED
      BY <2>1, BitType
  <1>2. PICK fun : fun = [k \in 1 .. 8 |-> BitAt(ns, from, (i - 1) * 8 + k) * 2^(8 - k)]
    OBVIOUS
  <1>3. \A k \in 1 .. 8 : (i - 1) * 8 + k = 8 * (i - 1) + k
    OBVIOUS
  <1>4. \A k \in 1 .. 8 : fun[k] = b(k) * 2^(8 - k)
    BY <1>2, <1>3
  <1> HIDE DEF b
  <1>5. /\ fun[1] = 128 * b(1) /\ fun[2] = 64 * b(2) /\ fun[3] = 32 * b(3)
        /\ fun[4] = 16 * b(4) /\ fun[5] = 8 * b(5) /\ fun[6] = 4 * b(6)
        /\ fun[7] = 2 * b(7) /\ fun[8] = b(8)
    <2>1. /\ 2^(8 - 1) = 128 /\ 2^(8 - 2) = 64 /\ 2^(8 - 3) = 32 /\ 2^(8 - 4) = 16
          /\ 2^(8 - 5) = 8 /\ 2^(8 - 6) = 4 /\ 2^(8 - 7) = 2 /\ 2^(8 - 8) = 1
      OBVIOUS
    <2>2. /\ fun[1] = b(1) * 128 /\ fun[2] = b(2) * 64 /\ fun[3] = b(3) * 32
          /\ fun[4] = b(4) * 16 /\ fun[5] = b(5) * 8 /\ fun[6] = b(6) * 4
          /\ fun[7] = b(7) * 2 /\ fun[8] = b(8) * 1
      BY <1>4, <2>1
    <2>3. QED
      BY <1>1, <2>2
  <1>6. \A k \in 1 .. 8 : fun[k] \in Int
    <2>1. \A k \in 1 .. 8 : k \in {1, 2, 3, 4, 5, 6, 7, 8}
      OBVIOUS
    <2>2. QED
      BY <1>1, <1>5, <2>1
  <1>7. Regroup(ns, from, 8, i) = Total(fun, 8)
    <2>1. DOMAIN fun = 1 .. 8
      BY <1>2
    <2>2. QED
      BY <1>2, <2>1 DEF Regroup, SumFunction, Total
  <1>8. /\ Total(fun, 0) = 0
        /\ \A k \in 1 .. 8 : Total(fun, k) = Total(fun, k - 1) + fun[k]
    BY <1>6, TotalSteps
  <1>9. /\ Total(fun, 1) = fun[1] /\ Total(fun, 2) = Total(fun, 1) + fun[2]
        /\ Total(fun, 3) = Total(fun, 2) + fun[3] /\ Total(fun, 4) = Total(fun, 3) + fun[4]
        /\ Total(fun, 5) = Total(fun, 4) + fun[5] /\ Total(fun, 6) = Total(fun, 5) + fun[6]
        /\ Total(fun, 7) = Total(fun, 6) + fun[7] /\ Total(fun, 8) = Total(fun, 7) + fun[8]
    BY <1>6, <1>8
  <1>10. Regroup(ns, from, 8, i)
            = 128 * b(1) + 64 * b(2) + 32 * b(3) + 16 * b(4)
                + 8 * b(5) + 4 * b(6) + 2 * b(7) + b(8)
    BY <1>1, <1>5, <1>7, <1>9
  <1>11. QED
    BY <1>10 DEF b

\* Numbers with the same bits are each other's regrouping, and the other way
\* round.
LEMMA SameBits6 ==
  ASSUME NEW b \in Seq(0 .. 255), NEW d \in Seq(0 .. 63),
         \A p \in 1 .. 6 * Len(d) : BitAt(d, 6, p) = BitAt(b, 8, p)
  PROVE  \A i \in 1 .. Len(d) : Regroup(b, 8, 6, i) = d[i]
  <1> SUFFICES ASSUME NEW i \in 1 .. Len(d) PROVE Regroup(b, 8, 6, i) = d[i]
    OBVIOUS
  <1>0. /\ b \in Seq(Nat) /\ d \in Seq(Nat) /\ Len(d) \in Nat
        /\ i \in Nat /\ i >= 1 /\ d[i] \in 0 .. 63 /\ d[i] \in Nat
    BY Naturals6, Naturals8
  <1>1. \A k \in 1 .. 6 : 6 * (i - 1) + k \in 1 .. 6 * Len(d)
    BY <1>0
  <1>2. \A k \in 1 .. 6 : BitAt(d, 6, 6 * (i - 1) + k) = BitAt(b, 8, 6 * (i - 1) + k)
    BY <1>1, Zenon
  <1>3. /\ 1 \in 1 .. 6 /\ 2 \in 1 .. 6 /\ 3 \in 1 .. 6 /\ 4 \in 1 .. 6 /\ 5 \in 1 .. 6
        /\ 6 \in 1 .. 6
    OBVIOUS
  <1>4. /\ BitAt(b, 8, 6 * (i - 1) + 1) = (d[i] \div 32) % 2
        /\ BitAt(b, 8, 6 * (i - 1) + 2) = (d[i] \div 16) % 2
        /\ BitAt(b, 8, 6 * (i - 1) + 3) = (d[i] \div 8) % 2
        /\ BitAt(b, 8, 6 * (i - 1) + 4) = (d[i] \div 4) % 2
        /\ BitAt(b, 8, 6 * (i - 1) + 5) = (d[i] \div 2) % 2
        /\ BitAt(b, 8, 6 * (i - 1) + 6) = d[i] % 2
    BY <1>0, <1>2, <1>3, BitsOf6
  <1>5. Regroup(b, 8, 6, i)
          = 32 * ((d[i] \div 32) % 2) + 16 * ((d[i] \div 16) % 2) + 8 * ((d[i] \div 8) % 2)
              + 4 * ((d[i] \div 4) % 2) + 2 * ((d[i] \div 2) % 2) + (d[i] % 2)
    BY <1>0, <1>4, RegroupTo6
  <1>6. QED
    BY <1>0, <1>5, Bits6

\* The same for bytes.
LEMMA SameBits8 ==
  ASSUME NEW b \in Seq(0 .. 255), NEW d \in Seq(0 .. 63),
         \A p \in 1 .. 8 * Len(b) : BitAt(d, 6, p) = BitAt(b, 8, p)
  PROVE  \A i \in 1 .. Len(b) : Regroup(d, 6, 8, i) = b[i]
  <1> SUFFICES ASSUME NEW i \in 1 .. Len(b) PROVE Regroup(d, 6, 8, i) = b[i]
    OBVIOUS
  <1>0. /\ b \in Seq(Nat) /\ d \in Seq(Nat) /\ Len(b) \in Nat
        /\ i \in Nat /\ i >= 1 /\ b[i] \in 0 .. 255 /\ b[i] \in Nat
    BY Naturals6, Naturals8
  <1>1. \A k \in 1 .. 8 : 8 * (i - 1) + k \in 1 .. 8 * Len(b)
    BY <1>0
  <1>2. \A k \in 1 .. 8 : BitAt(d, 6, 8 * (i - 1) + k) = BitAt(b, 8, 8 * (i - 1) + k)
    BY <1>1, Zenon
  <1>3. /\ 1 \in 1 .. 8 /\ 2 \in 1 .. 8 /\ 3 \in 1 .. 8 /\ 4 \in 1 .. 8 /\ 5 \in 1 .. 8
        /\ 6 \in 1 .. 8 /\ 7 \in 1 .. 8 /\ 8 \in 1 .. 8
    OBVIOUS
  <1>4. /\ BitAt(d, 6, 8 * (i - 1) + 1) = (b[i] \div 128) % 2
        /\ BitAt(d, 6, 8 * (i - 1) + 2) = (b[i] \div 64) % 2
        /\ BitAt(d, 6, 8 * (i - 1) + 3) = (b[i] \div 32) % 2
        /\ BitAt(d, 6, 8 * (i - 1) + 4) = (b[i] \div 16) % 2
        /\ BitAt(d, 6, 8 * (i - 1) + 5) = (b[i] \div 8) % 2
        /\ BitAt(d, 6, 8 * (i - 1) + 6) = (b[i] \div 4) % 2
        /\ BitAt(d, 6, 8 * (i - 1) + 7) = (b[i] \div 2) % 2
        /\ BitAt(d, 6, 8 * (i - 1) + 8) = b[i] % 2
    <2>1. BitAt(d, 6, 8 * (i - 1) + 1) = (b[i] \div 128) % 2
      BY <1>0, <1>2, <1>3, BitsOf8, ZenonT(60)
    <2>2. BitAt(d, 6, 8 * (i - 1) + 2) = (b[i] \div 64) % 2
      BY <1>0, <1>2, <1>3, BitsOf8, ZenonT(60)
    <2>3. BitAt(d, 6, 8 * (i - 1) + 3) = (b[i] \div 32) % 2
      BY <1>0, <1>2, <1>3, BitsOf8, ZenonT(60)
    <2>4. BitAt(d, 6, 8 * (i - 1) + 4) = (b[i] \div 16) % 2
      BY <1>0, <1>2, <1>3, BitsOf8, ZenonT(60)
    <2>5. BitAt(d, 6, 8 * (i - 1) + 5) = (b[i] \div 8) % 2
      BY <1>0, <1>2, <1>3, BitsOf8, ZenonT(60)
    <2>6. BitAt(d, 6, 8 * (i - 1) + 6) = (b[i] \div 4) % 2
      BY <1>0, <1>2, <1>3, BitsOf8, ZenonT(60)
    <2>7. BitAt(d, 6, 8 * (i - 1) + 7) = (b[i] \div 2) % 2
      BY <1>0, <1>2, <1>3, BitsOf8, ZenonT(60)
    <2>8. BitAt(d, 6, 8 * (i - 1) + 8) = b[i] % 2
      BY <1>0, <1>2, <1>3, BitsOf8, ZenonT(60)
    <2>9. QED
      BY <2>1, <2>2, <2>3, <2>4, <2>5, <2>6, <2>7, <2>8, Zenon
  <1>5. Regroup(d, 6, 8, i)
          = 128 * ((b[i] \div 128) % 2) + 64 * ((b[i] \div 64) % 2)
              + 32 * ((b[i] \div 32) % 2) + 16 * ((b[i] \div 16) % 2) + 8 * ((b[i] \div 8) % 2)
              + 4 * ((b[i] \div 4) % 2) + 2 * ((b[i] \div 2) % 2) + (b[i] % 2)
    BY <1>0, <1>4, RegroupTo8, SMTT(60)
  <1>6. QED
    BY <1>0, <1>5, Bits8

\* Regrouping keeps the bits, as far as there are numbers.
LEMMA Regrouped6 ==
  ASSUME NEW b \in Seq(0 .. 255), NEW n \in Nat, NEW d,
         d = [i \in 1 .. n |-> Regroup(b, 8, 6, i)]
  PROVE  /\ d \in Seq(0 .. 63) /\ Len(d) = n
         /\ \A p \in 1 .. 6 * n : BitAt(d, 6, p) = BitAt(b, 8, p)
  <1>0. b \in Seq(Nat)
    BY Naturals8
  <1>1. ASSUME NEW i \in 1 .. n
        PROVE  Has6(d[i], BitAt(b, 8, 6 * (i - 1) + 1), BitAt(b, 8, 6 * (i - 1) + 2),
                    BitAt(b, 8, 6 * (i - 1) + 3), BitAt(b, 8, 6 * (i - 1) + 4),
                    BitAt(b, 8, 6 * (i - 1) + 5), BitAt(b, 8, 6 * (i - 1) + 6))
    <2> DEFINE B(k) == BitAt(b, 8, 6 * (i - 1) + k)
    <2>1. \A k \in 1 .. 6 : B(k) \in 0 .. 1
      <3> TAKE k \in 1 .. 6
      <3>1. 6 * (i - 1) + k \in Nat /\ 6 * (i - 1) + k >= 1
        OBVIOUS
      <3>2. QED
        BY <1>0, <3>1, BitType
    <2>2. d[i] = 32 * B(1) + 16 * B(2) + 8 * B(3) + 4 * B(4) + 2 * B(5) + B(6)
      <3>1. i \in Nat /\ i >= 1
        OBVIOUS
      <3>2. QED
        BY <1>0, <3>1, RegroupTo6
    <2> HIDE DEF B
    <2>3. /\ B(1) \in 0 .. 1 /\ B(2) \in 0 .. 1 /\ B(3) \in 0 .. 1 /\ B(4) \in 0 .. 1
          /\ B(5) \in 0 .. 1 /\ B(6) \in 0 .. 1
      BY <2>1
    <2>4. Has6(d[i], B(1), B(2), B(3), B(4), B(5), B(6))
      BY <2>2, <2>3, FromBits6, Zenon
    <2>5. QED
      BY <2>4 DEF B
  <1>2. d \in Seq(0 .. 63) /\ Len(d) = n
    <2>1. d \in [1 .. n -> 0 .. 63]
      BY <1>1 DEF Has6
    <2>2. QED
      BY <2>1
  <1>3. ASSUME NEW p \in 1 .. 6 * n PROVE BitAt(d, 6, p) = BitAt(b, 8, p)
    <2>1. PICK i \in 1 .. n : \E k \in 1 .. 6 : p = 6 * (i - 1) + k
      BY Positions
    <2>2. PICK k \in 1 .. 6 : p = 6 * (i - 1) + k
      BY <2>1
    <2>3. /\ Len(d) \in Nat /\ i \in 1 .. Len(d) /\ d[i] \in Nat
      <3>1. Len(d) = n /\ d[i] \in 0 .. 63
        BY <1>1, <1>2 DEF Has6
      <3>2. \A v \in 0 .. 63 : v \in Nat
        OBVIOUS
      <3>3. QED
        BY <3>1, <3>2, Zenon
    <2>4. k \in {1, 2, 3, 4, 5, 6}
      OBVIOUS
    <2>5. /\ BitAt(b, 8, 6 * (i - 1) + 1) = (d[i] \div 32) % 2
          /\ BitAt(b, 8, 6 * (i - 1) + 2) = (d[i] \div 16) % 2
          /\ BitAt(b, 8, 6 * (i - 1) + 3) = (d[i] \div 8) % 2
          /\ BitAt(b, 8, 6 * (i - 1) + 4) = (d[i] \div 4) % 2
          /\ BitAt(b, 8, 6 * (i - 1) + 5) = (d[i] \div 2) % 2
          /\ BitAt(b, 8, 6 * (i - 1) + 6) = d[i] % 2
      BY <1>1 DEF Has6
    <2>6. CASE k = 1
      <3>1. BitAt(d, 6, 6 * (i - 1) + 1) = BitAt(b, 8, 6 * (i - 1) + 1)
        BY <2>3, <2>5, BitsOf6, Zenon
      <3>2. QED
        BY <2>2, <2>6, <3>1
    <2>7. CASE k = 2
      <3>1. BitAt(d, 6, 6 * (i - 1) + 2) = BitAt(b, 8, 6 * (i - 1) + 2)
        BY <2>3, <2>5, BitsOf6, Zenon
      <3>2. QED
        BY <2>2, <2>7, <3>1
    <2>8. CASE k = 3
      <3>1. BitAt(d, 6, 6 * (i - 1) + 3) = BitAt(b, 8, 6 * (i - 1) + 3)
        BY <2>3, <2>5, BitsOf6, Zenon
      <3>2. QED
        BY <2>2, <2>8, <3>1
    <2>9. CASE k = 4
      <3>1. BitAt(d, 6, 6 * (i - 1) + 4) = BitAt(b, 8, 6 * (i - 1) + 4)
        BY <2>3, <2>5, BitsOf6, Zenon
      <3>2. QED
        BY <2>2, <2>9, <3>1
    <2>10. CASE k = 5
      <3>1. BitAt(d, 6, 6 * (i - 1) + 5) = BitAt(b, 8, 6 * (i - 1) + 5)
        BY <2>3, <2>5, BitsOf6, Zenon
      <3>2. QED
        BY <2>2, <2>10, <3>1
    <2>11. CASE k = 6
      <3>1. BitAt(d, 6, 6 * (i - 1) + 6) = BitAt(b, 8, 6 * (i - 1) + 6)
        BY <2>3, <2>5, BitsOf6, Zenon
      <3>2. QED
        BY <2>2, <2>11, <3>1
    <2>12. QED
      BY <2>4, <2>6, <2>7, <2>8, <2>9, <2>10, <2>11
  <1>4. QED
    BY <1>2, <1>3

Regroups8(b, d, n) == b = [i \in 1 .. n |-> Regroup(d, 6, 8, i)]
\* The same for bytes.
LEMMA Regrouped8 ==
  ASSUME NEW d \in Seq(0 .. 63), NEW n \in Nat, NEW b,
         Regroups8(b, d, n)
  PROVE  /\ b \in Seq(0 .. 255) /\ Len(b) = n
         /\ \A p \in 1 .. 8 * n : BitAt(d, 6, p) = BitAt(b, 8, p)
  <1>0. d \in Seq(Nat)
    BY Naturals6
  <1>1. ASSUME NEW i \in 1 .. n
        PROVE  Has8(b[i], BitAt(d, 6, 8 * (i - 1) + 1), BitAt(d, 6, 8 * (i - 1) + 2),
                    BitAt(d, 6, 8 * (i - 1) + 3), BitAt(d, 6, 8 * (i - 1) + 4),
                    BitAt(d, 6, 8 * (i - 1) + 5), BitAt(d, 6, 8 * (i - 1) + 6),
                    BitAt(d, 6, 8 * (i - 1) + 7), BitAt(d, 6, 8 * (i - 1) + 8))
    <2> DEFINE B(k) == BitAt(d, 6, 8 * (i - 1) + k)
    <2>1. \A k \in 1 .. 8 : B(k) \in 0 .. 1
      <3> TAKE k \in 1 .. 8
      <3>1. 8 * (i - 1) + k \in Nat /\ 8 * (i - 1) + k >= 1
        OBVIOUS
      <3>2. QED
        BY <1>0, <3>1, BitType
    <2>2. b[i] = 128 * B(1) + 64 * B(2) + 32 * B(3) + 16 * B(4)
                    + 8 * B(5) + 4 * B(6) + 2 * B(7) + B(8)
      <3>1. i \in Nat /\ i >= 1
        OBVIOUS
      <3>2. QED
        BY <1>0, <3>1, RegroupTo8 DEF Regroups8
    <2> HIDE DEF B
    <2>3. /\ B(1) \in 0 .. 1 /\ B(2) \in 0 .. 1 /\ B(3) \in 0 .. 1 /\ B(4) \in 0 .. 1
          /\ B(5) \in 0 .. 1 /\ B(6) \in 0 .. 1 /\ B(7) \in 0 .. 1 /\ B(8) \in 0 .. 1
      BY <2>1
    <2>4. Has8(b[i], B(1), B(2), B(3), B(4), B(5), B(6), B(7), B(8))
      BY <2>2, <2>3, FromBits8, Zenon
    <2>5. QED
      BY <2>4 DEF B
  <1>2. b \in Seq(0 .. 255) /\ Len(b) = n
    <2>1. b \in [1 .. n -> 0 .. 255]
      BY <1>1 DEF Has8, Regroups8
    <2>2. QED
      BY <2>1 DEF Regroups8
  <1>3. ASSUME NEW p \in 1 .. 8 * n PROVE BitAt(d, 6, p) = BitAt(b, 8, p)
    <2>1. PICK i \in 1 .. n : \E k \in 1 .. 8 : p = 8 * (i - 1) + k
      BY Positions
    <2>2. PICK k \in 1 .. 8 : p = 8 * (i - 1) + k
      BY <2>1
    <2>3. /\ Len(b) \in Nat /\ i \in 1 .. Len(b) /\ b[i] \in Nat
      <3>1. Len(b) = n /\ b[i] \in 0 .. 255
        BY <1>1, <1>2 DEF Has8
      <3>2. \A v \in 0 .. 255 : v \in Nat
        OBVIOUS
      <3>3. QED
        BY <3>1, <3>2, Zenon
    <2>4. k \in {1, 2, 3, 4, 5, 6, 7, 8}
      OBVIOUS
    <2>5. /\ BitAt(d, 6, 8 * (i - 1) + 1) = (b[i] \div 128) % 2
          /\ BitAt(d, 6, 8 * (i - 1) + 2) = (b[i] \div 64) % 2
          /\ BitAt(d, 6, 8 * (i - 1) + 3) = (b[i] \div 32) % 2
          /\ BitAt(d, 6, 8 * (i - 1) + 4) = (b[i] \div 16) % 2
          /\ BitAt(d, 6, 8 * (i - 1) + 5) = (b[i] \div 8) % 2
          /\ BitAt(d, 6, 8 * (i - 1) + 6) = (b[i] \div 4) % 2
          /\ BitAt(d, 6, 8 * (i - 1) + 7) = (b[i] \div 2) % 2
          /\ BitAt(d, 6, 8 * (i - 1) + 8) = b[i] % 2
      BY <1>1 DEF Has8
    <2>6. CASE k = 1
      <3>1. BitAt(b, 8, 8 * (i - 1) + 1) = (b[i] \div 128) % 2
        BY <2>3, BitsOf8, ZenonT(60)
      <3>2. BitAt(d, 6, 8 * (i - 1) + 1) = BitAt(b, 8, 8 * (i - 1) + 1)
        BY <2>5, <3>1, Zenon
      <3>3. QED
        BY <2>2, <2>6, <3>2
    <2>7. CASE k = 2
      <3>1. BitAt(b, 8, 8 * (i - 1) + 2) = (b[i] \div 64) % 2
        BY <2>3, BitsOf8, ZenonT(60)
      <3>2. BitAt(d, 6, 8 * (i - 1) + 2) = BitAt(b, 8, 8 * (i - 1) + 2)
        BY <2>5, <3>1, Zenon
      <3>3. QED
        BY <2>2, <2>7, <3>2
    <2>8. CASE k = 3
      <3>1. BitAt(b, 8, 8 * (i - 1) + 3) = (b[i] \div 32) % 2
        BY <2>3, BitsOf8, ZenonT(60)
      <3>2. BitAt(d, 6, 8 * (i - 1) + 3) = BitAt(b, 8, 8 * (i - 1) + 3)
        BY <2>5, <3>1, Zenon
      <3>3. QED
        BY <2>2, <2>8, <3>2
    <2>9. CASE k = 4
      <3>1. BitAt(b, 8, 8 * (i - 1) + 4) = (b[i] \div 16) % 2
        BY <2>3, BitsOf8, Zenon
      <3>2. BitAt(d, 6, 8 * (i - 1) + 4) = BitAt(b, 8, 8 * (i - 1) + 4)
        BY <2>5, <3>1, Zenon
      <3>3. QED
        BY <2>2, <2>9, <3>2
    <2>10. CASE k = 5
      <3>1. BitAt(b, 8, 8 * (i - 1) + 5) = (b[i] \div 8) % 2
        BY <2>3, BitsOf8, Zenon
      <3>2. BitAt(d, 6, 8 * (i - 1) + 5) = BitAt(b, 8, 8 * (i - 1) + 5)
        BY <2>5, <3>1, Zenon
      <3>3. QED
        BY <2>2, <2>10, <3>2
    <2>11. CASE k = 6
      <3>1. BitAt(b, 8, 8 * (i - 1) + 6) = (b[i] \div 4) % 2
        BY <2>3, BitsOf8, Zenon
      <3>2. BitAt(d, 6, 8 * (i - 1) + 6) = BitAt(b, 8, 8 * (i - 1) + 6)
        BY <2>5, <3>1, Zenon
      <3>3. QED
        BY <2>2, <2>11, <3>2
    <2>12. CASE k = 7
      <3>1. BitAt(b, 8, 8 * (i - 1) + 7) = (b[i] \div 2) % 2
        BY <2>3, BitsOf8, Zenon
      <3>2. BitAt(d, 6, 8 * (i - 1) + 7) = BitAt(b, 8, 8 * (i - 1) + 7)
        BY <2>5, <3>1, Zenon
      <3>3. QED
        BY <2>2, <2>12, <3>2
    <2>13. CASE k = 8
      <3>1. BitAt(b, 8, 8 * (i - 1) + 8) = b[i] % 2
        BY <2>3, BitsOf8, Zenon
      <3>2. BitAt(d, 6, 8 * (i - 1) + 8) = BitAt(b, 8, 8 * (i - 1) + 8)
        BY <2>5, <3>1, Zenon
      <3>3. QED
        BY <2>2, <2>13, <3>2
    <2>14. QED
      BY <2>4, <2>6, <2>7, <2>8, <2>9, <2>10, <2>11, <2>12, <2>13
  <1>4. QED
    BY <1>2, <1>3

\* A sequence has its length, and elements of its kind.
LEMMA Elements ==
  ASSUME NEW T, NEW s \in Seq(T)
  PROVE  Len(s) \in Nat /\ DOMAIN s = 1 .. Len(s) /\ \A i \in 1 .. Len(s) : s[i] \in T
  OBVIOUS

\* A function on the first numbers is a sequence.
LEMMA FromElements ==
  ASSUME NEW T, NEW n \in Nat, NEW s, s = [i \in 1 .. n |-> s[i]],
         \A i \in 1 .. n : s[i] \in T
  PROVE  s \in Seq(T) /\ Len(s) = n
  <1>1. s \in [1 .. n -> T]
    BY Zenon
  <1>2. QED
    BY <1>1

\* Bits behind the last byte are zeros.
LEMMA Behind ==
  ASSUME NEW ns, NEW size, NEW p, p > size * Len(ns)
  PROVE  BitAt(ns, size, p) = 0
  BY DEF BitAt

\* How many digits and how much padding a number of bytes needs.
LEMMA Sizes ==
  ASSUME NEW n \in Nat
  PROVE  LET m == Ceil(8 * n, 6)
             l == 4 * Ceil(n, 3)
         IN  /\ m \in Nat /\ l \in Nat /\ l % 4 = 0 /\ m <= l /\ l - m \in 0 .. 2
             /\ n > 0 => m >= 1 /\ l >= 4
             /\ (6 * m) \div 8 = n /\ 8 * n <= 6 * m
  BY DEF Ceil

\* The other way round: bytes and digits of a text with some padding.
LEMMA SizesBack ==
  ASSUME NEW l \in Nat, l % 4 = 0, l > 0, NEW pad \in 0 .. 2
  PROVE  LET n == (6 * (l - pad)) \div 8
         IN  /\ n \in Nat /\ n > 0 /\ 8 * n <= 6 * (l - pad)
             /\ Ceil(8 * n, 6) = l - pad /\ 4 * Ceil(n, 3) = l
  <1>1. PICK q \in Nat : l = 4 * q /\ q > 0
    <2>1. l \div 4 \in Nat /\ l = 4 * (l \div 4) /\ l \div 4 > 0
      OBVIOUS
    <2>2. QED
      BY <2>1
  <1>2. CASE pad = 0
    BY <1>1, <1>2 DEF Ceil
  <1>3. CASE pad = 1
    BY <1>1, <1>3 DEF Ceil
  <1>4. CASE pad = 2
    BY <1>1, <1>4 DEF Ceil
  <1>5. QED
    BY <1>2, <1>3, <1>4

\* What is encoded is read again.
LEMMA RoundTrip64 ==
  ASSUME NEW b \in Seq(0 .. 255), b # << >>
  PROVE  /\ Encode64(b) # << >> /\ Len(Encode64(b)) % 4 = 0
         /\ Decode64(Encode64(b)) = b
  <1>1. PICK n \in Nat : n = Len(b)
    OBVIOUS
  <1>2. n > 0
    BY <1>1
  <1>3. PICK m : m = Ceil(8 * n, 6)
    OBVIOUS
  <1>4. PICK l : l = 4 * Ceil(n, 3)
    OBVIOUS
  <1>5. /\ m \in Nat /\ l \in Nat /\ l % 4 = 0 /\ m <= l /\ l - m \in 0 .. 2
        /\ m >= 1 /\ l >= 4 /\ (6 * m) \div 8 = n /\ 8 * n <= 6 * m
    BY <1>2, <1>3, <1>4, Sizes
  <1>6. PICK d : d = [i \in 1 .. m |-> Regroup(b, 8, 6, i)]
    OBVIOUS
  <1>7. /\ d \in Seq(0 .. 63) /\ Len(d) = m
        /\ \A p \in 1 .. 6 * m : BitAt(d, 6, p) = BitAt(b, 8, p)
    BY <1>5, <1>6, Regrouped6, ZenonT(60)
  <1>8. PICK text : text = Encode64(b)
    OBVIOUS
  <1>9. text = [i \in 1 .. l |-> IF i <= m THEN d[i] ELSE Pad]
    <2>1. text = [i \in 1 .. l |-> IF i <= m THEN Regroup(b, 8, 6, i) ELSE Pad]
      BY <1>1, <1>3, <1>4, <1>8 DEF Encode64
    <2>2. \A i \in 1 .. l : i <= m => d[i] = Regroup(b, 8, 6, i)
      BY <1>5, <1>6
    <2>3. QED
      BY <2>1, <2>2
  <1>10. /\ \A i \in 1 .. m : d[i] \in 0 .. 63 /\ d[i] # Pad
    <2>1. \A i \in 1 .. m : d[i] \in 0 .. 63
      BY <1>7, Elements, Zenon
    <2>2. \A v \in 0 .. 63 : v # Pad
      BY DEF Pad
    <2>3. QED
      BY <2>1, <2>2, Zenon
  <1>11. /\ Len(text) = l /\ DOMAIN text = 1 .. l /\ text # << >>
         /\ \A i \in 1 .. l : text[i] = IF i <= m THEN d[i] ELSE Pad
    BY <1>5, <1>9
  <1>12. Padding(text) = l - m
    <2>1. Last(text) = text[l] /\ l \in 1 .. l /\ l - 1 \in 1 .. l
      BY <1>5, <1>11 DEF Last
    <2>2. text[l] # Pad <=> m = l
      BY <1>5, <1>10, <1>11, <2>1
    <2>3. text[l - 1] # Pad <=> m >= l - 1
      BY <1>5, <1>10, <1>11, <2>1
    <2>4. QED
      BY <1>5, <1>11, <2>1, <2>2, <2>3 DEF Padding
  <1>13. SubSeq(text, 1, Len(text) - Padding(text)) = d
    <2>1. Len(text) - Padding(text) = m
      BY <1>5, <1>11, <1>12
    <2>2. SubSeq(text, 1, m) = [i \in 1 .. m |-> text[i]]
      BY <1>5, <1>9
    <2>3. \A i \in 1 .. m : text[i] = d[i]
      BY <1>5, <1>11
    <2>4. d = [i \in 1 .. m |-> d[i]]
      BY <1>6
    <2>5. QED
      BY <2>1, <2>2, <2>3, <2>4
  <1>14. \A k \in 8 * n + 1 .. 6 * m : BitAt(d, 6, k) = 0
    <2> TAKE k \in 8 * n + 1 .. 6 * m
    <2>1. k > 8 * Len(b) /\ k \in 1 .. 6 * m
      BY <1>1, <1>5
    <2>2. QED
      BY <1>7, <2>1, Behind, Zenon
  <1>15. \A p \in 1 .. 8 * Len(b) : BitAt(d, 6, p) = BitAt(b, 8, p)
    BY <1>1, <1>5, <1>7
  <1>16. \A i \in 1 .. n : Regroup(d, 6, 8, i) = b[i]
    BY <1>1, <1>7, <1>15, SameBits8
  <1>17. Decode64(text) = [i \in 1 .. n |-> Regroup(d, 6, 8, i)]
    <2>1. ~ \E i \in DOMAIN d : d[i] = Pad
      BY <1>6, <1>10
    <2>2. (6 * Len(d)) \div 8 = n /\ 6 * Len(d) = 6 * m
      BY <1>5, <1>7
    <2>3. QED
      BY <1>13, <1>14, <2>1, <2>2, Zenon DEF Decode64
  <1>18. b = [i \in 1 .. n |-> b[i]]
    BY <1>1
  <1>19. Decode64(text) = b
    BY <1>16, <1>17, <1>18
  <1>20. QED
    BY <1>5, <1>8, <1>11, <1>19

\* What is read is the encoding of what was read: no other text means it.
LEMMA Canonical64 ==
  ASSUME NEW text \in Seq(0 .. 64), text # << >>, Len(text) % 4 = 0,
         Decode64(text) # << >>
  PROVE  /\ Decode64(text) \in Seq(0 .. 255)
         /\ Encode64(Decode64(text)) = text
  <1>1. PICK l \in Nat : l = Len(text)
    OBVIOUS
  <1>2. l > 0 /\ l % 4 = 0 /\ l >= 4
    BY <1>1
  <1>3. PICK pad : pad = Padding(text)
    OBVIOUS
  <1>4. /\ pad \in 0 .. 2
        /\ \A i \in l - pad + 1 .. l : text[i] = Pad
    <2>1. Last(text) = text[l]
      BY <1>1 DEF Last
    <2>2. CASE text[l] # Pad
      BY <1>1, <1>3, <2>1, <2>2 DEF Padding
    <2>3. CASE text[l] = Pad /\ text[l - 1] # Pad
      BY <1>1, <1>3, <2>1, <2>3 DEF Padding
    <2>4. CASE text[l] = Pad /\ text[l - 1] = Pad
      BY <1>1, <1>3, <2>1, <2>4 DEF Padding
    <2>5. QED
      BY <2>2, <2>3, <2>4
  <1>5. PICK m \in Nat : m = l - pad
    BY <1>2, <1>4
  <1>6. PICK d : d = SubSeq(text, 1, m)
    OBVIOUS
  <1>7. /\ Len(d) = m /\ DOMAIN d = 1 .. m
        /\ \A i \in 1 .. m : d[i] = text[i] /\ text[i] \in 0 .. 64
    <2>1. m \in 0 .. Len(text)
      BY <1>1, <1>4, <1>5
    <2>2. d = [i \in 1 .. m |-> text[i]]
      BY <1>6, <2>1
    <2>3. \A i \in 1 .. m : i \in 1 .. Len(text)
      BY <2>1
    <2>4. \A i \in 1 .. m : text[i] \in 0 .. 64
      BY <2>3, Elements, Zenon
    <2>5. QED
      BY <2>2, <2>4
  <1>8. PICK n : n = (6 * m) \div 8
    OBVIOUS
  <1>9. /\ n \in Nat /\ n > 0 /\ 8 * n <= 6 * m
        /\ Ceil(8 * n, 6) = m /\ 4 * Ceil(n, 3) = l
    BY <1>2, <1>4, <1>5, <1>8, SizesBack
  <1>10. /\ \A i \in 1 .. m : d[i] # Pad
         /\ \A k \in 8 * n + 1 .. 6 * m : BitAt(d, 6, k) = 0
         /\ Decode64(text) = [i \in 1 .. n |-> Regroup(d, 6, 8, i)]
    <2>1. SubSeq(text, 1, Len(text) - Padding(text)) = d
      BY <1>1, <1>3, <1>5, <1>6
    <2>2. (6 * Len(d)) \div 8 = n /\ 6 * Len(d) = 6 * m
      BY <1>7, <1>8
    <2>3. QED
      BY <1>7, <2>1, <2>2, Zenon DEF Decode64
  <1>11. d \in Seq(0 .. 63)
    <2>1. \A v \in 0 .. 64 : v # Pad => v \in 0 .. 63
      BY DEF Pad
    <2>2. \A i \in 1 .. m : d[i] \in 0 .. 63
      BY <1>7, <1>10, <2>1, Zenon
    <2>3. d = [i \in 1 .. m |-> d[i]]
      BY <1>1, <1>4, <1>5, <1>6
    <2>4. QED
      BY <2>2, <2>3, FromElements, Zenon
  <1>12. PICK b : b = [i \in 1 .. n |-> Regroup(d, 6, 8, i)]
    OBVIOUS
  <1>13. /\ b \in Seq(0 .. 255) /\ Len(b) = n
         /\ \A p \in 1 .. 8 * n : BitAt(d, 6, p) = BitAt(b, 8, p)
    <2>1. n \in Nat
      BY <1>9
    <2>2. QED
      <3>1. Regroups8(b, d, n)
        BY <1>12 DEF Regroups8
      <3>2. QED
        BY <1>11, <2>1, <3>1, Regrouped8, ZenonT(60)
  <1>14. \A p \in 1 .. 6 * Len(d) : BitAt(d, 6, p) = BitAt(b, 8, p)
    <2> TAKE p \in 1 .. 6 * Len(d)
    <2>1. CASE p <= 8 * n
      BY <1>7, <1>9, <1>13, <2>1
    <2>2. CASE ~(p <= 8 * n)
      <3>1. p > 8 * Len(b) /\ p \in 8 * n + 1 .. 6 * m
        BY <1>7, <1>9, <1>13, <2>2
      <3>2. QED
        BY <1>10, <3>1, Behind, Zenon
    <2>3. QED
      BY <2>1, <2>2
  <1>15. \A i \in 1 .. m : Regroup(b, 8, 6, i) = d[i]
    BY <1>7, <1>11, <1>13, <1>14, SameBits6
  <1>16. Encode64(b) = [i \in 1 .. l |-> IF i <= m THEN Regroup(b, 8, 6, i) ELSE Pad]
    BY <1>9, <1>13 DEF Encode64
  <1>17. \A i \in 1 .. l :
            text[i] = IF i <= m THEN Regroup(b, 8, 6, i) ELSE Pad
    BY <1>4, <1>5, <1>7, <1>15
  <1>18. text = [i \in 1 .. l |-> text[i]]
    BY <1>1
  <1>19. QED
    BY <1>10, <1>12, <1>13, <1>16, <1>17, <1>18

\* One element in front, and off again.
LEMMA Prefixed ==
  ASSUME NEW T, NEW x \in T, NEW s \in Seq(T)
  PROVE  /\ <<x>> \o s \in Seq(T) /\ <<x>> \o s # << >>
         /\ Len(<<x>> \o s) = 1 + Len(s)
         /\ (<<x>> \o s)[1] = x /\ Tail(<<x>> \o s) = s
  OBVIOUS

\* One element off, and in front again.
LEMMA Unprefixed ==
  ASSUME NEW T, NEW s \in Seq(T), s # << >>
  PROVE  <<s[1]>> \o Tail(s) = s /\ Len(Tail(s)) = Len(s) - 1
  OBVIOUS

\* A content, of a length that the model of zlib can tell, comes back.
LEMMA RoundTrip ==
  ASSUME NEW content \in Seq(0 .. 255), Len(content) <= 255
  PROVE  DecodeQpy(EncodeQpy(content)) = content
  <1>a. Len(content) \in 0 .. 255
    <2>1. Len(content) \in Nat
      BY Elements, Zenon
    <2>2. \A v \in Nat : v <= 255 => v \in 0 .. 255
      OBVIOUS
    <2>3. QED
      BY <2>1, <2>2, Zenon
  <1>1. PICK n \in 0 .. 255 : n = Len(content)
    BY <1>a
  <1>2. PICK stream : stream = <<n>> \o content
    OBVIOUS
  <1>3. /\ stream \in Seq(0 .. 255) /\ stream # << >> /\ Len(stream) = 1 + n
        /\ stream[1] = n /\ Tail(stream) = content
    <2>1. /\ <<n>> \o content \in Seq(0 .. 255) /\ <<n>> \o content # << >>
          /\ Len(<<n>> \o content) = 1 + Len(content)
          /\ (<<n>> \o content)[1] = n /\ Tail(<<n>> \o content) = content
      BY Prefixed, ZenonT(60)
    <2>2. QED
      BY <1>1, <1>2, <2>1, Zenon
  <1>4. EncodeQpy(content) = Encode64(stream)
    BY <1>1, <1>2 DEF EncodeQpy, Compress
  <1>5. PICK text : text = Encode64(stream)
    OBVIOUS
  <1>6. text # << >> /\ Len(text) % 4 = 0 /\ Decode64(text) = stream
    BY <1>3, <1>5, RoundTrip64
  <1>7. DecodeQpy(text) = Uncompress(stream)
    BY <1>6 DEF DecodeQpy
  <1>8. Uncompress(stream) = content
    BY <1>3 DEF Uncompress
  <1>9. QED
    BY <1>4, <1>5, <1>7, <1>8

\* A text that is read is the encoding of the content that is read.
LEMMA Canonical ==
  ASSUME NEW text \in Seq(0 .. 64), DecodeQpy(text) # NoContent
  PROVE  EncodeQpy(DecodeQpy(text)) = text
  <1>1. text # << >> /\ Len(text) % 4 = 0 /\ DecodeQpy(text) = Uncompress(Decode64(text))
    BY DEF DecodeQpy
  <1>2. PICK stream : stream = Decode64(text)
    OBVIOUS
  <1>3. /\ stream # << >> /\ Len(stream) = 1 + stream[1]
        /\ Uncompress(stream) = Tail(stream)
    BY <1>1, <1>2 DEF Uncompress
  <1>4. stream \in Seq(0 .. 255) /\ Encode64(stream) = text
    BY <1>1, <1>2, <1>3, Canonical64
  <1>5. PICK content : content = Tail(stream)
    OBVIOUS
  <1>6. <<Len(content)>> \o content = stream
    <2>1. stream[1] \in 0 .. 255
      <3>1. 1 \in 1 .. Len(stream)
        BY <1>3, <1>4, Elements
      <3>2. QED
        BY <1>4, <3>1, Elements, Zenon
    <2>2. /\ <<stream[1]>> \o Tail(stream) = stream
          /\ Len(Tail(stream)) = Len(stream) - 1
      BY <1>3, <1>4, Unprefixed
    <2>3. stream[1] = Len(content)
      <3>1. \A v \in 0 .. 255 : (1 + v) - 1 = v
        OBVIOUS
      <3>2. QED
        BY <1>3, <1>5, <2>1, <2>2, <3>1, Zenon
    <2>4. QED
      BY <1>5, <2>2, <2>3
  <1>7. QED
    BY <1>1, <1>2, <1>3, <1>4, <1>5, <1>6 DEF EncodeQpy, Compress

-----------------------------------------------------------------------------
(* The way of a QPY program *)

\* What has happened to a QPY program at each stage.
QpyInv ==
  /\ source.format \in {"QASM3", "QPY", "foreign"}
  /\ source.format = "QPY" =>
        /\ source.content \in Contents
        /\ stage = "submitted" => payload = EncodeQpy(source.content)
        /\ stage = "retrieved" => retrieved = source.content
  /\ source.format = "foreign" =>
        /\ stage \in {"writing", "retrieved"}
        /\ stage = "writing" => retrieved = None
        /\ stage = "retrieved" =>
              payload \in Texts /\ retrieved = DecodeQpy(payload)

\* Programs start that way.
LEMMA QpyInvInit == Init => QpyInv
  <1> SUFFICES ASSUME Init PROVE QpyInv
    OBVIOUS
  <1>1. CASE source \in {Written(version, << >>) : version \in Versions}
    BY <1>1 DEF Init, QpyInv, Written
  <1>2. CASE source \in [format : {"QPY"}, file : Files, content : Contents]
    BY <1>2 DEF Init, QpyInv
  <1>3. CASE source = [format |-> "foreign"]
    BY <1>3 DEF Init, QpyInv
  <1>4. QED
    BY <1>1, <1>2, <1>3 DEF Init

\* Every step keeps it.
LEMMA QpyInvNext == QpyInv /\ [Next]_vars => QpyInv'
  <1> SUFFICES ASSUME QpyInv, [Next]_vars PROVE QpyInv'
    OBVIOUS
  <1>1. ASSUME NEW statement \in Statements, Write(statement) PROVE QpyInv'
    <2>1. source.format = "QASM3" /\ source'.format = source.format
      BY <1>1 DEF Write
    <2>2. QED
      BY <2>1 DEF QpyInv
  <1>2. CASE SetPrograms
    BY <1>2 DEF SetPrograms, QpyInv
  <1>3. CASE Submit
    BY <1>3 DEF Submit, QpyInv
  <1>4. CASE Retrieve
    <2>1. stage = "submitted" /\ stage' = "retrieved" /\ source' = source
      BY <1>4 DEF Retrieve
    <2>2. CASE source.format = "QASM3"
      BY <2>1, <2>2 DEF QpyInv
    <2>3. CASE source.format = "QPY"
      <3>1. retrieved' = DecodeQpy(payload) /\ payload = EncodeQpy(source.content)
        BY <1>4, <2>1, <2>3 DEF Retrieve, QpyInv
      <3>2. /\ source.content \in Seq(0 .. 255) /\ Len(source.content) <= 255
        BY <2>3, QpyAssumption DEF QpyInv
      <3>3. retrieved' = source.content
        BY <3>1, <3>2, RoundTrip
      <3>4. QED
        BY <2>1, <2>3, <3>3 DEF QpyInv
    <2>4. QED
      BY <1>4, <2>2, <2>3 DEF Retrieve
  <1>5. CASE RetrieveForeign
    BY <1>5 DEF RetrieveForeign, QpyInv
  <1>6. CASE Measure
    BY <1>6 DEF Measure, QpyInv
  <1>7. CASE Garble
    BY <1>7 DEF Garble, QpyInv
  <1>8. CASE Fetch
    BY <1>8 DEF Fetch, QpyInv
  <1>9. CASE UNCHANGED vars
    BY <1>9 DEF vars, QpyInv
  <1>10. QED
    BY <1>1, <1>2, <1>3, <1>4, <1>5, <1>6, <1>7, <1>8, <1>9 DEF Next

\* Retrieval restores the content of every QPY program, whatever its length,
\* and a text of another producer is refused or is the one encoding of the
\* content it is read as (Qpy.cpp, encodeQpy and decodeQpy).
THEOREM QpyTravelsAlways == Spec => []QpyTravels
  <1>1. QpyInv => QpyTravels
    <2> SUFFICES ASSUME QpyInv PROVE QpyTravels
      OBVIOUS
    <2>1. ASSUME source.format = "foreign", retrieved \notin {None, NoContent}
          PROVE  EncodeQpy(retrieved) = payload
      <3>1. payload \in Texts /\ retrieved = DecodeQpy(payload)
        BY <2>1 DEF QpyInv
      <3>2. payload \in Seq(0 .. 64)
        BY <3>1, QpyAssumption
      <3>3. QED
        BY <2>1, <3>1, <3>2, Canonical
    <2>2. QED
      BY <2>1 DEF QpyInv, QpyTravels
  <1>2. QED
    BY <1>1, QpyInvInit, QpyInvNext, PTL DEF Spec

-----------------------------------------------------------------------------
(* Results: the digits of a number have its bits, the highest first *)

\* The bits of a register in one shot.
IsBits(bits, width) ==
  /\ bits \in Seq(0 .. 1) /\ Len(bits) = width /\ width \in Nat
  /\ DOMAIN bits = 1 .. width /\ \A k \in 1 .. width : bits[k] \in 0 .. 1

\* A hexadecimal digit and its bits.
LEMMA Bits4 ==
  \A a, b, c, d \in 0 .. 1 :
    LET v == 8 * a + 4 * b + 2 * c + d
    IN  /\ v \in 0 .. 15
        /\ (v \div 8) % 2 = a /\ (v \div 4) % 2 = b /\ (v \div 2) % 2 = c /\ v % 2 = d
  OBVIOUS

\* Bits are bits, also those that a number does not have.
LEMMA BitIs ==
  ASSUME NEW bits, NEW width, IsBits(bits, width), NEW k \in Nat
  PROVE  /\ Bit(bits, k) \in 0 .. 1
         /\ k \in 1 .. width => Bit(bits, k) = bits[k]
         /\ k > width => Bit(bits, k) = 0
  BY DEF IsBits, Bit

\* One digit.
LEMMA DigitIs ==
  ASSUME NEW bits, NEW width, IsBits(bits, width), NEW n \in Nat, NEW i \in 1 .. n
  PROVE  LET v == Digits(bits, n)[i]
             low == 4 * (n - i)
         IN  /\ v \in HexDigits
             /\ (v \div 8) % 2 = Bit(bits, low + 4) /\ (v \div 4) % 2 = Bit(bits, low + 3)
             /\ (v \div 2) % 2 = Bit(bits, low + 2) /\ v % 2 = Bit(bits, low + 1)
  <1> DEFINE low == 4 * (n - i)
  <1>1. low + 4 \in Nat /\ low + 3 \in Nat /\ low + 2 \in Nat /\ low + 1 \in Nat
    OBVIOUS
  <1>2. Digits(bits, n)[i] = 8 * Bit(bits, low + 4) + 4 * Bit(bits, low + 3)
                                + 2 * Bit(bits, low + 2) + Bit(bits, low + 1)
    BY DEF Digits
  <1> HIDE DEF low
  <1>3. /\ Bit(bits, low + 4) \in 0 .. 1 /\ Bit(bits, low + 3) \in 0 .. 1
        /\ Bit(bits, low + 2) \in 0 .. 1 /\ Bit(bits, low + 1) \in 0 .. 1
    BY <1>1, BitIs
  <1>4. QED
    BY <1>2, <1>3, Bits4 DEF HexDigits, low

\* All of them: bit k from the left is the one at 4 * n - k + 1 from the right.
LEMMA DigitsAre ==
  ASSUME NEW bits, NEW width, IsBits(bits, width), NEW n \in Nat
  PROVE  /\ Digits(bits, n) \in Seq(HexDigits) /\ Len(Digits(bits, n)) = n
         /\ \A k \in 1 .. 4 * n : Bits(Digits(bits, n))[k] = Bit(bits, 4 * n - k + 1)
  <1>1. PICK d : d = Digits(bits, n)
    OBVIOUS
  <1>2. d = [i \in 1 .. n |-> d[i]]
    BY <1>1 DEF Digits
  <1>3. \A i \in 1 .. n : d[i] \in HexDigits
    BY <1>1, DigitIs
  <1>4. d \in Seq(HexDigits) /\ Len(d) = n
    <2>1. d \in [1 .. n -> HexDigits]
      BY <1>2, <1>3, Zenon
    <2>2. QED
      BY <2>1
  <1>5. ASSUME NEW k \in 1 .. 4 * n
        PROVE  Bits(d)[k] = Bit(bits, 4 * n - k + 1)
    <2> DEFINE i == (k + 3) \div 4
               m == (k - 1) % 4
    <2>1. i \in 1 .. n /\ m \in 0 .. 3 /\ 4 * n - k + 1 = 4 * (n - i) + (4 - m)
      OBVIOUS
    <2>2. Bits(d)[k] = (d[i] \div 2^(3 - m)) % 2
      BY <1>4 DEF Bits
    <2> HIDE DEF i, m
    <2>3. /\ (d[i] \div 8) % 2 = Bit(bits, 4 * (n - i) + 4)
          /\ (d[i] \div 4) % 2 = Bit(bits, 4 * (n - i) + 3)
          /\ (d[i] \div 2) % 2 = Bit(bits, 4 * (n - i) + 2)
          /\ d[i] % 2 = Bit(bits, 4 * (n - i) + 1)
      BY <1>1, <2>1, DigitIs
    <2>4. d[i] \in Nat
      BY <1>3, <2>1 DEF HexDigits
    <2>5. CASE m = 0
      <3>1. 2^(3 - m) = 8 /\ 4 - m = 4
        BY <2>5
      <3>2. QED
        BY <2>1, <2>2, <2>3, <3>1, Zenon
    <2>6. CASE m = 1
      <3>1. 2^(3 - m) = 4 /\ 4 - m = 3
        BY <2>6
      <3>2. QED
        BY <2>1, <2>2, <2>3, <3>1, Zenon
    <2>7. CASE m = 2
      <3>1. 2^(3 - m) = 2 /\ 4 - m = 2
        BY <2>7
      <3>2. QED
        BY <2>1, <2>2, <2>3, <3>1, Zenon
    <2>8. CASE m = 3
      <3>1. 2^(3 - m) = 1 /\ 4 - m = 1 /\ d[i] \div 1 = d[i]
        BY <2>4, <2>8
      <3>2. QED
        BY <2>1, <2>2, <2>3, <3>1, Zenon
    <2>9. QED
      BY <2>1, <2>5, <2>6, <2>7, <2>8
  <1>6. QED
    BY <1>1, <1>4, <1>5

\* As many digits as the bits need, or one more than they can need.
LEMMA LengthIs ==
  ASSUME NEW bits, NEW width, IsBits(bits, width), NEW zeros
  PROVE  /\ Length(bits, zeros) \in Nat \ {0}
         /\ \A k \in 4 * Length(bits, zeros) + 1 .. width : bits[k] = 0
  <1> DEFINE top == Ceil(width, 4) + 1
             S == {n \in 1 .. top : \A k \in 4 * n + 1 .. width : bits[k] = 0}
  <1>0. Len(bits) = width /\ width \in Nat
    BY DEF IsBits
  <1>1. top \in Nat \ {0} /\ 4 * top > width
    BY <1>0 DEF Ceil
  <1>2. CASE zeros
    <2>1. Length(bits, zeros) = top
      BY <1>0, <1>2 DEF Length
    <2> HIDE DEF top
    <2>2. QED
      BY <1>0, <1>1, <2>1
  <1>3. CASE ~zeros
    <2>1. Length(bits, zeros) = Min(S)
      BY <1>0, <1>3 DEF Length
    <2> HIDE DEF top
    <2>2. top \in S /\ S \in SUBSET Nat /\ S \subseteq Int
      BY <1>0, <1>1
    <2> HIDE DEF S
    <2>3. PICK n \in S : \A m \in S : n <= m
      BY <2>2, LeastNumber
    <2>4. Min(S) = n
      BY <2>2, <2>3, MinIs
    <2>5. QED
      BY <2>1, <2>3, <2>4 DEF S
  <1>4. QED
    BY <1>2, <1>3

\* What is shown of a number that the service writes are its bits.
LEMMA NumberRead ==
  ASSUME NEW bits, NEW width, IsBits(bits, width), NEW zeros, NEW sample,
         sample = Digits(bits, Length(bits, zeros))
  PROVE  /\ Readable(sample) /\ Fits(sample, width)
         /\ Bitstring(sample, width) = Reverse(bits)
  <1>1. PICK n \in Nat \ {0} : n = Length(bits, zeros)
    BY LengthIs
  <1>2. /\ sample \in Seq(HexDigits) /\ Len(sample) = n
        /\ \A k \in 1 .. 4 * n : Bits(sample)[k] = Bit(bits, 4 * n - k + 1)
    BY <1>1, DigitsAre
  <1>3. \A k \in 4 * n + 1 .. width : bits[k] = 0
    BY <1>1, LengthIs
  <1>4. width \in Nat /\ Len(bits) = width
    BY DEF IsBits
  <1>5. Readable(sample)
    BY <1>1, <1>2 DEF Readable
  <1>6. Fits(sample, width)
    <2>1. ASSUME NEW k \in 1 .. 4 * n - width PROVE Bits(sample)[k] = 0
      <3>1. k \in 1 .. 4 * n /\ 4 * n - k + 1 \in Nat /\ 4 * n - k + 1 > width
        BY <1>4
      <3>2. QED
        BY <1>2, <3>1, BitIs
    <2>2. QED
      BY <1>2, <2>1 DEF Fits
  <1>7. ASSUME NEW k \in 1 .. width
        PROVE  Bitstring(sample, width)[k] = bits[width - k + 1]
    <2> DEFINE e == 4 * Len(sample) - width
    <2>1. Bitstring(sample, width)[k] = IF k + e < 1 THEN 0 ELSE Bits(sample)[k + e]
      BY DEF Bitstring
    <2>2. e = 4 * n - width /\ e \in Int
      BY <1>2, <1>4
    <2> HIDE DEF e
    <2>3. CASE k + e < 1
      <3>1. width - k + 1 \in 4 * n + 1 .. width
        BY <1>4, <2>2, <2>3
      <3>2. QED
        BY <1>3, <2>1, <2>3, <3>1
    <2>4. CASE ~(k + e < 1)
      <3>1. /\ k + e \in 1 .. 4 * n /\ 4 * n - (k + e) + 1 = width - k + 1
            /\ width - k + 1 \in 1 .. width /\ width - k + 1 \in Nat
        BY <1>4, <2>2, <2>4
      <3>2. Bits(sample)[k + e] = Bit(bits, width - k + 1)
        BY <1>2, <3>1
      <3>3. Bit(bits, width - k + 1) = bits[width - k + 1]
        BY <3>1, BitIs
      <3>4. QED
        BY <2>1, <2>4, <3>2, <3>3
    <2>5. QED
      BY <2>3, <2>4
  <1>8. Bitstring(sample, width) = Reverse(bits)
    <2>1. Reverse(bits) = [k \in 1 .. width |-> bits[width - k + 1]]
      BY <1>4 DEF Reverse
    <2>2. PICK b : b = Bitstring(sample, width)
      OBVIOUS
    <2>3. b = [k \in 1 .. width |-> b[k]]
      BY <2>2 DEF Bitstring
    <2>4. \A k \in 1 .. width : b[k] = bits[width - k + 1]
      BY <1>7, <2>2
    <2>5. QED
      BY <2>1, <2>2, <2>3, <2>4
  <1>9. QED
    BY <1>5, <1>6, <1>8

-----------------------------------------------------------------------------
(* Results: the registers one behind the other are the shot *)

\* A layout as the device reads it, and its widths.
IsLayout(rs, N) ==
  /\ rs \in Seq([name : N, width : Nat]) /\ Len(rs) \in Nat /\ DOMAIN rs = 1 .. Len(rs)
  /\ \A r \in 1 .. Len(rs) : rs[r].name \in N /\ rs[r].width \in Nat

Widths(rs) == [r \in DOMAIN rs |-> rs[r].width]

\* Sequences of registers are layouts.
LEMMA LayoutIs ==
  ASSUME NEW N, NEW rs \in Seq([name : N, width : Nat])
  PROVE  IsLayout(rs, N)
  <1>1. /\ Len(rs) \in Nat /\ DOMAIN rs = 1 .. Len(rs)
        /\ \A r \in 1 .. Len(rs) : rs[r] \in [name : N, width : Nat]
    BY LenProperties, ElementOfSeq
  <1>2. QED
    BY <1>1 DEF IsLayout

\* The widths of the first registers.
LEMMA WidthIs ==
  ASSUME NEW N, NEW rs, IsLayout(rs, N)
  PROVE  /\ Width(rs) = Total(Widths(rs), Len(rs))
         /\ \A k \in 0 .. Len(rs) : Width(SubSeq(rs, 1, k)) = Total(Widths(rs), k)
         /\ \A k \in 1 .. Len(rs) : Widths(rs)[k] = rs[k].width /\ Widths(rs)[k] \in Nat
  <1>1. \A k \in 1 .. Len(rs) : Widths(rs)[k] = rs[k].width /\ Widths(rs)[k] \in Nat
    BY DEF IsLayout, Widths
  <1>2. Width(rs) = Total(Widths(rs), Len(rs))
    BY DEF IsLayout, Width, Widths, SumFunction, Total
  <1>3. ASSUME NEW k \in 0 .. Len(rs)
        PROVE  Width(SubSeq(rs, 1, k)) = Total(Widths(rs), k)
    <2>1. PICK p : p = SubSeq(rs, 1, k)
      OBVIOUS
    <2>2. DOMAIN p = 1 .. k /\ \A i \in 1 .. k : p[i] = rs[i]
      BY <2>1 DEF IsLayout
    <2>3. PICK f : f = Widths(p)
      OBVIOUS
    <2>4. Width(p) = SumFunctionOnSet(f, 1 .. k)
      BY <2>2, <2>3 DEF Width, Widths, SumFunction
    <2>5. \A i \in 1 .. k : f[i] \in Int /\ f[i] = Widths(rs)[i]
      BY <1>1, <2>2, <2>3 DEF IsLayout, Widths
    <2>6. IsFiniteSet(1 .. k)
      BY FS_Interval
    <2>7. SumFunctionOnSet(f, 1 .. k) = SumFunctionOnSet(Widths(rs), 1 .. k)
      BY <2>5, <2>6, SumSame
    <2>8. QED
      BY <2>1, <2>4, <2>7 DEF Total
  <1>4. QED
    BY <1>1, <1>2, <1>3

\* The bits of a register in a shot.
Block(rs, shot, r) ==
  LET first == Width(SubSeq(rs, 1, r - 1)) + 1
  IN  SubSeq(shot, first, first + rs[r].width - 1)

\* They are as many as the register is wide.
LEMMA BlockIs ==
  ASSUME NEW N, NEW rs, IsLayout(rs, N), NEW shot, IsBits(shot, Width(rs)),
         NEW r \in 1 .. Len(rs)
  PROVE  /\ IsBits(Block(rs, shot, r), rs[r].width)
         /\ Total(Widths(rs), r) = Total(Widths(rs), r - 1) + rs[r].width
         /\ \A i \in 1 .. rs[r].width :
               Block(rs, shot, r)[i] = shot[Total(Widths(rs), r - 1) + i]
  <1>1. PICK w : w = Widths(rs)
    OBVIOUS
  <1>2. PICK n \in Nat : n = Len(rs)
    BY DEF IsLayout
  <1>3. \A k \in 1 .. n : w[k] \in Nat
    BY <1>1, <1>2, WidthIs
  <1>4. r \in 1 .. n /\ w[r] = rs[r].width /\ Width(rs) = Total(w, n)
          /\ Width(SubSeq(rs, 1, r - 1)) = Total(w, r - 1)
    <2>1. r - 1 \in 0 .. Len(rs) /\ r \in 1 .. n
      BY <1>2
    <2>2. QED
      BY <1>1, <1>2, <2>1, WidthIs
  <1>5. PICK a \in Nat : a = Total(w, r - 1)
    <2>1. r - 1 \in 0 .. n
      BY <1>4
    <2>2. QED
      BY <1>3, <2>1, TotalGrows
  <1>6. Total(w, r) = a + w[r] /\ Total(w, r) <= Total(w, n) /\ Total(w, n) \in Nat
    <2>1. r \in 0 .. n /\ n \in 0 .. n /\ r <= n
      BY <1>2, <1>4
    <2>2. \A k \in 1 .. n : w[k] \in Int
      BY <1>3
    <2>3. Total(w, r) = Total(w, r - 1) + w[r]
      BY <1>4, <2>2, TotalSteps
    <2>4. QED
      BY <1>3, <1>5, <2>1, <2>3, TotalGrows
  <1>7. PICK m \in Nat : m = w[r]
    BY <1>3, <1>4
  <1>8. PICK b : b = SubSeq(shot, a + 1, a + m)
    OBVIOUS
  <1>9. Block(rs, shot, r) = b
    <2>1. a + 1 + m - 1 = a + m
      OBVIOUS
    <2>2. QED
      BY <1>4, <1>5, <1>7, <1>8, <2>1 DEF Block
  <1>10. shot \in Seq(0 .. 1) /\ Len(shot) = Total(w, n)
            /\ \A k \in 1 .. Total(w, n) : shot[k] \in 0 .. 1
    BY <1>4 DEF IsBits
  <1>11. b \in Seq(0 .. 1) /\ Len(b) = m /\ \A i \in 1 .. m : b[i] = shot[a + i]
    <2>1. a + m <= Total(w, n) /\ Total(w, n) \in Nat
      BY <1>6, <1>7
    <2>2. \A i \in a + 1 .. a + m : shot[i] \in 0 .. 1
      BY <1>10, <2>1
    <2>3. /\ b \in Seq(0 .. 1) /\ Len(b) = IF a + 1 <= a + m THEN (a + m) - (a + 1) + 1 ELSE 0
          /\ \A i \in 1 .. (a + m) - (a + 1) + 1 : b[i] = shot[(a + 1) + i - 1]
      <3>1. a + 1 \in Int /\ a + m \in Int
        OBVIOUS
      <3>2. QED
        BY <1>8, <2>2, <3>1, SubSeqProperties
    <2>4. \A i \in 1 .. m : (a + 1) + i - 1 = a + i
      OBVIOUS
    <2>5. (a + m) - (a + 1) + 1 = m /\ (~(a + 1 <= a + m) => m = 0)
      OBVIOUS
    <2>6. QED
      BY <2>3, <2>4, <2>5
  <1>12. IsBits(b, m)
    <2>1. DOMAIN b = 1 .. m /\ \A k \in 1 .. m : b[k] \in 0 .. 1
      BY <1>11
    <2>2. QED
      BY <1>11, <2>1 DEF IsBits
  <1>13. QED
    BY <1>1, <1>4, <1>5, <1>6, <1>7, <1>9, <1>11, <1>12

\* The same numbers from the end on.
Backwards(l, w, n) ==
  n \in Nat /\ \A k \in 1 .. n : l[k] = w[n + 1 - k] /\ w[k] \in Nat

\* And their totals.
LEMMA TotalBackwards ==
  ASSUME NEW n, NEW w, NEW l, Backwards(l, w, n)
  PROVE  \A k \in 0 .. n : Total(l, k) = Total(w, n) - Total(w, n - k)
  <1>0. n \in Nat /\ \A k \in 1 .. n : l[k] = w[n + 1 - k] /\ w[k] \in Nat
    BY DEF Backwards
  <1>1. /\ Total(w, 0) = 0 /\ \A k \in 0 .. n : Total(w, k) \in Nat
        /\ \A k \in 1 .. n : Total(w, k) = Total(w, k - 1) + w[k]
    <2>1. \A k \in 1 .. n : w[k] \in Int
      BY <1>0
    <2>2. QED
      BY <1>0, <2>1, TotalSteps, TotalGrows
  <1>2. \A k \in 1 .. n : l[k] \in Int
    <2> TAKE k \in 1 .. n
    <2>1. n + 1 - k \in 1 .. n
      BY <1>0
    <2>2. QED
      BY <1>0, <2>1
  <1>3. PICK t : t = [k \in 0 .. n |-> Total(w, k)]
    OBVIOUS
  <1>4. PICK g : g = [k \in 0 .. n |-> t[n] - t[n - k]]
    OBVIOUS
  <1>5. g[0] = 0
    BY <1>0, <1>1, <1>3, <1>4
  <1>6. \A k \in 1 .. n : g[k] = g[k - 1] + l[k]
    <2> TAKE k \in 1 .. n
    <2>1. n - k \in 0 .. n /\ n - k + 1 \in 1 .. n /\ n - k + 1 \in 0 .. n
            /\ (n - k + 1) - 1 = n - k /\ n - (k - 1) = n - k + 1 /\ n + 1 - k = n - k + 1
            /\ k \in 0 .. n /\ k - 1 \in 0 .. n /\ n \in 0 .. n
      BY <1>0
    <2>2. t[n - k + 1] = t[n - k] + l[k]
      BY <1>0, <1>1, <1>3, <2>1
    <2>3. t[n - k + 1] \in Nat /\ t[n - k] \in Nat /\ t[n] \in Nat /\ l[k] \in Int
      BY <1>1, <1>2, <1>3, <2>1
    <2>4. g[k] = t[n] - t[n - k] /\ g[k - 1] = t[n] - t[n - k + 1]
      BY <1>0, <1>4, <2>1
    <2>5. QED
      BY <2>2, <2>3, <2>4
  <1>7. \A k \in 0 .. n : Total(l, k) = g[k]
    <2>1. GrowsBy(g, l, n)
      BY <1>0, <1>2, <1>5, <1>6 DEF GrowsBy
    <2>2. QED
      BY <2>1, TotalIs, Zenon
  <1>8. \A k \in 0 .. n : n - k \in 0 .. n /\ n \in 0 .. n
    BY <1>0
  <1>9. QED
    BY <1>3, <1>4, <1>7, <1>8

\* The blocks of a sequence, of lengths w, each from its end to its beginning
\* and the last of them first.
Mirrors(seqs, shot, w, n) ==
  /\ Len(shot) = Total(w, n) /\ \A k \in 1 .. n : w[k] \in Nat
  /\ \A j \in 1 .. n :
        /\ Len(seqs[j]) = w[n + 1 - j]
        /\ \A i \in 1 .. w[n + 1 - j] : seqs[j][i] = shot[Total(w, n + 1 - j) + 1 - i]

\* One behind the other they are the sequence from its end to its beginning.
LEMMA FlattenBackwards ==
  ASSUME NEW T, NEW n, NEW w, NEW shot \in Seq(T),
         NEW seqs, Row(seqs, n, T), Mirrors(seqs, shot, w, n)
  PROVE  FlattenSeq(seqs) = Reverse(shot)
  <1>0. n \in Nat /\ \A j \in 1 .. n : w[j] \in Nat /\ w[j] \in Int
    BY DEF Row, Mirrors
  <1>1. /\ Total(w, 0) = 0 /\ \A k \in 0 .. n : Total(w, k) \in Nat
        /\ \A k \in 1 .. n : Total(w, k) = Total(w, k - 1) + w[k]
        /\ \A k \in 0 .. n : Total(w, k) <= Total(w, n)
    <2>1. n \in 0 .. n /\ \A k \in 0 .. n : k <= n
      BY <1>0
    <2>2. QED
      BY <1>0, <2>1, TotalSteps, TotalGrows
  <1>2. PICK t : t = [k \in 0 .. n |-> Total(w, k)]
    OBVIOUS
  <1>3. PICK l : l = Lengths(seqs)
    OBVIOUS
  <1>4. \A k \in 1 .. n : l[k] = w[n + 1 - k] /\ l[k] \in Int
    <2> TAKE k \in 1 .. n
    <2>1. n + 1 - k \in 1 .. n
      BY <1>0
    <2>2. QED
      BY <1>0, <1>3, <2>1 DEF Lengths, Row, Mirrors
  <1>6. \A k \in 0 .. n : Total(l, k) = t[n] - t[n - k]
    <2>1. \A k \in 0 .. n : Total(l, k) = Total(w, n) - Total(w, n - k)
      <3>1. Backwards(l, w, n)
        BY <1>0, <1>4 DEF Backwards
      <3>2. QED
        BY <3>1, TotalBackwards, SMT
    <2>2. \A k \in 0 .. n : n - k \in 0 .. n /\ n \in 0 .. n
      BY <1>0
    <2>3. QED
      BY <1>2, <2>1, <2>2
  <1>7. \A j \in 1 .. n + 1 : Before(seqs, j) = t[n] - t[n + 1 - j]
    <2> TAKE j \in 1 .. n + 1
    <2>1. j - 1 \in 0 .. n /\ n - (j - 1) = n + 1 - j
      BY <1>0
    <2>2. QED
      BY <1>3, <1>6, <2>1 DEF Before
  <1>8. PICK m \in Nat : m = Len(shot)
    BY LenProperties
  <1>9. t[n] = m /\ t[0] = 0
    BY <1>0, <1>1, <1>2, <1>8 DEF Mirrors
  <1>10. PICK r : r = Reverse(shot)
    OBVIOUS
  <1>11. r \in Seq(T) /\ Len(r) = m /\ \A p \in 1 .. m : r[p] = shot[m - p + 1]
    <2>1. r = [p \in 1 .. m |-> shot[m - p + 1]]
      BY <1>8, <1>10 DEF Reverse
    <2>2. \A p \in 1 .. m : m - p + 1 \in 1 .. m
      OBVIOUS
    <2>3. \A p \in 1 .. m : r[p] \in T
      BY <1>8, <2>1, <2>2, ElementOfSeq
    <2>4. r \in [1 .. m -> T]
      BY <2>1, <2>3
    <2>5. QED
      BY <2>1, <2>4
  <1>12. Len(r) = Before(seqs, n + 1)
    <2>1. n + 1 \in 1 .. n + 1 /\ n + 1 - (n + 1) = 0
      BY <1>0
    <2>2. QED
      BY <1>7, <1>9, <1>11, <2>1
  <1>13. ASSUME NEW j \in 1 .. n, NEW i \in 1 .. Len(seqs[j])
         PROVE  r[Before(seqs, j) + i] = seqs[j][i]
    <2>1. j \in 1 .. n + 1 /\ n + 1 - j \in 1 .. n /\ n + 1 - j \in 0 .. n
            /\ (n + 1 - j) - 1 \in 0 .. n
      BY <1>0
    <2>2. PICK a \in Nat : a = t[n + 1 - j]
      BY <1>1, <1>2, <2>1
    <2>3. PICK b \in Nat : b = w[n + 1 - j]
      BY <1>0, <2>1
    <2>4. i \in 1 .. b
      BY <2>3 DEF Mirrors
    <2>5. a >= b /\ a <= m
      <3>1. Total(w, n + 1 - j) = Total(w, (n + 1 - j) - 1) + w[n + 1 - j]
              /\ Total(w, (n + 1 - j) - 1) \in Nat /\ Total(w, n + 1 - j) <= Total(w, n)
        BY <1>1, <2>1
      <3>2. PICK c \in Nat : c = Total(w, (n + 1 - j) - 1)
        BY <3>1
      <3>3. Total(w, n + 1 - j) = a /\ Total(w, n) = m
        BY <1>0, <1>2, <1>9, <2>1, <2>2
      <3>4. a = c + b /\ a <= m
        BY <2>3, <3>1, <3>2, <3>3, Zenon
      <3>5. QED
        BY <3>4
    <2>6. Before(seqs, j) = m - a
      BY <1>7, <1>9, <2>1, <2>2
    <2>7. (m - a) + i \in 1 .. m /\ m - ((m - a) + i) + 1 = a + 1 - i
      BY <2>4, <2>5
    <2>8. r[(m - a) + i] = shot[a + 1 - i]
      BY <1>11, <2>7
    <2>9. seqs[j][i] = shot[a + 1 - i]
      BY <1>2, <2>1, <2>2, <2>3, <2>4 DEF Mirrors
    <2>10. QED
      BY <2>6, <2>8, <2>9
  <1>14. QED
    BY <1>10, <1>11, <1>12, <1>13, IsFlattened

-----------------------------------------------------------------------------
(* Results: what the service answers is read as it was measured *)

\* The bits of every shot.
IsOutcome(outcome, width) ==
  /\ outcome = [shot \in 1 .. Shots |-> outcome[shot]]
  /\ \A shot \in 1 .. Shots : IsBits(outcome[shot], width)

\* The number that the service writes for a register.
Sample(rs, shot, r, zeros) ==
  Digits(Block(rs, shot, r), Length(Block(rs, shot, r), zeros))

\* What the service writes for a register, and the names.
Answer(rs, outcome, r, zeros, counted) ==
  [bits |-> IF counted THEN rs[r].width ELSE 0,
   samples |-> [shot \in 1 .. Shots |-> Sample(rs, outcome[shot], r, zeros)]]

NamesOf(rs) == {rs[i].name : i \in DOMAIN rs}

\* An answer of the service.
Answered(d, rs, N, outcome, zeros, counted) ==
  /\ IsLayout(rs, N) /\ DistinctNames(rs) /\ IsOutcome(outcome, Width(rs))
  /\ counted \in BOOLEAN /\ d = Answers(rs, outcome, zeros, counted)

\* It has one number for each register, under its name.
LEMMA AnswerIs ==
  ASSUME NEW d, NEW rs, NEW N, NEW outcome, NEW zeros, NEW counted,
         Answered(d, rs, N, outcome, zeros, counted)
  PROVE  /\ DOMAIN d = NamesOf(rs)
         /\ \A r \in 1 .. Len(rs) : d[rs[r].name] = Answer(rs, outcome, r, zeros, counted)
  <1>0. IsLayout(rs, N) /\ DistinctNames(rs) /\ d = Answers(rs, outcome, zeros, counted)
    BY DEF Answered
  <1>1. DOMAIN d = NamesOf(rs)
    BY <1>0 DEF Answers, NamesOf
  <1>2. ASSUME NEW r \in 1 .. Len(rs)
        PROVE  d[rs[r].name] = Answer(rs, outcome, r, zeros, counted)
    <2>1. DOMAIN rs = 1 .. Len(rs)
      BY <1>0 DEF IsLayout
    <2>2. rs[r].name \in {rs[i].name : i \in DOMAIN rs}
      BY <2>1
    <2>3. (CHOOSE i \in DOMAIN rs : rs[i].name = rs[r].name) = r
      BY <1>0, <2>1 DEF DistinctNames
    <2>4. QED
      BY <1>0, <2>2, <2>3 DEF Answers, Answer, Sample, Block
  <1>3. QED
    BY <1>1, <1>2

\* Of one register.
LEMMA AnswerAt ==
  ASSUME NEW d, NEW rs, NEW N, NEW outcome, NEW zeros, NEW counted,
         Answered(d, rs, N, outcome, zeros, counted), NEW r, r \in 1 .. Len(rs)
  PROVE  d[rs[r].name] = Answer(rs, outcome, r, zeros, counted)
  BY AnswerIs, SMT

\* As many names as registers.
LEMMA NamesCount ==
  ASSUME NEW N, NEW rs, IsLayout(rs, N), DistinctNames(rs)
  PROVE  IsFiniteSet(NamesOf(rs)) /\ Cardinality(NamesOf(rs)) = Len(rs)
  <1> DEFINE S == {rs[i].name : i \in DOMAIN rs}
             f == [i \in 1 .. Len(rs) |-> rs[i].name]
  <1>1. Len(rs) \in Nat /\ DOMAIN rs = 1 .. Len(rs)
    BY DEF IsLayout
  <1>2. f \in Surjection(1 .. Len(rs), S)
    BY <1>1 DEF Surjection
  <1>3. f \in Injection(1 .. Len(rs), S)
    BY <1>1 DEF Injection, IsInjective, DistinctNames
  <1>4. IsFiniteSet(1 .. Len(rs)) /\ Cardinality(1 .. Len(rs)) = Len(rs)
    <2>1. PICK n \in Nat : n = Len(rs)
      BY <1>1
    <2>2. IsFiniteSet(1 .. n) /\ Cardinality(1 .. n) = IF 1 > n THEN 0 ELSE n - 1 + 1
      <3>1. 1 \in Int /\ n \in Int
        OBVIOUS
      <3>2. QED
        BY <3>1, FS_Interval, Zenon
    <2>3. (IF 1 > n THEN 0 ELSE n - 1 + 1) = n
      OBVIOUS
    <2>4. QED
      BY <2>1, <2>2, <2>3, Zenon
  <1> HIDE DEF f, S
  <1>5. IsFiniteSet(S) /\ Cardinality(S) = Len(rs)
    BY <1>2, <1>3, <1>4, FS_Surjection
  <1>6. QED
    BY <1>5 DEF S, NamesOf

\* The answer of the service is valid.
LEMMA AnswersValid ==
  ASSUME NEW d, NEW rs, NEW N, NEW outcome, NEW zeros, NEW counted,
         Answered(d, rs, N, outcome, zeros, counted)
  PROVE  ValidData(d, rs, Shots)
  <1>a. IsLayout(rs, N) /\ DistinctNames(rs) /\ IsOutcome(outcome, Width(rs))
          /\ counted \in BOOLEAN
    BY DEF Answered
  <1>0. Len(rs) \in Nat /\ DOMAIN rs = 1 .. Len(rs) /\ Shots \in Nat
    BY <1>a, SamplerAssumption DEF IsLayout
  <1>1. Cardinality(DOMAIN d) = Len(rs) /\ \A r \in 1 .. Len(rs) : rs[r].name \in DOMAIN d
    <2>1. DOMAIN d = NamesOf(rs)
      BY AnswerIs, Zenon
    <2>2. Cardinality(NamesOf(rs)) = Len(rs)
      BY <1>a, NamesCount
    <2>4. \A r \in 1 .. Len(rs) : rs[r].name \in NamesOf(rs)
      BY <1>0 DEF NamesOf
    <2>3. QED
      BY <2>1, <2>2, <2>4, Zenon
  <1>2. ASSUME NEW r \in 1 .. Len(rs)
        PROVE  ValidAnswer(d[rs[r].name], rs[r].width, Shots)
    <2>1. PICK samples :
             samples = [shot \in 1 .. Shots |-> Sample(rs, outcome[shot], r, zeros)]
      OBVIOUS
    <2>2. d[rs[r].name] = [bits |-> IF counted THEN rs[r].width ELSE 0, samples |-> samples]
      <3>1. d[rs[r].name] = Answer(rs, outcome, r, zeros, counted)
        BY AnswerAt, SMT
      <3>2. QED
        BY <2>1, <3>1 DEF Answer
    <2>3. \A shot \in 1 .. Shots :
             Readable(samples[shot]) /\ Fits(samples[shot], rs[r].width)
      <3> TAKE shot \in 1 .. Shots
      <3>1. IsBits(outcome[shot], Width(rs))
        BY <1>a DEF IsOutcome
      <3>2. IsBits(Block(rs, outcome[shot], r), rs[r].width)
        BY <1>a, <3>1, BlockIs
      <3>3. samples[shot] = Sample(rs, outcome[shot], r, zeros)
        BY <2>1
      <3>4. QED
        BY <3>2, <3>3, NumberRead DEF Sample
    <2>4. DOMAIN samples = 1 .. Shots /\ Len(samples) = Shots
      BY <1>0, <2>1
    <2>5. QED
      BY <1>a, <2>2, <2>3, <2>4 DEF ValidAnswer
  <1>3. QED
    BY <1>0, <1>1, <1>2 DEF ValidData

\* The registers of a shot one behind the other are the shot.
LEMMA ShotRead ==
  ASSUME NEW d, NEW rs, NEW N, NEW outcome, NEW zeros, NEW counted,
         Answered(d, rs, N, outcome, zeros, counted), NEW shot \in 1 .. Shots
  PROVE  Shot(d, rs, shot) = Reverse(outcome[shot])
  <1>0. IsLayout(rs, N) /\ DistinctNames(rs) /\ IsOutcome(outcome, Width(rs))
    BY DEF Answered
  <1>1. PICK n \in Nat : n = Len(rs) /\ DOMAIN rs = 1 .. n
    BY <1>0 DEF IsLayout
  <1>2. PICK bits : bits = outcome[shot]
    OBVIOUS
  <1>3. IsBits(bits, Width(rs))
    BY <1>0, <1>2 DEF IsOutcome
  <1>4. PICK strings : strings =
           [r \in DOMAIN rs |-> Bitstring(d[rs[r].name].samples[shot], rs[r].width)]
    OBVIOUS
  <1>5. \A r \in 1 .. n : strings[r] = Reverse(Block(rs, bits, r))
    <2> TAKE r \in 1 .. n
    <2>1. r \in 1 .. Len(rs)
      BY <1>1
    <2>2. IsBits(Block(rs, bits, r), rs[r].width)
      BY <1>0, <1>3, <2>1, BlockIs
    <2>3. d[rs[r].name].samples[shot] = Sample(rs, bits, r, zeros)
      <3>1. d[rs[r].name] = Answer(rs, outcome, r, zeros, counted)
        BY <2>1, AnswerAt, SMT
      <3>2. QED
        BY <1>2, <3>1 DEF Answer
    <2>4. Bitstring(d[rs[r].name].samples[shot], rs[r].width) = Reverse(Block(rs, bits, r))
      BY <2>2, <2>3, NumberRead DEF Sample
    <2>5. QED
      BY <1>1, <1>4, <2>4
  <1>6. PICK w : w = Widths(rs)
    OBVIOUS
  <1>7. \A r \in 1 .. n : w[r] \in Nat /\ w[r] = rs[r].width
    BY <1>0, <1>1, <1>6, WidthIs
  <1>8. Len(bits) = Total(w, n) /\ bits \in Seq(0 .. 1)
    BY <1>0, <1>1, <1>3, <1>6, WidthIs DEF IsBits
  <1>9. ASSUME NEW r \in 1 .. n
        PROVE  /\ strings[r] \in Seq(0 .. 1) /\ Len(strings[r]) = w[r]
               /\ \A i \in 1 .. w[r] : strings[r][i] = bits[Total(w, r) + 1 - i]
    <2>1. PICK b : b = Block(rs, bits, r)
      OBVIOUS
    <2>2. PICK m \in Nat : m = w[r] /\ m = rs[r].width
      BY <1>7
    <2>3. r \in 1 .. Len(rs)
      BY <1>1
    <2>4. /\ IsBits(b, m) /\ Total(w, r) = Total(w, r - 1) + m
          /\ \A i \in 1 .. m : b[i] = bits[Total(w, r - 1) + i]
      BY <1>0, <1>3, <1>6, <2>1, <2>2, <2>3, BlockIs
    <2>5. strings[r] = [i \in 1 .. m |-> b[m - i + 1]]
      BY <1>5, <2>1, <2>4 DEF Reverse, IsBits
    <2>6. \A i \in 1 .. m : m - i + 1 \in 1 .. m
      OBVIOUS
    <2>7. \A i \in 1 .. m : strings[r][i] \in 0 .. 1
      BY <2>4, <2>5, <2>6 DEF IsBits
    <2>8. strings[r] \in [1 .. m -> 0 .. 1]
      BY <2>5, <2>7
    <2>9. strings[r] \in Seq(0 .. 1) /\ Len(strings[r]) = m
      BY <2>8
    <2>10. Total(w, r - 1) \in Nat
      <3>1. r - 1 \in 0 .. n /\ \A k \in 1 .. n : w[k] \in Nat
        BY <1>7
      <3>2. QED
        BY <3>1, TotalGrows
    <2>11. \A i \in 1 .. m : Total(w, r - 1) + (m - i + 1) = Total(w, r) + 1 - i
      BY <2>4, <2>10
    <2>12. \A i \in 1 .. m : strings[r][i] = bits[Total(w, r - 1) + (m - i + 1)]
      BY <2>4, <2>5, <2>6
    <2>13. QED
      BY <2>2, <2>9, <2>11, <2>12
  <1>10. PICK seqs : seqs = Reverse(strings)
    OBVIOUS
  <1>11. DOMAIN strings = 1 .. n /\ Len(strings) = n
    BY <1>1, <1>4
  <1>12. seqs = [j \in 1 .. n |-> strings[n - j + 1]]
    BY <1>10, <1>11 DEF Reverse
  <1>13. \A j \in 1 .. n : n + 1 - j \in 1 .. n /\ seqs[j] = strings[n + 1 - j]
    <2>1. \A j \in 1 .. n : n + 1 - j \in 1 .. n /\ n - j + 1 = n + 1 - j
      OBVIOUS
    <2>2. QED
      BY <1>12, <2>1
  <1>14. Row(seqs, n, 0 .. 1)
    <2>1. DOMAIN seqs = 1 .. n /\ Len(seqs) = n /\ (n = 0 => seqs = << >>)
      BY <1>12
    <2>2. \A j \in 1 .. n : seqs[j] \in Seq(0 .. 1) /\ Len(seqs[j]) \in Nat
      BY <1>7, <1>9, <1>13
    <2>3. QED
      BY <2>1, <2>2 DEF Row
  <1>15. Mirrors(seqs, bits, w, n)
    <2>1. ASSUME NEW j \in 1 .. n
          PROVE  /\ Len(seqs[j]) = w[n + 1 - j]
                 /\ \A i \in 1 .. w[n + 1 - j] : seqs[j][i] = bits[Total(w, n + 1 - j) + 1 - i]
      <3>1. PICK r \in 1 .. n : r = n + 1 - j /\ seqs[j] = strings[r]
        BY <1>13
      <3>2. Len(strings[r]) = w[r]
              /\ \A i \in 1 .. w[r] : strings[r][i] = bits[Total(w, r) + 1 - i]
        BY <1>9
      <3>3. QED
        BY <3>1, <3>2, Zenon
    <2>2. \A k \in 1 .. n : w[k] \in Nat
      BY <1>7
    <2>3. QED
      BY <1>8, <2>1, <2>2 DEF Mirrors
  <1>16. FlattenSeq(seqs) = Reverse(bits)
    BY <1>8, <1>14, <1>15, FlattenBackwards
  <1>17. QED
    BY <1>2, <1>4, <1>10, <1>16 DEF Shot

-----------------------------------------------------------------------------
(* Results: the counts add up *)

\* A count for every shot.
LEMMA CountsAdd ==
  ASSUME NEW n \in Nat, NEW shots, DOMAIN shots = 1 .. n
  PROVE  FoldFunction(+, 0, Histogram(shots)) = n
  <1> DEFINE Keys == ToSet(shots)
             Where(T) == {i \in 1 .. n : shots[i] \in T}
  <1>1. PICK h : h = Histogram(shots)
    OBVIOUS
  <1>2. DOMAIN h = Keys /\ \A key \in Keys : h[key] = Cardinality({i \in 1 .. n : shots[i] = key})
    BY <1>1 DEF Histogram
  <1>3. FoldFunction(+, 0, h) = SumFunctionOnSet(h, Keys)
    BY <1>2 DEF FoldFunction, SumFunctionOnSet
  <1>4. IsFiniteSet(1 .. n) /\ Cardinality(1 .. n) = n
    <2>1. IsFiniteSet(1 .. n) /\ Cardinality(1 .. n) = IF 1 > n THEN 0 ELSE n - 1 + 1
      <3>1. 1 \in Int /\ n \in Int
        OBVIOUS
      <3>2. QED
        BY <3>1, FS_Interval, Zenon
    <2>2. (IF 1 > n THEN 0 ELSE n - 1 + 1) = n
      OBVIOUS
    <2>3. QED
      BY <2>1, <2>2
  <1>5. Keys = {shots[i] : i \in 1 .. n} /\ \A i \in 1 .. n : shots[i] \in Keys
    BY DEF ToSet
  <1>6. IsFiniteSet(Keys)
    <2> DEFINE f == [i \in 1 .. n |-> shots[i]]
    <2>1. f \in Surjection(1 .. n, Keys)
      BY <1>5 DEF Surjection
    <2> HIDE DEF f, Keys
    <2>2. QED
      BY <1>4, <2>1, FS_Surjection
  <1> HIDE DEF Keys
  <1>7. \A T : IsFiniteSet(Where(T)) /\ Cardinality(Where(T)) \in Nat
    <2> TAKE T
    <2>1. Where(T) \in SUBSET (1 .. n)
      OBVIOUS
    <2> HIDE DEF Where
    <2>2. QED
      BY <1>4, <2>1, FS_Subset, FS_CardinalityType
  <1>8. \A key \in Keys : h[key] = Cardinality(Where({key})) /\ h[key] \in Int
    <2> TAKE key \in Keys
    <2>1. Where({key}) = {i \in 1 .. n : shots[i] = key}
      OBVIOUS
    <2>2. h[key] = Cardinality(Where({key}))
      BY <1>2, <2>1
    <2>3. Cardinality(Where({key})) \in Nat
      BY <1>7
    <2> HIDE DEF Where
    <2>4. QED
      BY <2>2, <2>3
  <1> DEFINE c == Cardinality(Keys)
             Good(T) == SumFunctionOnSet(h, T) = Cardinality(Where(T))
             S == {m \in 0 .. c : \A T \in SUBSET Keys : Cardinality(T) = m => Good(T)}
  <1>9. c \in Nat
    BY <1>6, FS_CardinalityType
  <1>10. 0 \in S
    <2>1. ASSUME NEW T \in SUBSET Keys, Cardinality(T) = 0 PROVE Good(T)
      <3>1. T = {}
        BY <1>6, <2>1, FS_Subset, FS_EmptySet
      <3>2. SumFunctionOnSet(h, {}) = 0
        BY SumEmpty
      <3>3. Where({}) = {}
        OBVIOUS
      <3>4. Cardinality(Where({})) = 0
        BY <3>3, FS_EmptySet
      <3>5. QED
        BY <3>1, <3>2, <3>4
    <2>2. QED
      BY <1>9, <2>1
  <1>11. ASSUME NEW m \in 1 .. c, m - 1 \in S PROVE m \in S
    <2>1. ASSUME NEW T \in SUBSET Keys, Cardinality(T) = m PROVE Good(T)
      <3>1. T # {}
        BY <2>1, FS_EmptySet
      <3>2. PICK x \in T : TRUE
        BY <3>1
      <3>3. PICK U : U = T \ {x}
        OBVIOUS
      <3>4. /\ U \in SUBSET Keys /\ IsFiniteSet(T) /\ IsFiniteSet(U)
            /\ Cardinality(U) = m - 1 /\ x \notin U /\ T = U \cup {x} /\ x \in Keys
        <4>1. IsFiniteSet(T)
          BY <1>6, FS_Subset
        <4>2. IsFiniteSet(U) /\ Cardinality(U) = Cardinality(T) - 1
          BY <3>2, <3>3, <4>1, FS_RemoveElement
        <4>3. QED
          BY <2>1, <3>2, <3>3, <4>1, <4>2
      <3>5. Good(U)
        BY <1>11, <3>4
      <3>6. \A key \in U \cup {x} : h[key] \in Int
        BY <1>8, <3>4
      <3>7. SumFunctionOnSet(h, T) = h[x] + SumFunctionOnSet(h, U)
        BY <3>4, <3>6, SumAdd
      <3>8. Where(T) = Where(U) \cup Where({x}) /\ Where(U) \cap Where({x}) = {}
        BY <3>4
      <3>9. h[x] = Cardinality(Where({x}))
        BY <1>8, <3>4
      <3> HIDE DEF Where
      <3>10. PICK A : A = Where(U)
        OBVIOUS
      <3>11. PICK B : B = Where({x})
        OBVIOUS
      <3>12. /\ IsFiniteSet(A) /\ IsFiniteSet(B) /\ A \cap B = {}
             /\ Cardinality(A) \in Nat /\ Cardinality(B) \in Nat
        BY <1>7, <3>8, <3>10, <3>11
      <3>13. Cardinality(A \cup B) = Cardinality(A) + Cardinality(B) - Cardinality(A \cap B)
        BY <3>12, FS_Union
      <3>14. Cardinality(A \cup B) = Cardinality(A) + Cardinality(B)
        <4>1. Cardinality(A \cap B) = 0
          BY <3>12, FS_EmptySet
        <4>2. QED
          BY <3>12, <3>13, <4>1
      <3>15. Cardinality(Where(T)) = Cardinality(A) + Cardinality(B)
        BY <3>8, <3>10, <3>11, <3>14
      <3>16. SumFunctionOnSet(h, T) = Cardinality(B) + Cardinality(A)
        BY <3>5, <3>7, <3>9, <3>10, <3>11
      <3>17. QED
        BY <3>12, <3>15, <3>16
    <2>2. m \in 0 .. c
      BY <1>9
    <2> HIDE DEF Good
    <2>3. QED
      BY <2>1, <2>2
  <1> HIDE DEF S, c
  <1>12. 0 .. c \subseteq S
    BY <1>9, <1>10, <1>11, BoundedInduction
  <1>13. Good(Keys)
    <2>1. c \in S
      BY <1>9, <1>12
    <2> HIDE DEF Good
    <2>2. QED
      BY <2>1 DEF S, c
  <1>14. Where(Keys) = 1 .. n
    BY <1>5
  <1>15. QED
    BY <1>1, <1>3, <1>4, <1>13, <1>14

\* Of sequences with the same turns the originals are the same.
LEMMA SameReversed ==
  ASSUME NEW width, NEW u, NEW v, IsBits(u, width), IsBits(v, width),
         Reverse(u) = Reverse(v)
  PROVE  u = v
  <1>1. width \in Nat /\ Len(u) = width /\ Len(v) = width /\ u \in Seq(0 .. 1) /\ v \in Seq(0 .. 1)
    BY DEF IsBits
  <1>2. ASSUME NEW k \in 1 .. width PROVE u[k] = v[k]
    <2>1. width - k + 1 \in 1 .. width /\ width - (width - k + 1) + 1 = k
      BY <1>1
    <2>2. Reverse(u)[width - k + 1] = u[k] /\ Reverse(v)[width - k + 1] = v[k]
      BY <1>1, <2>1 DEF Reverse
    <2>3. QED
      BY <2>2
  <1>3. QED
    BY <1>1, <1>2, SeqEqual

\* Every shot is shown as it was measured, and counted.
AsMeasured(shown, outcome) ==
  /\ shown.shots = [i \in DOMAIN outcome |-> Reverse(outcome[i])]
  /\ FoldFunction(+, 0, shown.histogram) = Shots
  /\ \A i \in DOMAIN shown.shots :
        shown.histogram[shown.shots[i]]
          = Quantify(DOMAIN outcome, LAMBDA j : outcome[j] = outcome[i])

\* That is how valid answers are shown.
LEMMA ResultsRead ==
  ASSUME NEW d, NEW rs, NEW N, NEW outcome, NEW zeros, NEW counted,
         Answered(d, rs, N, outcome, zeros, counted), NEW shown,
         shown = DecodeResults(d, rs, Shots)
  PROVE  AsMeasured(shown, outcome)
  <1>0. /\ Shots \in Nat /\ DOMAIN outcome = 1 .. Shots
        /\ \A i \in 1 .. Shots : IsBits(outcome[i], Width(rs))
    BY SamplerAssumption DEF Answered, IsOutcome
  <1>1. ValidData(d, rs, Shots)
    BY AnswersValid
  <1>2. PICK shots : shots = [i \in 1 .. Shots |-> Shot(d, rs, i)]
    OBVIOUS
  <1>3. shown = [shots |-> shots, histogram |-> Histogram(shots)]
    BY <1>1, <1>2 DEF DecodeResults
  <1>4. shots = [i \in 1 .. Shots |-> Reverse(outcome[i])]
    BY <1>2, ShotRead
  <1>5. DOMAIN shots = 1 .. Shots /\ \A i \in 1 .. Shots : shots[i] = Reverse(outcome[i])
    BY <1>4
  <1>6. FoldFunction(+, 0, Histogram(shots)) = Shots
    BY <1>0, <1>5, CountsAdd
  <1>7. ASSUME NEW i \in 1 .. Shots
        PROVE  Histogram(shots)[shots[i]]
                 = Quantify(DOMAIN outcome, LAMBDA j : outcome[j] = outcome[i])
    <2>1. \A j \in 1 .. Shots : shots[j] = shots[i] <=> outcome[j] = outcome[i]
      BY <1>0, <1>5, SameReversed
    <2>2. {j \in 1 .. Shots : shots[j] = shots[i]} = {j \in 1 .. Shots : outcome[j] = outcome[i]}
      BY <2>1
    <2>3. shots[i] \in ToSet(shots)
      BY <1>5 DEF ToSet
    <2>4. Histogram(shots)[shots[i]] = Cardinality({j \in 1 .. Shots : shots[j] = shots[i]})
      BY <1>5, <2>3 DEF Histogram
    <2>5. Quantify(DOMAIN outcome, LAMBDA j : outcome[j] = outcome[i])
            = Cardinality({j \in 1 .. Shots : outcome[j] = outcome[i]})
      BY <1>0 DEF Quantify
    <2>6. QED
      BY <2>2, <2>4, <2>5
  <1>8. shown.shots = shots /\ shown.histogram = Histogram(shots)
    BY <1>3
  <1>9. shown.shots = [i \in DOMAIN outcome |-> Reverse(outcome[i])]
    BY <1>0, <1>4, <1>8
  <1>10. FoldFunction(+, 0, shown.histogram) = Shots
    BY <1>6, <1>8
  <1>11. ASSUME NEW i \in DOMAIN shown.shots
         PROVE  shown.histogram[shown.shots[i]]
                  = Quantify(DOMAIN outcome, LAMBDA j : outcome[j] = outcome[i])
    <2>1. i \in 1 .. Shots
      BY <1>5, <1>8
    <2>2. QED
      BY <1>7, <1>8, <2>1
  <1>12. QED
    BY <1>9, <1>10, <1>11 DEF AsMeasured

-----------------------------------------------------------------------------
(* Results: malformed answers are refused *)

\* One more bit than the register is wide does not fit.
LEMMA Overflows ==
  ASSUME NEW width \in Nat, NEW bits, NEW sample,
         bits = [k \in 1 .. width + 1 |-> IF k > width THEN 1 ELSE 0],
         sample = Digits(bits, Ceil(width + 1, 4))
  PROVE  ~Fits(sample, width)
  <1>1. IsBits(bits, width + 1)
    <2>1. /\ DOMAIN bits = 1 .. width + 1 /\ width + 1 \in Nat
          /\ \A k \in 1 .. width + 1 : bits[k] \in 0 .. 1
      OBVIOUS
    <2>2. bits \in [1 .. width + 1 -> 0 .. 1]
      OBVIOUS
    <2>3. bits \in Seq(0 .. 1) /\ Len(bits) = width + 1
      BY <2>1, <2>2
    <2>4. QED
      BY <2>1, <2>3 DEF IsBits
  <1>2. PICK n \in Nat : n = Ceil(width + 1, 4) /\ 4 * n > width
    <2>1. Ceil(width + 1, 4) \in Nat /\ 4 * Ceil(width + 1, 4) > width
      BY DEF Ceil
    <2>2. QED
      BY <2>1
  <1>3. PICK k \in Nat : k = 4 * n - width
    BY <1>2
  <1>4. k \in 1 .. 4 * n /\ 4 * n - k + 1 = width + 1 /\ k \in 1 .. 4 * n - width
    BY <1>2, <1>3
  <1>5. Len(sample) = n /\ Bits(sample)[k] = Bit(bits, width + 1)
    BY <1>1, <1>2, <1>4, DigitsAre
  <1>6. Bit(bits, width + 1) = 1
    BY DEF Bit
  <1>7. ASSUME Fits(sample, width) PROVE FALSE
    <2>1. \A i \in 1 .. 4 * n - width : Bits(sample)[i] = 0
      BY <1>5, <1>7 DEF Fits
    <2>2. QED
      BY <1>4, <1>5, <1>6, <2>1
  <1>8. QED
    BY <1>7

\* A sample that is not what the service writes spoils the answer.
LEMMA Spoiled ==
  ASSUME NEW good, NEW name \in DOMAIN good, NEW bits, NEW samples,
         good[name] = [bits |-> bits, samples |-> samples],
         DOMAIN samples = 1 .. Shots, NEW sample, NEW width,
         NEW d, d = [good EXCEPT ![name].samples[Shots] = sample],
         ~(Readable(sample) /\ Fits(sample, width))
  PROVE  ~ValidAnswer(d[name], width, Shots)
  <1>1. Shots \in 1 .. Shots
    BY SamplerAssumption
  <1>2. d[name].samples = [samples EXCEPT ![Shots] = sample]
    <2>1. d[name] = [good[name] EXCEPT !.samples[Shots] = sample]
      OBVIOUS
    <2>2. PICK g : g = good[name] /\ g = [bits |-> bits, samples |-> samples]
      OBVIOUS
    <2>3. [g EXCEPT !.samples[Shots] = sample].samples = [samples EXCEPT ![Shots] = sample]
      BY <2>2
    <2>4. QED
      BY <2>1, <2>2, <2>3
  <1>3. PICK s : s = [samples EXCEPT ![Shots] = sample]
    OBVIOUS
  <1>4. Shots \in DOMAIN s /\ s[Shots] = sample
    BY <1>1, <1>3
  <1>5. QED
    BY <1>2, <1>3, <1>4 DEF ValidAnswer

\* No shot has a bit set.
Zeros(rs) == [shot \in 1 .. Shots |-> [k \in 1 .. Width(rs) |-> 0]]

\* Malformed answers are made from this one.
LEMMA ZerosAnswered ==
  ASSUME NEW N, NEW rs, IsLayout(rs, N), DistinctNames(rs)
  PROVE  Answered(Answers(rs, Zeros(rs), TRUE, TRUE), rs, N, Zeros(rs), TRUE, TRUE)
  <1>1. PICK n \in Nat : n = Len(rs) /\ \A k \in 1 .. n : Widths(rs)[k] \in Nat
    BY WidthIs DEF IsLayout
  <1>2. Width(rs) \in Nat
    <2>1. n \in 0 .. n
      OBVIOUS
    <2>2. Total(Widths(rs), n) \in Nat
      BY <1>1, <2>1, TotalGrows
    <2>3. QED
      BY <1>1, <2>2, WidthIs
  <1>3. PICK w \in Nat : w = Width(rs)
    BY <1>2
  <1>4. PICK z : z = [k \in 1 .. w |-> 0]
    OBVIOUS
  <1>5. IsBits(z, w)
    <2>1. z \in [1 .. w -> 0 .. 1]
      BY <1>4
    <2>2. /\ z \in Seq(0 .. 1) /\ Len(z) = w /\ DOMAIN z = 1 .. w
          /\ \A k \in 1 .. w : z[k] \in 0 .. 1
      BY <1>4, <2>1
    <2>3. QED
      BY <2>2 DEF IsBits
  <1>6. IsOutcome(Zeros(rs), Width(rs))
    BY <1>3, <1>4, <1>5 DEF IsOutcome, Zeros
  <1>7. QED
    BY <1>6 DEF Answered

\* What is missing, superfluous or out of range in them.
Extra(good, rs) ==
  [m \in DOMAIN good \cup {None} |-> IF m = None THEN good[rs[1].name] ELSE good[m]]

Spoilt(good, name, width) ==
  {[m \in DOMAIN good \ {name} |-> good[m]],
   [good EXCEPT ![name].bits = width + 1],
   [good EXCEPT ![name].samples = Tail(@)],
   [good EXCEPT ![name].samples = @ \o @],
   [good EXCEPT ![name].samples[Shots] = << >>],
   [good EXCEPT ![name].samples[Shots] = <<16>>],
   [good EXCEPT ![name].samples[Shots] =
      Digits([k \in 1 .. width + 1 |-> IF k > width THEN 1 ELSE 0], Ceil(width + 1, 4))]}

\* Malformed answers are these.
LEMMA MalformedIs ==
  ASSUME NEW rs, NEW d \in Malformed(rs), NEW good, good = Answers(rs, Zeros(rs), TRUE, TRUE)
  PROVE  d = Extra(good, rs) \/ \E r \in DOMAIN rs : d \in Spoilt(good, rs[r].name, rs[r].width)
  <1>1. Malformed(rs) =
           {Extra(Answers(rs, Zeros(rs), TRUE, TRUE), rs)}
             \cup UNION {Spoilt(Answers(rs, Zeros(rs), TRUE, TRUE), rs[r].name, rs[r].width) :
                           r \in DOMAIN rs}
    BY DEF Malformed, Zeros, Extra, Spoilt
  <1>2. Malformed(rs) =
           {Extra(good, rs)} \cup UNION {Spoilt(good, rs[r].name, rs[r].width) : r \in DOMAIN rs}
    BY <1>1
  <1>3. QED
    BY <1>2

\* None of them is valid.
LEMMA MalformedRefused ==
  ASSUME NEW N, None \notin N, NEW rs, IsLayout(rs, N), DistinctNames(rs),
         NEW d \in Malformed(rs)
  PROVE  ~ValidData(d, rs, Shots)
  <1>0. PICK n \in Nat : n = Len(rs) /\ DOMAIN rs = 1 .. n
    BY DEF IsLayout
  <1>1. PICK good : good = Answers(rs, Zeros(rs), TRUE, TRUE)
    OBVIOUS
  <1>2. Answered(good, rs, N, Zeros(rs), TRUE, TRUE)
    BY <1>1, ZerosAnswered
  <1>3. DOMAIN good = NamesOf(rs)
    BY <1>2, AnswerIs, Zenon
  <1>4. \A r \in 1 .. n : rs[r].name \in DOMAIN good
    BY <1>0, <1>3 DEF NamesOf
  <1>5. Shots \in Nat /\ Shots > 0
    BY SamplerAssumption
  <1>6. ASSUME NEW r \in 1 .. n
        PROVE  \E samples : /\ good[rs[r].name] = [bits |-> rs[r].width, samples |-> samples]
                            /\ samples \in Seq(Seq(HexDigits)) /\ Len(samples) = Shots
                            /\ DOMAIN samples = 1 .. Shots
    <2>1. r \in 1 .. Len(rs) /\ rs[r].width \in Nat
      BY <1>0 DEF IsLayout
    <2>2. good[rs[r].name] = Answer(rs, Zeros(rs), r, TRUE, TRUE)
      <3>1. PICK yes : yes = TRUE
        OBVIOUS
      <3>2. PICK zeros : zeros = Zeros(rs)
        OBVIOUS
      <3>3. Answered(good, rs, N, zeros, yes, yes)
        BY <1>2, <3>1, <3>2, Zenon
      <3>4. good[rs[r].name] = Answer(rs, zeros, r, yes, yes)
        BY <2>1, <3>3, AnswerAt, SMT
      <3>5. QED
        BY <3>1, <3>2, <3>4, Zenon
    <2>3. PICK samples :
             samples = [shot \in 1 .. Shots |-> Sample(rs, Zeros(rs)[shot], r, TRUE)]
      OBVIOUS
    <2>4. \A shot \in 1 .. Shots : samples[shot] \in Seq(HexDigits)
      <3> TAKE shot \in 1 .. Shots
      <3>1. IsBits(Zeros(rs)[shot], Width(rs))
        BY <1>2 DEF Answered, IsOutcome
      <3>2. IsBits(Block(rs, Zeros(rs)[shot], r), rs[r].width)
        BY <2>1, <3>1, BlockIs
      <3>3. Length(Block(rs, Zeros(rs)[shot], r), TRUE) \in Nat
        BY <3>2, LengthIs
      <3>4. Sample(rs, Zeros(rs)[shot], r, TRUE) \in Seq(HexDigits)
        BY <3>2, <3>3, DigitsAre DEF Sample
      <3>5. QED
        BY <2>3, <3>4
    <2>5. /\ samples \in Seq(Seq(HexDigits)) /\ Len(samples) = Shots
          /\ DOMAIN samples = 1 .. Shots
      <3>1. PICK T : T = Seq(HexDigits)
        OBVIOUS
      <3>2. samples \in [1 .. Shots -> T]
        BY <2>3, <2>4, <3>1, Zenon
      <3>3. samples \in Seq(T) /\ Len(samples) = Shots /\ DOMAIN samples = 1 .. Shots
        BY <1>5, <3>2
      <3>4. QED
        BY <3>1, <3>3
    <2>6. QED
      BY <2>2, <2>3, <2>5 DEF Answer
  <1>7. d = Extra(good, rs) \/ \E r \in 1 .. n : d \in Spoilt(good, rs[r].name, rs[r].width)
    BY <1>0, <1>1, MalformedIs
  <1>8. CASE d = Extra(good, rs)
    <2>1. None \notin NamesOf(rs)
      BY <1>0 DEF NamesOf, IsLayout
    <2>2. IsFiniteSet(NamesOf(rs)) /\ Cardinality(NamesOf(rs)) = n
      BY <1>0, NamesCount
    <2>3. Cardinality(NamesOf(rs) \cup {None}) = n + 1
      BY <2>1, <2>2, FS_AddElement
    <2>4. QED
      BY <1>0, <1>3, <1>8, <2>3 DEF ValidData, Extra
  <1>9. ASSUME NEW r \in 1 .. n, d \in Spoilt(good, rs[r].name, rs[r].width)
        PROVE  ~ValidData(d, rs, Shots)
    <2>1. PICK name : name = rs[r].name
      OBVIOUS
    <2>2. PICK width \in Nat : width = rs[r].width
      BY <1>0 DEF IsLayout
    <2>3. PICK samples : /\ good[name] = [bits |-> width, samples |-> samples]
                         /\ samples \in Seq(Seq(HexDigits)) /\ Len(samples) = Shots
                         /\ DOMAIN samples = 1 .. Shots
      BY <1>6, <2>1, <2>2
    <2>4. name \in DOMAIN good
      BY <1>4, <2>1
    <2>5. ASSUME ~ValidAnswer(d[name], width, Shots) PROVE ~ValidData(d, rs, Shots)
      BY <1>0, <2>1, <2>2, <2>5 DEF ValidData
    <2>6. CASE d = [m \in DOMAIN good \ {name} |-> good[m]]
      <3>1. name \notin DOMAIN d
        BY <2>6
      <3>2. QED
        BY <1>0, <2>1, <3>1 DEF ValidData
    <2>7. CASE d = [good EXCEPT ![name].bits = width + 1]
      <3>1. d[name].bits = width + 1
        BY <2>3, <2>4, <2>7
      <3>2. width + 1 \notin {0, width}
        OBVIOUS
      <3>3. QED
        BY <2>5, <3>1, <3>2 DEF ValidAnswer
    <2>8. CASE d = [good EXCEPT ![name].samples = Tail(@)]
      <3>1. d[name].samples = Tail(samples)
        BY <2>3, <2>4, <2>8
      <3>2. Len(Tail(samples)) # Shots
        BY <1>5, <2>3, EmptySeq, HeadTailProperties
      <3>3. QED
        BY <2>5, <3>1, <3>2 DEF ValidAnswer
    <2>9. CASE d = [good EXCEPT ![name].samples = @ \o @]
      <3>1. d[name].samples = samples \o samples
        BY <2>3, <2>4, <2>9
      <3>2. Len(samples \o samples) # Shots
        BY <1>5, <2>3, ConcatAt
      <3>3. QED
        BY <2>5, <3>1, <3>2 DEF ValidAnswer
    <2>10. CASE d = [good EXCEPT ![name].samples[Shots] = << >>]
      <3>1. ~Readable(<< >>)
        BY DEF Readable
      <3>2. QED
        BY <2>3, <2>4, <2>5, <2>10, <3>1, Spoiled
    <2>11. CASE d = [good EXCEPT ![name].samples[Shots] = <<16>>]
      <3>1. ~Readable(<<16>>)
        BY DEF Readable, HexDigits
      <3>2. QED
        BY <2>3, <2>4, <2>5, <2>11, <3>1, Spoiled
    <2>12. ASSUME NEW sample, d = [good EXCEPT ![name].samples[Shots] = sample],
                  sample = Digits([k \in 1 .. width + 1 |-> IF k > width THEN 1 ELSE 0],
                                  Ceil(width + 1, 4))
           PROVE  ~ValidData(d, rs, Shots)
      <3>1. ~Fits(sample, width)
        BY <2>12, Overflows
      <3>2. QED
        BY <2>3, <2>4, <2>5, <2>12, <3>1, Spoiled
    <2>13. QED
      BY <1>9, <2>1, <2>2, <2>6, <2>7, <2>8, <2>9, <2>10, <2>11, <2>12, ZenonT(60)
         DEF Spoilt
  <1>10. QED
    BY <1>7, <1>8, <1>9

-----------------------------------------------------------------------------
(* Results: the layout of a program *)

\* What is picked from the elements of a sequence, one or none of each.
Picked(s, p) ==
  /\ DOMAIN p = DOMAIN s /\ Len(p) = Len(s) /\ (s = << >> => p = << >>)
  /\ \A i \in DOMAIN s : p[i] \in {<< >>, <<s[i]>>}

\* It is a row of elements.
LEMMA PickedRow ==
  ASSUME NEW T, NEW s \in Seq(T), NEW p, Picked(s, p)
  PROVE  Row(p, Len(s), T)
  <1>1. /\ Len(s) \in Nat /\ DOMAIN s = 1 .. Len(s) /\ (Len(s) = 0 => s = << >>)
        /\ \A i \in 1 .. Len(s) : s[i] \in T
    BY LenProperties, ElementOfSeq, EmptySeq
  <1>2. ASSUME NEW i \in 1 .. Len(s) PROVE p[i] \in Seq(T) /\ Len(p[i]) \in Nat
    <2>1. /\ << >> \in Seq(T) /\ <<s[i]>> \in Seq(T) /\ Len(<< >>) = 0 /\ Len(<<s[i]>>) = 1
      BY <1>1
    <2>2. p[i] = << >> \/ p[i] = <<s[i]>>
      BY <1>1 DEF Picked
    <2>3. QED
      BY <2>1, <2>2
  <1>3. QED
    BY <1>1, <1>2 DEF Picked, Row

\* The classical registers are registers of the file.
LEMMA ClassicalIs ==
  ASSUME NEW file \in Files
  PROVE  /\ Classical(file) \in Seq(ToSet(file.registers))
         /\ \A c \in ToSet(file.registers) : c.indices \in Seq(Int) /\ c.name # None
  <1>1. PICK s : s = file.registers
    OBVIOUS
  <1>2. PICK T : T = ToSet(s)
    OBVIOUS
  <1>3. s \in Seq(T) /\ \A r \in DOMAIN s : s[r].indices \in Seq(Int) /\ s[r].name # None
    BY <1>1, <1>2, FilesAssumption
  <1>4. PICK p : p = [r \in DOMAIN s |-> IF s[r].type = "c" THEN <<s[r]>> ELSE << >>]
    OBVIOUS
  <1>5. Picked(s, p)
    <2>1. Len(s) \in Nat /\ DOMAIN s = 1 .. Len(s)
      BY <1>3, LenProperties
    <2>2. DOMAIN p = 1 .. Len(s) /\ p = [r \in 1 .. Len(s) |-> p[r]]
      BY <1>4, <2>1
    <2>3. Len(p) = Len(s)
      BY <2>1, <2>2
    <2>4. s = << >> => p = << >>
      BY <1>4
    <2>5. \A r \in DOMAIN s : p[r] \in {<< >>, <<s[r]>>}
      BY <1>4
    <2>6. QED
      BY <2>1, <2>2, <2>3, <2>4, <2>5 DEF Picked
  <1>6. FlattenSeq(p) \in Seq(T)
    BY <1>3, <1>5, PickedRow, FlattenIs
  <1>7. Classical(file) = FlattenSeq(p)
    BY <1>1, <1>4 DEF Classical
  <1>8. \A c \in T : c.indices \in Seq(Int) /\ c.name # None
    BY <1>2, <1>3 DEF ToSet
  <1>9. QED
    BY <1>1, <1>2, <1>6, <1>7, <1>8

\* The registers that statements declare.
LEMMA DeclaredIs ==
  ASSUME NEW st \in Seq(Statements)
  PROVE  /\ Row([i \in DOMAIN st |-> st[i].registers], Len(st), [name : Words, width : Nat])
         /\ Declared(st) \in Seq([name : Words, width : Nat])
  <1>1. PICK T : T = [name : Words, width : Nat]
    OBVIOUS
  <1>2. PICK p : p = [i \in DOMAIN st |-> st[i].registers]
    OBVIOUS
  <1>3. Len(st) \in Nat /\ DOMAIN st = 1 .. Len(st) /\ (Len(st) = 0 => st = << >>)
          /\ \A i \in 1 .. Len(st) : st[i] \in Statements
    BY LenProperties, ElementOfSeq, EmptySeq
  <1>4. \A i \in 1 .. Len(st) : p[i] \in Seq(T)
    BY <1>1, <1>2, <1>3, StatementsAssumption DEF IsStatement
  <1>5. \A i \in 1 .. Len(st) : Len(p[i]) \in Nat
    BY <1>4, LenProperties
  <1>6. DOMAIN p = 1 .. Len(st) /\ Len(p) = Len(st) /\ (Len(st) = 0 => p = << >>)
    <2>1. p = [i \in 1 .. Len(st) |-> p[i]]
      BY <1>2, <1>3
    <2>2. QED
      BY <1>2, <1>3, <2>1
  <1>7. Row(p, Len(st), T)
    BY <1>3, <1>4, <1>5, <1>6 DEF Row
  <1>8. FlattenSeq(p) \in Seq(T)
    BY <1>7, FlattenIs
  <1>9. QED
    BY <1>1, <1>2, <1>7, <1>8 DEF Declared

\* A program that a client means.
IsProgram(s) ==
  \/ s.format = "QASM3" /\ s.version \in Versions /\ s.statements \in Seq(Statements)
  \/ s.format = "QPY" /\ s.file \in Files

\* Its layout; the names are distinct in the programs that the device takes.
LEMMA Laid ==
  ASSUME NEW s, IsProgram(s)
  PROVE  \E N : /\ None \notin N /\ IsLayout(Layout(s), N)
                /\ Meant(s) => DistinctNames(Layout(s))
  <1>1. CASE s.format = "QASM3" /\ s.version \in Versions /\ s.statements \in Seq(Statements)
    <2>1. Layout(s) = Declared(s.statements)
      BY <1>1 DEF Layout
    <2>2. IsLayout(Declared(s.statements), Words)
      BY <1>1, DeclaredIs, LayoutIs
    <2>3. Meant(s) => DistinctNames(Declared(s.statements))
      BY <1>1 DEF Meant, Documented
    <2>4. None \notin Words
      BY FilesAssumption
    <2>5. QED
      BY <2>1, <2>2, <2>3, <2>4
  <1>2. CASE s.format = "QPY" /\ s.file \in Files
    <2>1. PICK rs : rs = Classical(s.file)
      OBVIOUS
    <2>2. PICK T : T = ToSet(s.file.registers)
      OBVIOUS
    <2>3. rs \in Seq(T) /\ \A c \in T : c.indices \in Seq(Int) /\ c.name # None
      BY <1>2, <2>1, <2>2, ClassicalIs
    <2>4. Len(rs) \in Nat /\ DOMAIN rs = 1 .. Len(rs) /\ \A r \in 1 .. Len(rs) : rs[r] \in T
      BY <2>3, LenProperties, ElementOfSeq
    <2> DEFINE N == {c.name : c \in T}
    <2>5. PICK l : l = [r \in DOMAIN rs |-> [name |-> rs[r].name, width |-> Len(rs[r].indices)]]
      OBVIOUS
    <2>6. Layout(s) = l
      BY <1>2, <2>1, <2>5 DEF Layout, QpyLayout
    <2>7. \A r \in 1 .. Len(rs) : l[r] \in [name : N, width : Nat] /\ l[r].name = rs[r].name
      <3> TAKE r \in 1 .. Len(rs)
      <3>1. rs[r] \in T /\ rs[r].indices \in Seq(Int)
        BY <2>3, <2>4
      <3>2. Len(rs[r].indices) \in Nat
        BY <3>1, LenProperties
      <3>3. l[r] = [name |-> rs[r].name, width |-> Len(rs[r].indices)] /\ rs[r].name \in N
        BY <2>4, <2>5, <3>1
      <3> HIDE DEF N
      <3>4. QED
        BY <3>2, <3>3
    <2>8. None \notin N
      BY <2>3
    <2> HIDE DEF N
    <2>9. l \in Seq([name : N, width : Nat])
      <3>1. l = [r \in 1 .. Len(rs) |-> l[r]]
        BY <2>4, <2>5
      <3>2. PICK W : W = [name : N, width : Nat]
        OBVIOUS
      <3>3. l \in [1 .. Len(rs) -> W]
        BY <2>7, <3>1, <3>2, Zenon
      <3>4. l \in Seq(W)
        BY <2>4, <3>3
      <3>5. QED
        BY <3>2, <3>4
    <2>10. IsLayout(l, N)
      BY <2>9, LayoutIs
    <2>11. DOMAIN l = DOMAIN rs
      BY <2>5
    <2>12. Meant(s) => DistinctNames(rs)
      BY <1>2, <2>1 DEF Meant, Partitioned
    <2>13. DistinctNames(rs) => DistinctNames(l)
      BY <2>4, <2>7, <2>11 DEF DistinctNames
    <2>14. QED
      BY <2>6, <2>8, <2>10, <2>12, <2>13
  <1>3. QED
    BY <1>1, <1>2 DEF IsProgram

-----------------------------------------------------------------------------
(* The way of the results *)

\* Where the answer of the service comes from, and what the client is shown.
ResultsInv ==
  /\ source.format = "foreign" \/ IsProgram(source)
  /\ source.format = "foreign" => stage \in {"writing", "retrieved"}
  /\ stage \in {"measured", "done"} =>
        /\ source.format # "foreign"
        /\ \/ measured = << >> /\ data \in Malformed(Layout(source))
           \/ \E zeros, counted \in BOOLEAN :
                 /\ measured \in [1 .. Shots -> Patterns(Width(Layout(source)))]
                 /\ data = Answers(Layout(source), measured, zeros, counted)
  /\ stage = "done" => results = DecodeResults(data, registers, Shots)

\* Programs start without results.
LEMMA ResultsInvInit == Init => ResultsInv
  <1> SUFFICES ASSUME Init PROVE ResultsInv
    OBVIOUS
  <1>1. CASE source \in {Written(version, << >>) : version \in Versions}
    <2>1. PICK version \in Versions : source = Written(version, << >>)
      BY <1>1
    <2>2. << >> \in Seq(Statements)
      OBVIOUS
    <2>3. IsProgram(source)
      BY <2>1, <2>2 DEF Written, IsProgram
    <2>4. QED
      BY <2>1, <2>3 DEF Init, ResultsInv, Written
  <1>2. CASE source \in [format : {"QPY"}, file : Files, content : Contents]
    BY <1>2 DEF Init, ResultsInv, IsProgram
  <1>3. CASE source = [format |-> "foreign"]
    BY <1>3 DEF Init, ResultsInv
  <1>4. QED
    BY <1>1, <1>2, <1>3 DEF Init

\* Every step keeps it.
LEMMA ResultsInvNext == ResultsInv /\ [Next]_vars => ResultsInv'
  <1> SUFFICES ASSUME ResultsInv, [Next]_vars PROVE ResultsInv'
    OBVIOUS
  <1>1. ASSUME NEW statement \in Statements, Write(statement) PROVE ResultsInv'
    <2>1. /\ stage = "writing" /\ stage' = stage /\ source.format = "QASM3"
          /\ source' = [source EXCEPT !.statements = Append(source.statements, statement)]
      BY <1>1 DEF Write
    <2>2. source.version \in Versions /\ source.statements \in Seq(Statements)
      BY <2>1 DEF ResultsInv, IsProgram
    <2>3. Append(source.statements, statement) \in Seq(Statements)
      BY <2>2
    <2>4. IsProgram(source')
      BY <2>1, <2>2, <2>3 DEF IsProgram
    <2>5. QED
      BY <2>1, <2>4 DEF ResultsInv
  <1>2. CASE SetPrograms
    BY <1>2 DEF SetPrograms, ResultsInv
  <1>3. CASE Submit
    BY <1>3 DEF Submit, ResultsInv
  <1>4. CASE Retrieve
    BY <1>4 DEF Retrieve, ResultsInv
  <1>5. CASE RetrieveForeign
    BY <1>5 DEF RetrieveForeign, ResultsInv
  <1>6. CASE Measure
    BY <1>6 DEF Measure, ResultsInv
  <1>7. CASE Garble
    <2>1. stage = "submitted" /\ stage' = "measured" /\ source' = source
            /\ measured' = << >> /\ data' \in Malformed(Layout(source))
      BY <1>7 DEF Garble
    <2>2. source.format # "foreign"
      BY <2>1 DEF ResultsInv
    <2>3. QED
      BY <2>1, <2>2 DEF ResultsInv
  <1>8. CASE Fetch
    BY <1>8 DEF Fetch, ResultsInv
  <1>9. CASE UNCHANGED vars
    BY <1>9 DEF vars, ResultsInv
  <1>10. QED
    BY <1>1, <1>2, <1>3, <1>4, <1>5, <1>6, <1>7, <1>8, <1>9 DEF Next

\* The patterns are bits.
LEMMA PatternsAreBits ==
  ASSUME NEW width \in Nat, NEW bits \in Patterns(width)
  PROVE  IsBits(bits, width)
  <1>1. PICK S : bits = [k \in 1 .. width |-> IF k \in S THEN 1 ELSE 0]
    BY DEF Patterns
  <1>2. bits \in [1 .. width -> 0 .. 1]
    BY <1>1
  <1>3. /\ bits \in Seq(0 .. 1) /\ Len(bits) = width /\ DOMAIN bits = 1 .. width
        /\ \A k \in 1 .. width : bits[k] \in 0 .. 1
    BY <1>1, <1>2
  <1>4. QED
    BY <1>3 DEF IsBits

\* A handle that has the registers of the program shows what was measured.
LEMMA ResultsFollow == ResultsInv /\ RegistersAsDeclared => ResultsAsMeasured
  <1> SUFFICES ASSUME ResultsInv, RegistersAsDeclared, stage = "done"
               PROVE  IF measured = << >> THEN results = Unreadable
                      ELSE AsMeasured(results, measured)
    BY DEF ResultsAsMeasured, AsMeasured
  <1>1. /\ source.format # "foreign" /\ IsProgram(source)
        /\ results = DecodeResults(data, registers, Shots)
    BY DEF ResultsInv
  <1>2. Meant(source) /\ registers = Layout(source)
    BY <1>1 DEF RegistersAsDeclared
  <1>3. PICK N : /\ None \notin N /\ IsLayout(Layout(source), N)
                 /\ Meant(source) => DistinctNames(Layout(source))
    BY <1>1, Laid
  <1>4. PICK rs : rs = Layout(source)
    OBVIOUS
  <1>5. /\ None \notin N /\ IsLayout(rs, N) /\ DistinctNames(rs)
        /\ results = DecodeResults(data, rs, Shots)
    BY <1>1, <1>2, <1>3, <1>4
  <1>6. CASE measured = << >> /\ data \in Malformed(rs)
    <2>1. ~ValidData(data, rs, Shots)
      BY <1>5, <1>6, MalformedRefused
    <2>2. results = Unreadable
      BY <1>5, <2>1 DEF DecodeResults
    <2>3. QED
      BY <1>6, <2>2
  <1>7. ASSUME NEW zeros \in BOOLEAN, NEW counted \in BOOLEAN,
               measured \in [1 .. Shots -> Patterns(Width(rs))],
               data = Answers(rs, measured, zeros, counted)
        PROVE  measured # << >> /\ AsMeasured(results, measured)
    <2>1. Width(rs) \in Nat
      <3>1. Answered(Answers(rs, Zeros(rs), TRUE, TRUE), rs, N, Zeros(rs), TRUE, TRUE)
        BY <1>5, ZerosAnswered
      <3>2. 1 \in 1 .. Shots
        BY SamplerAssumption
      <3>3. QED
        BY <3>1, <3>2 DEF Answered, IsOutcome, IsBits
    <2>2. measured = [shot \in 1 .. Shots |-> measured[shot]]
            /\ \A shot \in 1 .. Shots : measured[shot] \in Patterns(Width(rs))
      BY <1>7
    <2>3. \A shot \in 1 .. Shots : IsBits(measured[shot], Width(rs))
      BY <2>1, <2>2, PatternsAreBits
    <2>4. Answered(data, rs, N, measured, zeros, counted)
      BY <1>5, <1>7, <2>2, <2>3 DEF Answered, IsOutcome
    <2>5. measured # << >>
      <3>1. 1 \in DOMAIN measured
        BY <2>2, SamplerAssumption
      <3>2. QED
        BY <3>1
    <2>6. AsMeasured(results, measured)
      BY <1>5, <2>4, ResultsRead, Zenon
    <2>7. QED
      BY <2>5, <2>6
  <1>8. \/ measured = << >> /\ data \in Malformed(rs)
        \/ \E zeros, counted \in BOOLEAN :
              /\ measured \in [1 .. Shots -> Patterns(Width(rs))]
              /\ data = Answers(rs, measured, zeros, counted)
    BY <1>4 DEF ResultsInv
  <1>9. CASE \E zeros, counted \in BOOLEAN :
                /\ measured \in [1 .. Shots -> Patterns(Width(rs))]
                /\ data = Answers(rs, measured, zeros, counted)
    BY <1>7, <1>9
  <1>10. QED
    BY <1>6, <1>8, <1>9

-----------------------------------------------------------------------------
(* QPY: the registers that are read are those that partition the bits *)

\* The indices of registers, and how many are in front.
Indices(rs) == [i \in DOMAIN rs |-> rs[i].indices]

\* They are a row, and Taken counts them.
LEMMA IndicesRow ==
  ASSUME NEW T, \A c \in T : c.indices \in Seq(Int), NEW rs \in Seq(T)
  PROVE  /\ Row(Indices(rs), Len(rs), Int)
         /\ \A r \in 1 .. Len(rs) : Indices(rs)[r] = rs[r].indices
         /\ \A r \in 1 .. Len(rs) + 1 : Taken(rs, r) = Before(Indices(rs), r)
  <1>1. PICK n \in Nat : n = Len(rs) /\ DOMAIN rs = 1 .. n /\ \A r \in 1 .. n : rs[r] \in T
    BY LenProperties, ElementOfSeq
  <1>2. PICK q : q = Indices(rs)
    OBVIOUS
  <1>3. DOMAIN q = 1 .. n /\ Len(q) = n /\ (n = 0 => q = << >>)
          /\ \A r \in 1 .. n : q[r] = rs[r].indices
    <2>1. q = [r \in 1 .. n |-> rs[r].indices]
      BY <1>1, <1>2 DEF Indices
    <2>2. QED
      BY <2>1
  <1>4. \A r \in 1 .. n : q[r] \in Seq(Int) /\ Len(q[r]) \in Nat
    BY <1>1, <1>3, LenProperties
  <1>5. Row(q, n, Int)
    BY <1>3, <1>4 DEF Row
  <1>6. ASSUME NEW r \in 1 .. n + 1 PROVE Taken(rs, r) = Before(q, r)
    <2>1. PICK f : f = [s \in 1 .. r - 1 |-> Len(rs[s].indices)]
      OBVIOUS
    <2>2. Taken(rs, r) = SumFunctionOnSet(f, 1 .. r - 1)
      BY <2>1 DEF Taken, SumFunction
    <2>3. PICK l : l = Lengths(q)
      OBVIOUS
    <2>4. Before(q, r) = SumFunctionOnSet(l, 1 .. r - 1)
      BY <2>3 DEF Before, Total
    <2>5. \A s \in 1 .. r - 1 : f[s] \in Int /\ f[s] = l[s]
      <3> TAKE s \in 1 .. r - 1
      <3>1. s \in 1 .. n
        OBVIOUS
      <3>2. f[s] = Len(q[s]) /\ l[s] = Len(q[s]) /\ Len(q[s]) \in Nat
        BY <1>3, <1>4, <2>1, <2>3, <3>1 DEF Lengths
      <3>3. QED
        BY <3>2
    <2>6. IsFiniteSet(1 .. r - 1)
      BY FS_Interval
    <2>7. QED
      BY <2>2, <2>4, <2>5, <2>6, SumSame
  <1>7. QED
    BY <1>1, <1>2, <1>3, <1>5, <1>6

\* What qpyRegisters asks of every register.
ReadsAt(rs, r, bits) ==
  /\ rs[r].inCircuit /\ rs[r].name # "" /\ rs[r].indices # << >>
  /\ \A s \in 1 .. r - 1 : rs[s].name # rs[r].name
  /\ Continues(rs, r, bits)

\* No name twice, neither before nor behind.
LEMMA DistinctBefore ==
  ASSUME NEW n \in Nat, NEW rs, DOMAIN rs = 1 .. n
  PROVE  DistinctNames(rs) <=> \A r \in 1 .. n : \A s \in 1 .. r - 1 : rs[s].name # rs[r].name
  <1>1. ASSUME DistinctNames(rs), NEW r \in 1 .. n, NEW s \in 1 .. r - 1
        PROVE  rs[s].name # rs[r].name
    <2>1. s \in 1 .. n /\ s # r
      OBVIOUS
    <2>2. QED
      BY <1>1, <2>1 DEF DistinctNames
  <1>2. ASSUME \A r \in 1 .. n : \A s \in 1 .. r - 1 : rs[s].name # rs[r].name,
               NEW i \in 1 .. n, NEW j \in 1 .. n, rs[i].name = rs[j].name
        PROVE  i = j
    <2>1. CASE i < j
      <3>1. i \in 1 .. j - 1
        BY <2>1
      <3>2. QED
        BY <1>2, <3>1
    <2>2. CASE j < i
      <3>1. j \in 1 .. i - 1
        BY <2>2
      <3>2. QED
        BY <1>2, <3>1
    <2>3. QED
      BY <2>1, <2>2
  <1>3. QED
    BY <1>1, <1>2 DEF DistinctNames

\* The two ways to say that registers take the bits one after the other.
LEMMA TakesAll ==
  ASSUME NEW T, \A c \in T : c.indices \in Seq(Int), NEW rs \in Seq(T),
         NEW bits \in Int, bits > 0
  PROVE  FlattenSeq(Indices(rs)) = [k \in 1 .. bits |-> k - 1]
           <=> /\ rs # << >>
               /\ \A r \in 1 .. Len(rs) : Continues(rs, r, bits)
               /\ Taken(rs, Len(rs) + 1) = bits
  <1>1. PICK n \in Nat : n = Len(rs) /\ DOMAIN rs = 1 .. n
    BY LenProperties
  <1>2. PICK q : q = Indices(rs)
    OBVIOUS
  <1>3. /\ Row(q, n, Int) /\ \A r \in 1 .. n : q[r] = rs[r].indices
        /\ \A r \in 1 .. n + 1 : Taken(rs, r) = Before(q, r)
    BY <1>1, <1>2, IndicesRow
  <1>4. PICK t : t = [k \in 1 .. bits |-> k - 1]
    OBVIOUS
  <1>5. t \in Seq(Int) /\ Len(t) = bits /\ \A k \in 1 .. bits : t[k] = k - 1
    <2>1. t \in [1 .. bits -> Int]
      BY <1>4
    <2>2. QED
      BY <1>4, <2>1
  <1>6. /\ \A r \in 1 .. n + 1 : Before(q, r) \in Nat
        /\ \A r \in 1 .. n : Before(q, r + 1) = Before(q, r) + Len(q[r])
        /\ \A r \in 1 .. n : Before(q, r + 1) <= Before(q, n + 1)
        /\ \A r \in 1 .. n : DOMAIN q[r] = 1 .. Len(q[r]) /\ Len(q[r]) \in Nat
    <2>1. \A j, k \in 1 .. n + 1 : j <= k => Before(q, j) <= Before(q, k)
      BY <1>3, Places
    <2>2. \A r \in 1 .. n : Before(q, r + 1) <= Before(q, n + 1)
      <3> TAKE r \in 1 .. n
      <3>1. r + 1 \in 1 .. n + 1 /\ n + 1 \in 1 .. n + 1 /\ r + 1 <= n + 1
        OBVIOUS
      <3>2. QED
        BY <2>1, <3>1
    <2>3. \A r \in 1 .. n : q[r] \in Seq(Int)
      BY <1>3 DEF Row
    <2>4. \A r \in 1 .. n : DOMAIN q[r] = 1 .. Len(q[r]) /\ Len(q[r]) \in Nat
      BY <2>3, LenProperties
    <2>5. QED
      BY <1>3, <2>2, <2>4, Places
  <1>a. Row(q, n, Int)
    BY <1>3
  <1>b. \A r \in 1 .. n : \A k \in 1 .. Len(q[r]) : FlattenSeq(q)[Before(q, r) + k] = q[r][k]
    <2>1. Located(FlattenSeq(q), q, n)
      BY <1>a, FlattenLocated, SMT
    <2>2. QED
      BY <2>1 DEF Located
  <1>7. ASSUME FlattenSeq(q) = t
        PROVE  /\ rs # << >> /\ Taken(rs, n + 1) = bits
               /\ \A r \in 1 .. n : Continues(rs, r, bits)
    <2>1. Before(q, n + 1) = bits
      BY <1>3, <1>5, <1>7, FlattenIs
    <2>2. n # 0
      <3>1. CASE n = 0
        <4>1. FlattenSeq(q) = << >>
          BY <1>3, <3>1, FlattenNone
        <4>2. QED
          BY <1>5, <1>7, <4>1
      <3>2. QED
        BY <3>1
    <2>3. ASSUME NEW r \in 1 .. n PROVE Continues(rs, r, bits)
      <3>1. r \in 1 .. n + 1 /\ Taken(rs, r) = Before(q, r) /\ Before(q, r) \in Nat
              /\ Len(q[r]) \in Nat
        BY <1>3, <1>6
      <3>2. Before(q, r) + Len(q[r]) <= bits
        BY <1>6, <2>1
      <3>3. ASSUME NEW k \in 1 .. Len(q[r]) PROVE q[r][k] = Before(q, r) + k - 1
        <4>1. FlattenSeq(q)[Before(q, r) + k] = q[r][k]
          BY <1>b
        <4>2. PICK p \in 1 .. bits : p = Before(q, r) + k
          BY <3>1, <3>2
        <4>3. t[p] = p - 1
          BY <1>5
        <4>4. Before(q, r) + k - 1 = p - 1
          BY <3>1, <4>2
        <4>5. t[Before(q, r) + k] = q[r][k]
          BY <1>7, <4>1, Zenon
        <4>6. QED
          BY <4>2, <4>3, <4>4, <4>5, Zenon
      <3>4. QED
        BY <1>3, <1>6, <3>1, <3>2, <3>3 DEF Continues
    <2>4. n + 1 \in 1 .. n + 1
      OBVIOUS
    <2>5. QED
      BY <1>1, <1>3, <2>1, <2>2, <2>3, <2>4
  <1>8. ASSUME Taken(rs, n + 1) = bits, \A r \in 1 .. n : Continues(rs, r, bits)
        PROVE  FlattenSeq(q) = t
    <2>1. n + 1 \in 1 .. n + 1
      OBVIOUS
    <2>2. Len(t) = Before(q, n + 1)
      BY <1>3, <1>5, <1>8, <2>1
    <2>3. \A r \in 1 .. n : \A k \in 1 .. Len(q[r]) : t[Before(q, r) + k] = q[r][k]
      <3> TAKE r \in 1 .. n
      <3> TAKE k \in 1 .. Len(q[r])
      <3>1. r \in 1 .. n + 1 /\ Taken(rs, r) = Before(q, r) /\ Before(q, r) \in Nat
              /\ Len(q[r]) \in Nat /\ q[r] = rs[r].indices /\ DOMAIN q[r] = 1 .. Len(q[r])
        BY <1>3, <1>6
      <3>2. Before(q, r) + Len(q[r]) <= bits /\ q[r][k] = Before(q, r) + k - 1
        BY <1>8, <3>1 DEF Continues
      <3>3. PICK p \in 1 .. bits : p = Before(q, r) + k
        BY <3>1, <3>2
      <3>4. t[p] = p - 1
        BY <1>5
      <3>5. Before(q, r) + k - 1 = p - 1
        BY <3>1, <3>3
      <3>6. QED
        BY <3>2, <3>3, <3>4, <3>5, Zenon
    <2>4. t \in Seq(Int)
      BY <1>5
    <2>5. QED
      <3>1. Located(t, q, n)
        BY <2>3 DEF Located
      <3>2. QED
        BY <1>a, <2>2, <2>4, <3>1, LocatedIs, SMT
  <1>9. QED
    BY <1>1, <1>2, <1>4, <1>7, <1>8

\* qpyRegisters accepts the files whose registers partition the bits.
LEMMA QpyMeaning ==
  ASSUME NEW file \in Files
  PROVE  /\ QpyRegisters(file).ok <=> Partitioned(file)
         /\ QpyRegisters(file).ok => QpyRegisters(file).registers = QpyLayout(file)
  <1>1. PICK T : T = ToSet(file.registers)
    OBVIOUS
  <1>2. PICK rs : rs = Classical(file)
    OBVIOUS
  <1>3. rs \in Seq(T) /\ \A c \in T : c.indices \in Seq(Int)
    BY <1>1, <1>2, ClassicalIs
  <1>4. PICK n \in Nat : n = Len(rs) /\ DOMAIN rs = 1 .. n
    BY <1>3, LenProperties
  <1>5. PICK bits \in Int : bits = file.bits
    BY FilesAssumption
  <1>6. QpyRegisters(file) =
           IF /\ Supported(file) /\ rs # << >>
              /\ \A r \in 1 .. n : ReadsAt(rs, r, bits)
              /\ Taken(rs, n + 1) = bits
           THEN [ok |-> TRUE, registers |-> QpyLayout(file)]
           ELSE [ok |-> FALSE, registers |-> << >>]
    BY <1>2, <1>4, <1>5 DEF QpyRegisters, ReadsAt
  <1>7. Partitioned(file) <=>
           /\ Supported(file) /\ FlattenSeq(Indices(rs)) = [k \in 1 .. bits |-> k - 1]
           /\ DistinctNames(rs)
           /\ \A i \in 1 .. n : rs[i].inCircuit /\ rs[i].name # "" /\ rs[i].indices # << >>
    BY <1>2, <1>4, <1>5 DEF Partitioned, Supported, Indices
  <1>8. Supported(file) => bits > 0
    BY <1>5 DEF Supported
  <1>9. bits > 0 =>
          (FlattenSeq(Indices(rs)) = [k \in 1 .. bits |-> k - 1]
             <=> /\ rs # << >> /\ \A r \in 1 .. n : Continues(rs, r, bits)
                 /\ Taken(rs, n + 1) = bits)
    BY <1>3, <1>4, TakesAll
  <1>10. DistinctNames(rs)
           <=> \A r \in 1 .. n : \A s \in 1 .. r - 1 : rs[s].name # rs[r].name
    BY <1>4, DistinctBefore
  <1>11. (\A r \in 1 .. n : ReadsAt(rs, r, bits))
           <=> /\ \A r \in 1 .. n : Continues(rs, r, bits)
               /\ \A r \in 1 .. n : \A s \in 1 .. r - 1 : rs[s].name # rs[r].name
               /\ \A i \in 1 .. n : rs[i].inCircuit /\ rs[i].name # "" /\ rs[i].indices # << >>
    BY DEF ReadsAt
  <1>12. (/\ Supported(file) /\ rs # << >> /\ \A r \in 1 .. n : ReadsAt(rs, r, bits)
          /\ Taken(rs, n + 1) = bits) <=> Partitioned(file)
    BY <1>7, <1>8, <1>9, <1>10, <1>11
  <1>13. QED
    BY <1>6, <1>12

-----------------------------------------------------------------------------
(* Tokens *)

\* The pieces of a text, each with its token or none.
Pieces(text) == [i \in DOMAIN text |-> Token(text[i])]

\* They are a row.
LEMMA PiecesRow ==
  ASSUME NEW T, NEW text \in Seq(T)
  PROVE  Row(Pieces(text), Len(text), T)
  <1>1. Len(text) \in Nat /\ DOMAIN text = 1 .. Len(text)
    BY LenProperties
  <1>2. ASSUME NEW k \in 1 .. Len(text)
        PROVE  Pieces(text)[k] \in Seq(T) /\ Len(Pieces(text)[k]) \in Nat
    <2>1. text[k] \in T
      BY ElementOfSeq
    <2>2. << >> \in Seq(T) /\ <<text[k]>> \in Seq(T) /\ Len(<< >>) = 0 /\ Len(<<text[k]>>) = 1
      BY <2>1
    <2>3. Pieces(text)[k] = Token(text[k])
      BY <1>1 DEF Pieces
    <2>4. QED
      BY <2>2, <2>3 DEF Token
  <1>3. PICK p : p = Pieces(text)
    OBVIOUS
  <1>4. p = [i \in 1 .. Len(text) |-> p[i]]
    BY <1>1, <1>3 DEF Pieces
  <1>5. DOMAIN p = 1 .. Len(text) /\ Len(p) = Len(text) /\ (Len(text) = 0 => p = << >>)
    BY <1>1, <1>4
  <1>6. QED
    BY <1>1, <1>2, <1>3, <1>5 DEF Row

\* Tokens are pieces.
LEMMA TokenizeType ==
  ASSUME NEW T, NEW text \in Seq(T)
  PROVE  Tokenize(text) \in Seq(T) /\ Tokenize(text) = FlattenSeq(Pieces(text))
  <1>1. Tokenize(text) = FlattenSeq(Pieces(text))
    BY DEF Tokenize, Pieces
  <1>2. QED
    BY <1>1, PiecesRow, FlattenIs

\* The tokens of two texts.
LEMMA TokenizeJoin ==
  ASSUME NEW T, NEW u \in Seq(T), NEW v \in Seq(T)
  PROVE  Tokenize(u \o v) = Tokenize(u) \o Tokenize(v)
  <1>1. /\ u \o v \in Seq(T) /\ Len(u \o v) = Len(u) + Len(v)
        /\ \A i \in 1 .. Len(u) : (u \o v)[i] = u[i]
        /\ \A i \in 1 .. Len(v) : (u \o v)[Len(u) + i] = v[i]
    BY ConcatAt
  <1>2. PICK w \in Seq(T) : w = u \o v
    BY <1>1
  <1>3. /\ Len(u) \in Nat /\ Len(v) \in Nat /\ DOMAIN u = 1 .. Len(u)
        /\ DOMAIN v = 1 .. Len(v) /\ DOMAIN w = 1 .. Len(u) + Len(v)
        /\ Len(w) = Len(u) + Len(v)
    BY <1>1, <1>2, LenProperties
  <1>4. /\ Row(Pieces(u), Len(u), T) /\ Row(Pieces(v), Len(v), T)
        /\ Row(Pieces(w), Len(u) + Len(v), T)
    BY <1>3, PiecesRow
  <1>5. \A k \in 1 .. Len(u) : Pieces(w)[k] = Pieces(u)[k]
    <2> TAKE k \in 1 .. Len(u)
    <2>1. k \in 1 .. Len(u) + Len(v) /\ w[k] = u[k]
      BY <1>1, <1>2, <1>3
    <2>2. QED
      BY <1>3, <2>1 DEF Pieces
  <1>6. \A k \in 1 .. Len(v) : Pieces(w)[Len(u) + k] = Pieces(v)[k]
    <2> TAKE k \in 1 .. Len(v)
    <2>1. Len(u) + k \in 1 .. Len(u) + Len(v) /\ w[Len(u) + k] = v[k]
      BY <1>1, <1>2, <1>3
    <2>2. QED
      BY <1>3, <2>1 DEF Pieces
  <1>7. FlattenSeq(Pieces(w)) = FlattenSeq(Pieces(u)) \o FlattenSeq(Pieces(v))
    <2>1. Joins(Pieces(w), Pieces(u), Len(u), Pieces(v), Len(v), T)
      BY <1>4, <1>5, <1>6 DEF Joins
    <2>2. QED
      BY <2>1, FlattenJoin, SMT
  <1>8. /\ Tokenize(u) = FlattenSeq(Pieces(u)) /\ Tokenize(v) = FlattenSeq(Pieces(v))
        /\ Tokenize(w) = FlattenSeq(Pieces(w))
    BY TokenizeType, Zenon
  <1>9. QED
    BY <1>2, <1>7, <1>8, Zenon

\* The tokens of one piece, and of none.
LEMMA TokenizeOne ==
  ASSUME NEW T, NEW x \in T
  PROVE  Tokenize(<<x>>) = Token(x) /\ Tokenize(<< >>) = << >>
  <1>1. <<x>> \in Seq(T) /\ << >> \in Seq(T) /\ Len(<<x>>) = 1 /\ Len(<< >>) = 0
    OBVIOUS
  <1>2. Row(Pieces(<<x>>), 1, T) /\ Row(Pieces(<< >>), 0, T)
    BY <1>1, PiecesRow
  <1>3. Pieces(<<x>>)[1] = Token(x)
    BY DEF Pieces
  <1>4. QED
    BY <1>1, <1>2, <1>3, FlattenOne, FlattenNone, TokenizeType

\* The tokens of texts one behind the other.
LEMMA TokenizeFlatten ==
  ASSUME NEW T, NEW n, NEW texts, Row(texts, n, T),
         NEW parts, Row(parts, n, T), \A k \in 1 .. n : parts[k] = Tokenize(texts[k])
  PROVE  Tokenize(FlattenSeq(texts)) = FlattenSeq(parts)
  <1>0. n \in Nat /\ \A k \in 1 .. n : texts[k] \in Seq(T) /\ parts[k] \in Seq(T)
    BY DEF Row
  <1>1. PICK g : Appends(g, texts, n, T)
    BY FlattenRun
  <1>2. PICK h : Appends(h, parts, n, T)
    BY FlattenRun
  <1>3. \A k \in 0 .. n : g[k] \in Seq(T)
    BY <1>1 DEF Appends
  <1> DEFINE S == {k \in 0 .. n : Tokenize(g[k]) = h[k]}
  <1>4. 0 \in S
    <2>1. g[0] = << >> /\ h[0] = << >>
      BY <1>1, <1>2 DEF Appends
    <2>2. Tokenize(<< >>) = << >>
      BY TokenizeOne
    <2>3. QED
      BY <1>0, <2>1, <2>2
  <1>5. ASSUME NEW k \in 1 .. n, k - 1 \in S PROVE k \in S
    <2>1. k - 1 \in 0 .. n /\ k \in 0 .. n
      BY <1>0
    <2>2. g[k] = g[k - 1] \o texts[k] /\ h[k] = h[k - 1] \o parts[k]
      BY <1>1, <1>2 DEF Appends
    <2>3. Tokenize(g[k - 1] \o texts[k]) = Tokenize(g[k - 1]) \o Tokenize(texts[k])
      BY <1>0, <1>3, <2>1, TokenizeJoin
    <2>4. QED
      BY <1>5, <2>1, <2>2, <2>3
  <1> HIDE DEF S
  <1>6. 0 .. n \subseteq S
    BY <1>0, <1>4, <1>5, BoundedInduction
  <1>7. Tokenize(g[n]) = h[n]
    BY <1>0, <1>6 DEF S
  <1>8. QED
    BY <1>1, <1>2, <1>7 DEF Appends

-----------------------------------------------------------------------------
(* The rounds of the scan *)

\* Where the scan starts.
Start == [cursor |-> 4, depth |-> 0, registers |-> << >>, ok |-> TRUE]

\* The scans after as many rounds as a set has numbers.
ScanIterates(f, tokens, n) ==
  f = [s \in SUBSET (1 .. n) |->
          IF s = {} THEN Start ELSE Round(tokens, f[s \ {Max(s)}])]

\* The scan is the last of them, if there are such.
LEMMA ScanIsIterate ==
  ASSUME NEW n \in Nat, NEW tokens, DOMAIN tokens = 1 .. n
  PROVE  Scan(tokens) = (CHOOSE f : ScanIterates(f, tokens, n))[1 .. n]
  BY DEF Scan, FoldLeft, MapThenFoldSet, ScanIterates, Start

\* There are such.
LEMMA ScansExist ==
  ASSUME NEW tokens
  PROVE  \A n \in Nat : \E f : ScanIterates(f, tokens, n)
  <1> DEFINE P(n) == \E f : ScanIterates(f, tokens, n)
             S == {n \in Nat : P(n)}
  <1>1. 0 \in S
    <2> DEFINE f == [s \in SUBSET (1 .. 0) |-> Start]
    <2>1. \A s \in SUBSET (1 .. 0) : s = {}
      OBVIOUS
    <2>2. ScanIterates(f, tokens, 0)
      BY <2>1 DEF ScanIterates
    <2>3. QED
      BY <2>2
  <1>2. ASSUME NEW n \in Nat, P(n)
        PROVE  P(n + 1)
    <2>1. PICK g : ScanIterates(g, tokens, n)
      BY <1>2
    <2> DEFINE f == [s \in SUBSET (1 .. n + 1) |->
                        IF n + 1 \in s THEN Round(tokens, g[s \ {n + 1}]) ELSE g[s]]
    <2>2. ASSUME NEW s \in SUBSET (1 .. n + 1)
          PROVE  f[s] = IF s = {} THEN Start ELSE Round(tokens, f[s \ {Max(s)}])
      <3>1. CASE n + 1 \in s
        <4>1. Max(s) = n + 1
          <5>1. s \subseteq Int /\ \A k \in s : k <= n + 1
            OBVIOUS
          <5>2. QED
            BY <3>1, <5>1, MaxIs
        <4>2. s \ {n + 1} \in SUBSET (1 .. n + 1) /\ n + 1 \notin s \ {n + 1}
          OBVIOUS
        <4>3. f[s \ {n + 1}] = g[s \ {n + 1}]
          BY <4>2
        <4>4. f[s] = Round(tokens, g[s \ {n + 1}])
          BY <3>1
        <4>5. QED
          BY <3>1, <4>1, <4>3, <4>4
      <3>2. CASE n + 1 \notin s
        <4>1. s \in SUBSET (1 .. n)
          BY <3>2
        <4>2. f[s] = g[s]
          BY <3>2
        <4>3. g[s] = IF s = {} THEN Start ELSE Round(tokens, g[s \ {Max(s)}])
          BY <2>1, <4>1 DEF ScanIterates
        <4>4. s \ {Max(s)} \in SUBSET (1 .. n + 1) /\ n + 1 \notin s \ {Max(s)}
          BY <3>2
        <4>5. f[s \ {Max(s)}] = g[s \ {Max(s)}]
          BY <4>4
        <4>6. QED
          BY <4>2, <4>3, <4>5
      <3>3. QED
        BY <3>1, <3>2
    <2>3. f = [s \in SUBSET (1 .. n + 1) |-> f[s]]
      OBVIOUS
    <2> HIDE DEF f
    <2>4. ScanIterates(f, tokens, n + 1)
      BY <2>2, <2>3 DEF ScanIterates
    <2>5. QED
      BY <2>4
  <1>3. \A n \in Nat : n \in S => n + 1 \in S
    BY <1>2
  <1> HIDE DEF P
  <1>4. Nat \subseteq S
    <2> HIDE DEF S
    <2>1. QED
      BY <1>1, <1>3, SetInduction
  <1>5. QED
    BY <1>4 DEF P

\* The scans after 0, 1, ..., n rounds.
Scans(run, tokens, n) ==
  /\ n \in Nat /\ DOMAIN tokens = 1 .. n /\ Len(tokens) = n
  /\ run[0] = Start /\ \A k \in 1 .. n : run[k] = Round(tokens, run[k - 1])
  /\ Scan(tokens) = run[n]

\* There are such.
LEMMA ScanRun ==
  ASSUME NEW T, NEW tokens \in Seq(T)
  PROVE  \E run : Scans(run, tokens, Len(tokens))
  <1>0. PICK n \in Nat : n = Len(tokens) /\ DOMAIN tokens = 1 .. n
    BY LenProperties
  <1> DEFINE f == CHOOSE f : ScanIterates(f, tokens, n)
             run == [i \in 0 .. n |-> f[1 .. i]]
  <1>1. ScanIterates(f, tokens, n)
    BY ScansExist
  <1>2. Scan(tokens) = f[1 .. n]
    BY <1>0, ScanIsIterate
  <1> HIDE DEF f
  <1>3. run[0] = Start
    <2>1. 1 .. 0 = {} /\ {} \in SUBSET (1 .. n)
      OBVIOUS
    <2>2. f[{}] = Start
      BY <1>1, <2>1 DEF ScanIterates
    <2>3. QED
      BY <2>1, <2>2
  <1>4. ASSUME NEW k \in 1 .. n PROVE run[k] = Round(tokens, run[k - 1])
    <2>1. 1 .. k \in SUBSET (1 .. n) /\ k - 1 \in 0 .. n /\ k \in 0 .. n
      OBVIOUS
    <2>2. 1 .. k # {} /\ Max(1 .. k) = k /\ (1 .. k) \ {k} = 1 .. k - 1
      BY Initial, SMTT(60)
    <2>3. f[1 .. k] = Round(tokens, f[1 .. k - 1])
      BY <1>1, <2>1, <2>2 DEF ScanIterates
    <2>4. QED
      BY <2>1, <2>3
  <1>5. run[n] = f[1 .. n]
    OBVIOUS
  <1> HIDE DEF run
  <1>6. Scans(run, tokens, n)
    BY <1>0, <1>2, <1>3, <1>4, <1>5 DEF Scans
  <1>7. QED
    BY <1>0, <1>6

\* A scan that has refused, or is behind the last token, stays.
LEMMA ScanStays ==
  ASSUME NEW run, NEW tokens, NEW n, Scans(run, tokens, n), NEW k \in 0 .. n,
         ~run[k].ok \/ ~(run[k].cursor <= n)
  PROVE  Scan(tokens) = run[k]
  <1>0. /\ n \in Nat /\ Len(tokens) = n /\ Scan(tokens) = run[n]
        /\ \A j \in 1 .. n : run[j] = Round(tokens, run[j - 1])
    BY DEF Scans
  <1> DEFINE S == {j \in 0 .. n - k : run[k + j] = run[k]}
  <1>1. 0 \in S
    BY <1>0
  <1>2. ASSUME NEW j \in 1 .. n - k, j - 1 \in S PROVE j \in S
    <2>1. k + j \in 1 .. n /\ (k + j) - 1 = k + (j - 1)
      BY <1>0
    <2>2. run[k + j] = Round(tokens, run[k + (j - 1)]) /\ run[k + (j - 1)] = run[k]
      BY <1>0, <1>2, <2>1
    <2>3. Round(tokens, run[k]) = run[k]
      BY <1>0 DEF Round
    <2>4. QED
      BY <1>0, <2>2, <2>3
  <1> HIDE DEF S
  <1>3. n - k \in Nat
    BY <1>0
  <1>4. 0 .. n - k \subseteq S
    BY <1>1, <1>2, <1>3, BoundedInduction
  <1>5. n - k \in S
    BY <1>3, <1>4
  <1>6. QED
    BY <1>0, <1>5 DEF S

-----------------------------------------------------------------------------
(* One round, by the token at the cursor *)

\* Braces are no other tokens.
LEMMA Braces ==
  /\ Open # Close
  /\ Open \notin {"gate", "include", "bit", "creg", "input", "output", "pragma", "@"}
  /\ Close \notin {"gate", "include", "bit", "creg", "input", "output", "pragma", "@"}
  BY Zenon DEF Open, Close

\* A scan that goes on at token c.
Reading(c, d, rs) == [cursor |-> c, depth |-> d, registers |-> rs, ok |-> TRUE]

\* A round at token c of a scan that goes on.
LEMMA RoundIs ==
  ASSUME NEW n \in Nat, NEW tokens, Len(tokens) = n,
         NEW c \in 1 .. n, NEW d, NEW rs
  PROVE  Round(tokens, Reading(c, d, rs)) = Step(tokens, Reading(c, d, rs))
  BY DEF Round, Reading

\* A token of no statement that the scanner knows is passed.
LEMMA StepPlain ==
  ASSUME NEW tokens, NEW c \in Nat, NEW d, NEW rs, tokens[c] \notin Keywords \cup Refusing
  PROVE  Step(tokens, Reading(c, d, rs)) = Reading(c + 1, d, rs)
  BY Braces DEF Step, Reading, Keywords, Refusing

\* A brace opens a scope.
LEMMA StepOpen ==
  ASSUME NEW tokens, NEW c \in Nat, NEW d \in Nat, NEW rs, tokens[c] = Open
  PROVE  Step(tokens, Reading(c, d, rs)) = Reading(c + 1, d + 1, rs)
  BY Braces DEF Step, Reading

\* Or closes one, if there is one.
LEMMA StepClose ==
  ASSUME NEW tokens, NEW c \in Nat, NEW d \in Nat, NEW rs, tokens[c] = Close
  PROVE  IF d = 0 THEN ~Step(tokens, Reading(c, d, rs)).ok
         ELSE Step(tokens, Reading(c, d, rs)) = Reading(c + 1, d - 1, rs)
  BY Braces DEF Step, Reading, Failed

\* Some tokens are refused.
LEMMA StepRefuses ==
  ASSUME NEW tokens, NEW c \in Nat, NEW d, NEW rs, tokens[c] \in Refusing
  PROVE  ~Step(tokens, Reading(c, d, rs)).ok
  BY Braces DEF Step, Reading, Failed, Refusing

\* An inclusion is that of the standard gates outside scopes.
LEMMA StepInclude ==
  ASSUME NEW tokens, NEW c \in Nat, NEW d, NEW rs, tokens[c] = "include",
         c + 1 \in DOMAIN tokens, c + 2 \in DOMAIN tokens
  PROVE  IF d = 0 /\ tokens[c + 1] = "stdgates.inc" /\ tokens[c + 2] = Semicolon
         THEN Step(tokens, Reading(c, d, rs)) = Reading(c + 3, d, rs)
         ELSE ~Step(tokens, Reading(c, d, rs)).ok
  BY Braces DEF Step, Reading, Failed, TopLevel, At

\* A gate is passed up to its end, if it has one.
LEMMA StepGate ==
  ASSUME NEW tokens, NEW c \in Nat, NEW d, NEW rs, tokens[c] = "gate",
         SkipGate(tokens, c + 1) # 0
  PROVE  IF d = 0 THEN Step(tokens, Reading(c, d, rs)) = Reading(SkipGate(tokens, c + 1), d, rs)
         ELSE ~Step(tokens, Reading(c, d, rs)).ok
  BY Braces DEF Step, Reading, Failed, TopLevel

\* Declarations and casts are read as what they declare.
LEMMA StepDeclares ==
  ASSUME NEW tokens, NEW c \in Nat, NEW d, NEW rs, tokens[c] \in {"bit", "creg"}
  PROVE  Step(tokens, Reading(c, d, rs)) = Declare(tokens, Reading(c, d, rs))
  BY Braces DEF Step, Reading

\* The form of a declaration: name, size and length.
IsForm(form, name, size, length) ==
  form.name = name /\ form.size = size /\ form.length = length /\ form.shaped

\* The three forms.
LEMMA FormIs ==
  ASSUME NEW tokens, NEW c \in Nat, \A k \in 0 .. 4 : c + k \in DOMAIN tokens
  PROVE  /\ tokens[c] = "creg" /\ tokens[c + 2] = "[" /\ tokens[c + 4] = "]" =>
               IsForm(Form(tokens, c), tokens[c + 1], tokens[c + 3], 5)
         /\ tokens[c] = "bit" /\ tokens[c + 1] = "[" /\ tokens[c + 3] = "]" =>
               IsForm(Form(tokens, c), tokens[c + 4], tokens[c + 2], 5)
  <1>1. \A k \in 0 .. 4 : At(tokens, c + k) = tokens[c + k]
    BY DEF At
  <1>2. /\ At(tokens, c + 0) = tokens[c] /\ At(tokens, c + 1) = tokens[c + 1]
        /\ At(tokens, c + 2) = tokens[c + 2] /\ At(tokens, c + 3) = tokens[c + 3]
        /\ At(tokens, c + 4) = tokens[c + 4]
    BY <1>1
  <1>3. QED
    BY <1>2 DEF Form, IsForm

\* The form without a size.
LEMMA FormBit ==
  ASSUME NEW tokens, NEW c \in Nat, c \in DOMAIN tokens, c + 1 \in DOMAIN tokens,
         tokens[c] = "bit", tokens[c + 1] # "["
  PROVE  IsForm(Form(tokens, c), tokens[c + 1], "1", 2)
  <1>1. At(tokens, c + 0) = tokens[c] /\ At(tokens, c + 1) = tokens[c + 1]
    BY DEF At
  <1>2. QED
    BY <1>1 DEF Form, IsForm

\* A size that is none, or zero, is refused unless the declaration is a cast.
LEMMA DeclareSize ==
  ASSUME NEW tokens, NEW c \in Nat, NEW d, NEW rs, NEW name, NEW size, NEW length \in Nat,
         IsForm(Form(tokens, c), name, size, length)
  PROVE  /\ ~Number(size) => ~Declare(tokens, Reading(c, d, rs)).ok
         /\ Number(size) /\ name # "(" /\ Numeral[size] = 0 =>
               ~Declare(tokens, Reading(c, d, rs)).ok
         /\ Number(size) /\ name = "(" /\ tokens[c] = "bit" =>
               Declare(tokens, Reading(c, d, rs)) = Reading(c + length, d, rs)
  BY DEF Declare, Reading, Failed, IsForm

\* A register is declared outside scopes, with a name and bits that are free.
LEMMA DeclareName ==
  ASSUME NEW tokens, NEW c \in Nat, NEW d, NEW rs, NEW name \in Words, NEW size, NEW length \in Nat,
         IsForm(Form(tokens, c), name, size, length), Number(size), Numeral[size] # 0,
         name # "(", At(tokens, c + length) = Semicolon
  PROVE  IF /\ d = 0 /\ \A i \in DOMAIN rs : rs[i].name # name
            /\ Numeral[size] <= MaxSize - Width(rs)
         THEN Declare(tokens, Reading(c, d, rs))
                = Reading(c + length + 1, d, Append(rs, [name |-> name, width |-> Numeral[size]]))
         ELSE ~Declare(tokens, Reading(c, d, rs)).ok
  BY DEF Declare, Reading, Failed, IsForm, TopLevel, Name

-----------------------------------------------------------------------------
(* The scan of a statement *)

\* Tokens t are those behind the first a.
Within(tokens, a, t) ==
  /\ a \in Nat /\ Len(t) \in Nat /\ DOMAIN t = 1 .. Len(t)
  /\ Len(tokens) \in Nat /\ DOMAIN tokens = 1 .. Len(tokens)
  /\ a + Len(t) <= Len(tokens) /\ \A i \in 1 .. Len(t) : tokens[a + i] = t[i]

\* After k rounds the scan is behind the first a tokens, and t follows.
Reached(run, tokens, a, t, k, d, rs) ==
  /\ Scans(run, tokens, Len(tokens)) /\ Within(tokens, a, t)
  /\ k \in 0 .. a /\ d \in Nat /\ run[k] = Reading(a + 1, d, rs)

\* The next round.
LEMMA NextRound ==
  ASSUME NEW run, NEW tokens, NEW n, Scans(run, tokens, n), NEW k \in 0 .. n - 1,
         NEW c \in 1 .. n, NEW d, NEW rs, run[k] = Reading(c, d, rs)
  PROVE  run[k + 1] = Step(tokens, Reading(c, d, rs))
  <1>1. /\ n \in Nat /\ Len(tokens) = n
        /\ \A j \in 1 .. n : run[j] = Round(tokens, run[j - 1])
    BY DEF Scans
  <1>2. k + 1 \in 1 .. n /\ (k + 1) - 1 = k
    BY <1>1
  <1>3. run[k + 1] = Round(tokens, run[k])
    BY <1>1, <1>2
  <1>4. QED
    BY <1>1, <1>3, RoundIs

\* A cast is passed.
LEMMA CastPassed ==
  ASSUME NEW tokens, NEW a, NEW t, Within(tokens, a, t), NEW q \in 0 .. Len(t),
         NEW i \in 1 .. q, Cast(t, i, q), NEW d, NEW rs
  PROVE  \E e \in i .. q : Step(tokens, Reading(a + i, d, rs)) = Reading(a + e + 1, d, rs)
  <1>0. /\ a \in Nat /\ Len(t) \in Nat /\ DOMAIN tokens = 1 .. Len(tokens)
        /\ Len(tokens) \in Nat /\ a + Len(t) <= Len(tokens)
        /\ \A j \in 1 .. Len(t) : tokens[a + j] = t[j]
    BY DEF Within
  <1>1. tokens[a + i] = "bit" /\ a + i \in Nat /\ a + i \in DOMAIN tokens
    BY <1>0, SMTT(60) DEF Cast
  <1>2. Step(tokens, Reading(a + i, d, rs)) = Declare(tokens, Reading(a + i, d, rs))
    BY <1>1, StepDeclares
  <1>3. CASE i + 1 <= q /\ t[i + 1] = "("
    <2>1. i + 1 \in 1 .. Len(t) /\ (a + i) + 1 = a + (i + 1)
      BY <1>0, <1>3
    <2>2. tokens[(a + i) + 1] = "(" /\ (a + i) + 1 \in DOMAIN tokens
      BY <1>0, <1>3, <2>1
    <2>3. IsForm(Form(tokens, a + i), "(", "1", 2)
      BY <1>1, <2>2, FormBit
    <2>4. Number("1")
      <3>1. "1" \in DOMAIN Numeral /\ Numeral["1"] = 1 /\ MaxSize \in Nat \ {0}
        BY ProgramAssumption, Zenon
      <3>2. 1 <= MaxSize
        BY <3>1
      <3>3. QED
        BY <3>1, <3>2 DEF Number
    <2>5. Declare(tokens, Reading(a + i, d, rs)) = Reading((a + i) + 2, d, rs)
      BY <1>1, <2>3, <2>4, DeclareSize
    <2>6. i + 1 \in i .. q /\ (a + i) + 2 = a + (i + 1) + 1
      BY <1>0, <1>3
    <2>7. QED
      BY <1>2, <2>5, <2>6
  <1>4. CASE /\ i + 4 <= q /\ t[i + 1] = "[" /\ Number(t[i + 2])
             /\ t[i + 3] = "]" /\ t[i + 4] = "("
    <2>1. \A j \in 0 .. 4 : /\ i + j \in 1 .. Len(t) /\ (a + i) + j = a + (i + j)
                            /\ (a + i) + j \in DOMAIN tokens
      BY <1>0, <1>4
    <2>2. \A j \in 0 .. 4 : tokens[(a + i) + j] = t[i + j]
      BY <1>0, <2>1
    <2>3. /\ tokens[(a + i) + 1] = "[" /\ tokens[(a + i) + 2] = t[i + 2]
          /\ tokens[(a + i) + 3] = "]" /\ tokens[(a + i) + 4] = "("
      BY <1>4, <2>2
    <2>4. IsForm(Form(tokens, a + i), "(", t[i + 2], 5)
      BY <1>1, <2>1, <2>3, FormIs
    <2>5. Declare(tokens, Reading(a + i, d, rs)) = Reading((a + i) + 5, d, rs)
      BY <1>1, <1>4, <2>4, DeclareSize
    <2>6. i + 4 \in i .. q /\ (a + i) + 5 = a + (i + 4) + 1
      BY <1>0, <1>4
    <2>7. QED
      BY <1>2, <2>5, <2>6
  <1>5. QED
    BY <1>3, <1>4 DEF Cast

\* So are expressions, in no more rounds than they have tokens.
LEMMA ExpressionsPassed ==
  ASSUME NEW run, NEW tokens, NEW a, NEW t, NEW k, NEW d, NEW rs,
         Reached(run, tokens, a, t, k, d, rs), NEW q \in 0 .. Len(t), Expressions(t, q)
  PROVE  \E j \in k .. k + q : run[j] = Reading(a + q + 1, d, rs)
  <1>0. /\ Scans(run, tokens, Len(tokens)) /\ Within(tokens, a, t)
        /\ k \in 0 .. a /\ run[k] = Reading(a + 1, d, rs)
        /\ a \in Nat /\ Len(t) \in Nat /\ Len(tokens) \in Nat /\ a + Len(t) <= Len(tokens)
        /\ \A j \in 1 .. Len(t) : tokens[a + j] = t[j]
    BY DEF Reached, Within
  <1>q. q \in Nat /\ q <= Len(t) /\ k \in Nat
    BY <1>0
  <1> DEFINE S == {j \in 0 .. q : \E e \in j .. q : \E r \in k .. k + e :
                                     run[r] = Reading(a + e + 1, d, rs)}
  <1>1. 0 \in S
    <2>1. 0 \in 0 .. q /\ k \in k .. k + 0 /\ a + 0 + 1 = a + 1
      BY <1>0, <1>q
    <2>2. \E r \in k .. k + 0 : run[r] = Reading(a + 0 + 1, d, rs)
      BY <1>0, <2>1
    <2>3. QED
      BY <2>1, <2>2
  <1>2. ASSUME NEW j \in 1 .. q, j - 1 \in S PROVE j \in S
    <2>1. PICK e \in j - 1 .. q : \E r \in k .. k + e : run[r] = Reading(a + e + 1, d, rs)
      BY <1>2
    <2>2. PICK r \in k .. k + e : run[r] = Reading(a + e + 1, d, rs)
      BY <2>1
    <2>3. CASE e >= j
      BY <1>q, <2>1, <2>2, <2>3
    <2>4. CASE e = j - 1
      <3>1. /\ a + e + 1 = a + j /\ a + j \in 1 .. Len(tokens) /\ j \in 1 .. Len(t)
            /\ r \in 0 .. Len(tokens) - 1 /\ r \in k .. k + (j - 1) /\ a + j \in Nat
        BY <1>0, <1>q, <2>4
      <3>2. run[r] = Reading(a + j, d, rs)
        BY <2>2, <3>1
      <3>3. run[r + 1] = Step(tokens, Reading(a + j, d, rs))
        BY <1>0, <3>1, <3>2, NextRound
      <3>4. \E e2 \in j .. q : Step(tokens, Reading(a + j, d, rs)) = Reading(a + e2 + 1, d, rs)
        <4>1. CASE t[j] \in Keywords \cup Refusing
          <5>1. Cast(t, j, q)
            BY <4>1 DEF Expressions
          <5>2. Within(tokens, a, t) /\ q \in 0 .. Len(t) /\ j \in 1 .. q
            BY <1>0
          <5>3. QED
            BY <5>1, <5>2, CastPassed
        <4>2. CASE t[j] \notin Keywords \cup Refusing
          <5>1. tokens[a + j] \notin Keywords \cup Refusing
            BY <1>0, <3>1, <4>2
          <5>2. Step(tokens, Reading(a + j, d, rs)) = Reading(a + j + 1, d, rs)
            BY <3>1, <5>1, StepPlain
          <5>3. QED
            BY <1>q, <5>2
        <4>3. QED
          BY <4>1, <4>2
      <3>5. PICK e2 \in j .. q : run[r + 1] = Reading(a + e2 + 1, d, rs)
        BY <3>3, <3>4
      <3>6. r + 1 \in k .. k + e2
        BY <1>q, <3>1
      <3>7. j \in 0 .. q
        BY <1>q
      <3>8. QED
        BY <3>5, <3>6, <3>7
    <2>5. QED
      BY <1>q, <2>3, <2>4
  <1> HIDE DEF S
  <1>3. q \in S
    <2>1. 0 .. q \subseteq S
      BY <1>q, <1>1, <1>2, BoundedInduction
    <2>2. QED
      BY <1>q, <2>1
  <1>4. PICK e \in q .. q : \E r \in k .. k + e : run[r] = Reading(a + e + 1, d, rs)
    BY <1>3 DEF S
  <1>5. e = q
    BY <1>q
  <1>6. QED
    BY <1>4, <1>5

-----------------------------------------------------------------------------
(* What a statement does to the scan *)

\* The registers of a program so far, as the scan may have them.
Kept(rs) ==
  /\ rs \in Seq([name : Words, width : Nat])
  /\ DistinctNames(rs) /\ Width(rs) <= MaxSize

\* A statement that the documentation admits behind others.
Good(s, d, rs) ==
  /\ s.supported /\ d + s.nests >= 0 /\ (s.top => d = 0)
  /\ DistinctNames(rs \o s.registers) /\ Width(rs \o s.registers) <= MaxSize

\* Within m rounds it is read, or refused.
Scanned(run, k, m, s, c, d, rs) == \E j \in k .. k + m :
  IF Good(s, d, rs) THEN run[j] = Reading(c, d + s.nests, rs \o s.registers)
                    ELSE ~run[j].ok

\* A statement without registers.
LEMMA InertGood ==
  ASSUME NEW s, NEW nests, Inert(s, nests), NEW rs, Kept(rs), NEW d
  PROVE  /\ Good(s, d, rs) <=> d + nests >= 0 /\ (s.top => d = 0)
         /\ rs \o s.registers = rs /\ s.nests = nests
  <1>1. rs \o << >> = rs
    BY ConcatEmptySeq DEF Kept
  <1>2. QED
    BY <1>1 DEF Good, Inert, Kept

\* An unsupported one is not admitted.
LEMMA SimpleScanned ==
  ASSUME NEW run, NEW tokens, NEW a, NEW t, NEW k, NEW d, NEW rs, NEW s,
         Reached(run, tokens, a, t, k, d, rs), Kept(rs), NEW q, IsSimple(s, t, q)
  PROVE  Scanned(run, k, Len(t), s, a + Len(t) + 1, d, rs)
  <1>0. /\ Scans(run, tokens, Len(tokens)) /\ Within(tokens, a, t)
        /\ k \in 0 .. a /\ d \in Nat /\ a \in Nat /\ Len(t) \in Nat /\ Len(tokens) \in Nat
        /\ a + Len(t) <= Len(tokens) /\ \A j \in 1 .. Len(t) : tokens[a + j] = t[j]
    BY DEF Reached, Within
  <1>n. /\ k \in 0 .. a /\ d \in Nat /\ a \in Nat /\ Len(t) \in Nat
        /\ Len(tokens) \in Nat /\ a + Len(t) <= Len(tokens)
    BY <1>0
  <1>1. q \in 0 .. Len(t) /\ Expressions(t, q)
    BY DEF IsSimple
  <1>2. PICK j \in k .. k + q : run[j] = Reading(a + q + 1, d, rs)
    BY <1>1, ExpressionsPassed
  <1>3. CASE q = Len(t) /\ Inert(s, 0) /\ ~s.top
    <2>a. Inert(s, 0) /\ ~s.top /\ d + 0 >= 0
      BY <1>3, <1>n
    <2>1. Good(s, d, rs) /\ rs \o s.registers = rs /\ s.nests = 0
      BY <2>a, InertGood, Zenon
    <2>2. d + s.nests = d
      BY <1>n, <2>1
    <2>3. QED
      BY <1>2, <1>3, <2>1, <2>2 DEF Scanned
  <1>4. ASSUME q < Len(t)
        PROVE  /\ run[j + 1] = Step(tokens, Reading(a + q + 1, d, rs))
               /\ tokens[a + q + 1] = t[q + 1] /\ a + q + 1 \in Nat
               /\ j + 1 \in k .. k + Len(t)
    <2>1. /\ a + q + 1 \in 1 .. Len(tokens) /\ j \in 0 .. Len(tokens) - 1
          /\ q + 1 \in 1 .. Len(t) /\ a + q + 1 = a + (q + 1) /\ a + q + 1 \in Nat
          /\ j + 1 \in k .. k + Len(t)
      BY <1>n, <1>1, <1>4
    <2>2. tokens[a + q + 1] = t[q + 1]
      BY <1>0, <2>1, SMTT(60)
    <2>3. run[j + 1] = Step(tokens, Reading(a + q + 1, d, rs))
      <3>1. Scans(run, tokens, Len(tokens))
        BY <1>0
      <3>2. QED
        BY <1>2, <2>1, <3>1, NextRound
    <2>4. QED
      BY <2>1, <2>2, <2>3
  <1>5. CASE q = Len(t) - 1 /\ t[q + 1] = Open /\ Inert(s, 1) /\ ~s.top
    <2>a. q = Len(t) - 1 /\ t[q + 1] = Open /\ Inert(s, 1) /\ ~s.top
      BY <1>5, Zenon
    <2>b. q = Len(t) - 1
      BY <2>a, Zenon
    <2>0. q < Len(t) /\ a + q + 1 + 1 = a + Len(t) + 1 /\ d + 1 >= 0
      BY <1>n, <1>1, <2>b
    <2>1. Step(tokens, Reading(a + q + 1, d, rs)) = Reading(a + q + 1 + 1, d + 1, rs)
      <3>1. tokens[a + q + 1] = Open /\ a + q + 1 \in Nat /\ d \in Nat
        BY <1>n, <1>4, <2>a, <2>0
      <3>2. QED
        BY <3>1, StepOpen
    <2>2. Good(s, d, rs) /\ rs \o s.registers = rs /\ s.nests = 1
      BY <2>a, <2>0, InertGood, Zenon
    <2>3. a + q + 1 + 1 = a + Len(t) + 1
      BY <2>0
    <2>4. run[j + 1] = Reading(a + Len(t) + 1, d + s.nests, rs \o s.registers)
      BY <1>4, <2>0, <2>1, <2>2, <2>3
    <2>5. QED
      BY <1>4, <2>0, <2>2, <2>4 DEF Scanned
  <1>6. CASE q < Len(t) /\ t[q + 1] \in Refusing /\ ~s.supported
    <2>1. ~Step(tokens, Reading(a + q + 1, d, rs)).ok
      BY <1>4, <1>6, StepRefuses
    <2>2. ~Good(s, d, rs)
      BY <1>6 DEF Good
    <2>3. QED
      BY <1>4, <1>6, <2>1, <2>2 DEF Scanned
  <1>7. QED
    BY <1>3, <1>5, <1>6 DEF IsSimple

\* The first round of a statement that has a token.
LEMMA FirstRound ==
  ASSUME NEW run, NEW tokens, NEW a, NEW t, NEW k, NEW d, NEW rs,
         Reached(run, tokens, a, t, k, d, rs), Len(t) >= 1
  PROVE  /\ run[k + 1] = Step(tokens, Reading(a + 1, d, rs))
         /\ a + 1 \in Nat /\ d \in Nat /\ k + 1 \in k .. k + Len(t) /\ a \in Nat
         /\ \A i \in 1 .. Len(t) : a + i \in DOMAIN tokens /\ tokens[a + i] = t[i]
         /\ DOMAIN t = 1 .. Len(t) /\ Len(t) \in Nat
  <1>0. /\ Scans(run, tokens, Len(tokens)) /\ DOMAIN tokens = 1 .. Len(tokens)
        /\ k \in 0 .. a /\ d \in Nat /\ a \in Nat /\ Len(t) \in Nat /\ Len(tokens) \in Nat
        /\ a + Len(t) <= Len(tokens) /\ \A j \in 1 .. Len(t) : tokens[a + j] = t[j]
        /\ run[k] = Reading(a + 1, d, rs) /\ DOMAIN t = 1 .. Len(t)
    BY DEF Reached, Within
  <1>1. a + 1 \in 1 .. Len(tokens) /\ k \in 0 .. Len(tokens) - 1
    BY <1>0
  <1>2. run[k + 1] = Step(tokens, Reading(a + 1, d, rs))
    BY <1>0, <1>1, NextRound
  <1>3. QED
    BY <1>0, <1>2

\* The end of a scope.
LEMMA ClosingScanned ==
  ASSUME NEW run, NEW tokens, NEW a, NEW t, NEW k, NEW d, NEW rs, NEW s,
         Reached(run, tokens, a, t, k, d, rs), Kept(rs), IsClosing(s, t)
  PROVE  Scanned(run, k, Len(t), s, a + Len(t) + 1, d, rs)
  <1>c. t = <<Close>> /\ Inert(s, -1) /\ ~s.top
    BY Zenon DEF IsClosing
  <1>t. t = <<Close>>
    BY <1>c, Zenon
  <1>0. Len(t) = 1 /\ t[1] = Close /\ Len(t) >= 1 /\ 1 \in 1 .. Len(t)
    BY <1>t
  <1>1. /\ run[k + 1] = Step(tokens, Reading(a + 1, d, rs)) /\ tokens[a + 1] = Close
        /\ k + 1 \in k .. k + Len(t) /\ a + 1 \in Nat /\ d \in Nat /\ a \in Nat
    <2>1. /\ run[k + 1] = Step(tokens, Reading(a + 1, d, rs))
          /\ a + 1 \in Nat /\ d \in Nat /\ k + 1 \in k .. k + Len(t) /\ a \in Nat
          /\ \A i \in 1 .. Len(t) : a + i \in DOMAIN tokens /\ tokens[a + i] = t[i]
      BY <1>0, FirstRound
    <2>2. QED
      BY <1>0, <2>1
  <1>2. /\ Good(s, d, rs) <=> d + (-1) >= 0 /\ (s.top => d = 0)
        /\ rs \o s.registers = rs /\ s.nests = -1
    BY <1>c, InertGood, Zenon
  <1>s. IF d = 0 THEN ~Step(tokens, Reading(a + 1, d, rs)).ok
        ELSE Step(tokens, Reading(a + 1, d, rs)) = Reading(a + 1 + 1, d - 1, rs)
    BY <1>1, StepClose
  <1>3. CASE d = 0
    <2>1. ~(d + (-1) >= 0)
      BY <1>3
    <2>2. ~Good(s, d, rs)
      BY <1>2, <2>1, Zenon
    <2>3. ~run[k + 1].ok
      BY <1>1, <1>3, <1>s
    <2>4. QED
      BY <1>1, <2>2, <2>3 DEF Scanned
  <1>4. CASE d # 0
    <2>a. d + (-1) >= 0 /\ d + (-1) = d - 1 /\ a + 1 + 1 = a + Len(t) + 1
      BY <1>0, <1>1, <1>4
    <2>1. Good(s, d, rs) /\ d + s.nests = d - 1 /\ a + 1 + 1 = a + Len(t) + 1
      BY <1>c, <1>2, <2>a, Zenon
    <2>2. Step(tokens, Reading(a + 1, d, rs)) = Reading(a + 1 + 1, d - 1, rs)
      BY <1>4, <1>s
    <2>3. QED
      BY <1>1, <1>2, <2>1, <2>2 DEF Scanned
  <1>5. QED
    BY <1>3, <1>4

\* An inclusion.
LEMMA IncludeScanned ==
  ASSUME NEW run, NEW tokens, NEW a, NEW t, NEW k, NEW d, NEW rs, NEW s,
         Reached(run, tokens, a, t, k, d, rs), Kept(rs), IsInclude(s, t),
         Len(t) \in Nat
  PROVE  Scanned(run, k, Len(t), s, a + Len(t) + 1, d, rs)
  <1>a. Len(t) >= 3 /\ t[1] = "include"
    BY Zenon DEF IsInclude
  <1>b. Len(t) >= 3
    BY <1>a, Zenon
  <1>0. Len(t) >= 3 /\ t[1] = "include" /\ Len(t) >= 1
    BY <1>a, <1>b
  <1>1. /\ run[k + 1] = Step(tokens, Reading(a + 1, d, rs)) /\ tokens[a + 1] = "include"
        /\ k + 1 \in k .. k + Len(t) /\ a + 1 \in Nat /\ d \in Nat /\ a \in Nat
        /\ tokens[a + 1 + 1] = t[2] /\ a + 1 + 1 \in DOMAIN tokens
        /\ tokens[a + 1 + 2] = t[3] /\ a + 1 + 2 \in DOMAIN tokens
    <2>1. /\ run[k + 1] = Step(tokens, Reading(a + 1, d, rs))
          /\ a + 1 \in Nat /\ d \in Nat /\ k + 1 \in k .. k + Len(t) /\ a \in Nat
          /\ \A i \in 1 .. Len(t) : a + i \in DOMAIN tokens /\ tokens[a + i] = t[i]
      BY <1>0, FirstRound
    <2>2. 1 \in 1 .. Len(t) /\ 2 \in 1 .. Len(t) /\ 3 \in 1 .. Len(t)
      BY <1>0
    <2>3. a + 1 + 1 = a + 2 /\ a + 1 + 2 = a + 3
      BY <2>1
    <2>4. QED
      BY <1>0, <2>1, <2>2, <2>3
  <1>2. CASE t[2] = "stdgates.inc" /\ t[3] = Semicolon
    <2>1. Len(t) = 3 /\ Inert(s, 0) /\ s.top
      BY <1>2 DEF IsInclude
    <2>2. /\ Good(s, d, rs) <=> d + 0 >= 0 /\ (s.top => d = 0)
          /\ rs \o s.registers = rs /\ s.nests = 0
      BY <2>1, InertGood
    <2>3. d + 0 = d /\ a + Len(t) + 1 = a + 1 + 3 /\ (Good(s, d, rs) <=> d = 0)
      BY <1>1, <2>1, <2>2
    <2>4. IF d = 0 THEN run[k + 1] = Reading(a + 1 + 3, d, rs) ELSE ~run[k + 1].ok
      BY <1>1, <1>2, StepInclude
    <2>5. QED
      BY <1>1, <2>2, <2>3, <2>4 DEF Scanned
  <1>3. CASE ~(t[2] = "stdgates.inc" /\ t[3] = Semicolon)
    <2>1. ~s.supported
      BY <1>3 DEF IsInclude
    <2>2. ~Step(tokens, Reading(a + 1, d, rs)).ok
      BY <1>1, <1>3, StepInclude
    <2>3. ~Good(s, d, rs)
      BY <2>1 DEF Good
    <2>4. QED
      BY <1>1, <2>2, <2>3 DEF Scanned
  <1>4. QED
    BY <1>2, <1>3

-----------------------------------------------------------------------------
(* Registers behind others *)

Register == [name : Words, width : Nat]

\* Of two layouts, one behind the other, the first is the smaller one.
LEMMA LayoutGrows ==
  ASSUME NEW rs \in Seq(Register), NEW u \in Seq(Register)
  PROVE  /\ Width(rs) \in Nat /\ Width(rs \o u) \in Nat
         /\ Width(rs) <= Width(rs \o u)
         /\ DistinctNames(rs \o u) => DistinctNames(rs)
         /\ Len(u) = 1 => Width(rs \o u) = Width(rs) + u[1].width
  <1>1. /\ rs \o u \in Seq(Register) /\ Len(rs \o u) = Len(rs) + Len(u)
        /\ \A i \in 1 .. Len(rs) : (rs \o u)[i] = rs[i]
        /\ \A i \in 1 .. Len(u) : (rs \o u)[Len(rs) + i] = u[i]
    BY ConcatAt
  <1>2. PICK w \in Seq(Register) : w = rs \o u
    BY <1>1
  <1>3. IsLayout(rs, Words) /\ IsLayout(w, Words)
    BY LayoutIs DEF Register
  <1>4. /\ Len(rs) \in Nat /\ Len(u) \in Nat /\ Len(w) = Len(rs) + Len(u)
        /\ DOMAIN rs = 1 .. Len(rs) /\ DOMAIN w = 1 .. Len(w)
    BY <1>1, <1>2, LenProperties
  <1>5. /\ Width(rs) = Total(Widths(rs), Len(rs))
        /\ \A k \in 1 .. Len(rs) : Widths(rs)[k] = rs[k].width /\ Widths(rs)[k] \in Nat
    BY <1>3, WidthIs
  <1>6. /\ Width(w) = Total(Widths(w), Len(w))
        /\ \A k \in 1 .. Len(w) : Widths(w)[k] = w[k].width /\ Widths(w)[k] \in Nat
    BY <1>3, WidthIs
  <1>7. Total(Widths(w), Len(rs)) = Width(rs)
    <2>1. \A k \in 1 .. Len(rs) : Widths(w)[k] \in Int /\ Widths(w)[k] = Widths(rs)[k]
      BY <1>1, <1>2, <1>4, <1>5, <1>6
    <2>2. IsFiniteSet(1 .. Len(rs))
      BY <1>4, FS_Interval
    <2>3. QED
      BY <1>5, <2>1, <2>2, SumSame DEF Total
  <1>8. /\ \A k \in 0 .. Len(w) : Total(Widths(w), k) \in Nat
        /\ Total(Widths(w), Len(rs)) <= Total(Widths(w), Len(w))
    <2>1. Len(w) \in Nat /\ Len(rs) \in 0 .. Len(w) /\ Len(w) \in 0 .. Len(w) /\ Len(rs) <= Len(w)
      BY <1>4
    <2>2. QED
      BY <1>6, <2>1, TotalGrows
  <1>9. DistinctNames(w) => DistinctNames(rs)
    BY <1>1, <1>2, <1>4 DEF DistinctNames
  <1>10. Len(u) = 1 => Width(w) = Width(rs) + u[1].width
    <2>1. HAVE Len(u) = 1
    <2>2. /\ Len(w) \in 1 .. Len(w) /\ Len(w) - 1 = Len(rs) /\ Len(w) \in Nat
          /\ Len(w) = Len(rs) + 1 /\ 1 \in 1 .. Len(u)
      BY <1>4, <2>1
    <2>3. Widths(w)[Len(w)] = u[1].width
      BY <1>1, <1>2, <1>6, <2>2
    <2>4. \A k \in 1 .. Len(w) : Widths(w)[k] \in Int
      BY <1>6
    <2>5. Total(Widths(w), Len(w)) = Total(Widths(w), Len(w) - 1) + Widths(w)[Len(w)]
      BY <2>2, <2>4, TotalSteps
    <2>6. QED
      BY <1>6, <1>7, <2>2, <2>3, <2>5
  <1>11. Width(rs) \in Nat /\ Width(w) \in Nat
    BY <1>4, <1>6, <1>7, <1>8
  <1>12. QED
    BY <1>2, <1>6, <1>7, <1>8, <1>9, <1>10, <1>11

\* One register more.
LEMMA AppendRegister ==
  ASSUME NEW rs, Kept(rs), NEW name \in Words, NEW width \in Nat,
         NEW r, r = [name |-> name, width |-> width]
  PROVE  /\ Append(rs, r) = rs \o <<r>>
         /\ Width(rs) \in Nat /\ Width(rs \o <<r>>) = Width(rs) + width
         /\ DistinctNames(rs \o <<r>>) <=> \A i \in DOMAIN rs : rs[i].name # name
  <1>1. rs \in Seq(Register) /\ r \in Register /\ DistinctNames(rs) /\ r.name = name /\ r.width = width
    BY DEF Kept, Register
  <1>2. <<r>> \in Seq(Register) /\ Len(<<r>>) = 1 /\ <<r>>[1] = r
    BY <1>1
  <1>3. Width(rs) \in Nat /\ Width(rs \o <<r>>) = Width(rs) + width
    BY <1>1, <1>2, LayoutGrows
  <1>4. Append(rs, r) = rs \o <<r>>
    BY <1>1, AppendIsConcat
  <1>5. /\ Len(rs) \in Nat /\ DOMAIN rs = 1 .. Len(rs)
        /\ rs \o <<r>> \in Seq(Register) /\ Len(rs \o <<r>>) = Len(rs) + 1
        /\ \A i \in 1 .. Len(rs) : (rs \o <<r>>)[i] = rs[i]
        /\ (rs \o <<r>>)[Len(rs) + 1] = r
    BY <1>1, <1>2, ConcatAt, LenProperties
  <1>6. PICK w \in Seq(Register) : w = rs \o <<r>>
    BY <1>5
  <1>7. DOMAIN w = 1 .. Len(rs) + 1
    BY <1>5, <1>6, LenProperties
  <1>8. DistinctNames(w) <=> \A i \in DOMAIN rs : rs[i].name # name
    <2>1. ASSUME DistinctNames(w), NEW i \in DOMAIN rs, rs[i].name = name PROVE FALSE
      <3>1. /\ i \in DOMAIN w /\ Len(rs) + 1 \in DOMAIN w /\ i # Len(rs) + 1
            /\ w[i] = rs[i] /\ w[Len(rs) + 1] = r
        BY <1>5, <1>6, <1>7
      <3>2. QED
        BY <1>1, <2>1, <3>1 DEF DistinctNames
    <2>2. ASSUME \A i \in DOMAIN rs : rs[i].name # name,
                 NEW i \in DOMAIN w, NEW j \in DOMAIN w, w[i].name = w[j].name
          PROVE  i = j
      <3>1. \A k \in DOMAIN w : (k \in DOMAIN rs /\ w[k] = rs[k]) \/ (k = Len(rs) + 1 /\ w[k] = r)
        BY <1>5, <1>6, <1>7
      <3>2. QED
        BY <1>1, <2>2, <3>1 DEF DistinctNames
    <2>3. QED
      BY <2>1, <2>2 DEF DistinctNames
  <1>9. QED
    BY <1>3, <1>4, <1>6, <1>8

-----------------------------------------------------------------------------
(* A declaration *)

\* Its form, at the token behind the first a.
Shows(tokens, a, t, name, size, length) ==
  /\ IsForm(Form(tokens, a + 1), name, size, length)
  /\ length \in Nat /\ length + 1 = Len(t) /\ At(tokens, a + 1 + length) = Semicolon
  /\ tokens[a + 1] \in {"bit", "creg"}

\* A declaration shows a form.
LEMMA DeclarationShows ==
  ASSUME NEW tokens, NEW a, NEW t, Within(tokens, a, t), NEW s,
         NEW name \in Words, NEW size, IsDeclaration(s, t, name, size)
  PROVE  \E length : Shows(tokens, a, t, name, size, length)
  <1>0. /\ a \in Nat /\ a + 1 \in Nat /\ a + 1 + 0 = a + 1
        /\ \A i \in 1 .. Len(t) : a + i \in DOMAIN tokens /\ tokens[a + i] = t[i]
        /\ \A k \in 0 .. 5 : a + 1 + k = a + (k + 1)
    <2>1. a \in Nat
      BY DEF Within
    <2>2. \A i \in 1 .. Len(t) : a + i \in DOMAIN tokens /\ tokens[a + i] = t[i]
      BY DEF Within
    <2>3. QED
      BY <2>1, <2>2
  <1>1. CASE t = <<"bit", "[", size, "]", name, Semicolon>>
    <2>1. /\ Len(t) = 6 /\ t[1] = "bit" /\ t[2] = "[" /\ t[3] = size /\ t[4] = "]"
          /\ t[5] = name /\ t[6] = Semicolon
      BY <1>1
    <2>2. \A k \in 0 .. 5 : k + 1 \in 1 .. Len(t)
      BY <2>1
    <2>3. \A k \in 0 .. 5 : a + 1 + k \in DOMAIN tokens /\ tokens[a + 1 + k] = t[k + 1]
      BY <1>0, <2>2
    <2>4. /\ tokens[a + 1] = "bit" /\ tokens[a + 1 + 1] = "[" /\ tokens[a + 1 + 2] = size
          /\ tokens[a + 1 + 3] = "]" /\ tokens[a + 1 + 4] = name /\ tokens[a + 1 + 5] = Semicolon
          /\ a + 1 + 5 \in DOMAIN tokens
      BY <1>0, <2>1, <2>3
    <2>5. \A k \in 0 .. 4 : a + 1 + k \in DOMAIN tokens
      BY <2>3
    <2>6. IsForm(Form(tokens, a + 1), name, size, 5)
      BY <1>0, <2>4, <2>5, FormIs
    <2>7. At(tokens, a + 1 + 5) = Semicolon
      BY <2>4 DEF At
    <2>8. QED
      BY <2>1, <2>4, <2>6, <2>7 DEF Shows
  <1>2. CASE t = <<"creg", name, "[", size, "]", Semicolon>>
    <2>1. /\ Len(t) = 6 /\ t[1] = "creg" /\ t[2] = name /\ t[3] = "[" /\ t[4] = size
          /\ t[5] = "]" /\ t[6] = Semicolon
      BY <1>2
    <2>2. \A k \in 0 .. 5 : k + 1 \in 1 .. Len(t)
      BY <2>1
    <2>3. \A k \in 0 .. 5 : a + 1 + k \in DOMAIN tokens /\ tokens[a + 1 + k] = t[k + 1]
      BY <1>0, <2>2
    <2>4. /\ tokens[a + 1] = "creg" /\ tokens[a + 1 + 1] = name /\ tokens[a + 1 + 2] = "["
          /\ tokens[a + 1 + 3] = size /\ tokens[a + 1 + 4] = "]" /\ tokens[a + 1 + 5] = Semicolon
          /\ a + 1 + 5 \in DOMAIN tokens
      BY <1>0, <2>1, <2>3
    <2>5. \A k \in 0 .. 4 : a + 1 + k \in DOMAIN tokens
      BY <2>3
    <2>6. IsForm(Form(tokens, a + 1), name, size, 5)
      BY <1>0, <2>4, <2>5, FormIs
    <2>7. At(tokens, a + 1 + 5) = Semicolon
      BY <2>4 DEF At
    <2>8. QED
      BY <2>1, <2>4, <2>6, <2>7 DEF Shows
  <1>3. CASE t = <<"bit", name, Semicolon>> /\ size = "1"
    <2>1. Len(t) = 3 /\ t[1] = "bit" /\ t[2] = name /\ t[3] = Semicolon
      BY <1>3
    <2>2. \A k \in 0 .. 2 : k + 1 \in 1 .. Len(t) /\ k \in 0 .. 5
      BY <2>1
    <2>3. \A k \in 0 .. 2 : a + 1 + k \in DOMAIN tokens /\ tokens[a + 1 + k] = t[k + 1]
      BY <1>0, <2>2
    <2>4. /\ tokens[a + 1] = "bit" /\ tokens[a + 1 + 1] = name /\ tokens[a + 1 + 2] = Semicolon
          /\ a + 1 + 2 \in DOMAIN tokens /\ a + 1 + 1 \in DOMAIN tokens /\ a + 1 \in DOMAIN tokens
      BY <1>0, <2>1, <2>3
    <2>5. name # "["
      BY ProgramAssumption, Zenon
    <2>6. IsForm(Form(tokens, a + 1), name, size, 2)
      BY <1>0, <1>3, <2>4, <2>5, FormBit
    <2>7. At(tokens, a + 1 + 2) = Semicolon
      BY <2>4 DEF At
    <2>8. QED
      BY <2>1, <2>4, <2>6, <2>7 DEF Shows
  <1>4. QED
    BY <1>1, <1>2, <1>3 DEF IsDeclaration

\* It is read as what it declares.
LEMMA DeclarationScanned ==
  ASSUME NEW run, NEW tokens, NEW a, NEW t, NEW k, NEW d, NEW rs, NEW s,
         Reached(run, tokens, a, t, k, d, rs), Kept(rs),
         NEW name \in Words, NEW size \in DOMAIN Numeral, IsDeclaration(s, t, name, size)
  PROVE  Scanned(run, k, Len(t), s, a + Len(t) + 1, d, rs)
  <1>0. Within(tokens, a, t) /\ a \in Nat
    BY DEF Reached, Within
  <1>1. PICK length : Shows(tokens, a, t, name, size, length)
    BY <1>0, DeclarationShows
  <1>2. /\ IsForm(Form(tokens, a + 1), name, size, length)
        /\ length \in Nat /\ length + 1 = Len(t) /\ At(tokens, a + 1 + length) = Semicolon
        /\ tokens[a + 1] \in {"bit", "creg"} /\ Len(t) >= 1
        /\ a + 1 + length + 1 = a + Len(t) + 1
    BY <1>0, <1>1 DEF Shows
  <1>3. /\ run[k + 1] = Step(tokens, Reading(a + 1, d, rs))
        /\ a + 1 \in Nat /\ d \in Nat /\ k + 1 \in k .. k + Len(t)
    BY <1>2, FirstRound
  <1>4. run[k + 1] = Declare(tokens, Reading(a + 1, d, rs))
    BY <1>2, <1>3, StepDeclares
  <1>5. name # "(" /\ Numeral[size] \in Nat /\ MaxSize \in Nat
    BY ProgramAssumption, Zenon
  <1>6. CASE ~(Number(size) /\ Numeral[size] # 0)
    <2>1. ~s.supported
      BY <1>6, Zenon DEF IsDeclaration
    <2>2. ~run[k + 1].ok
      BY <1>2, <1>3, <1>4, <1>5, <1>6, DeclareSize
    <2>3. ~Good(s, d, rs)
      BY <2>1 DEF Good
    <2>4. QED
      BY <1>3, <2>2, <2>3 DEF Scanned
  <1>7. CASE Number(size) /\ Numeral[size] # 0
    <2> DEFINE r == [name |-> name, width |-> Numeral[size]]
    <2>1. s.supported /\ s.top /\ s.nests = 0 /\ s.registers = <<r>>
      BY <1>7, Zenon DEF IsDeclaration
    <2>2. /\ Append(rs, r) = rs \o <<r>>
          /\ Width(rs) \in Nat /\ Width(rs \o <<r>>) = Width(rs) + Numeral[size]
          /\ DistinctNames(rs \o <<r>>) <=> \A i \in DOMAIN rs : rs[i].name # name
      BY <1>5, AppendRegister
    <2>3. /\ Good(s, d, rs) <=> /\ d = 0 /\ \A i \in DOMAIN rs : rs[i].name # name
                                /\ Numeral[size] <= MaxSize - Width(rs)
          /\ d + s.nests = d
      <3>1. d + s.nests = d /\ d + s.nests >= 0
        BY <1>3, <2>1
      <3>2. Width(rs \o <<r>>) <= MaxSize <=> Numeral[size] <= MaxSize - Width(rs)
        BY <1>5, <2>2
      <3>3. QED
        BY <2>1, <2>2, <3>1, <3>2, Zenon DEF Good
    <2>4. IF /\ d = 0 /\ \A i \in DOMAIN rs : rs[i].name # name
             /\ Numeral[size] <= MaxSize - Width(rs)
          THEN run[k + 1] = Reading(a + 1 + length + 1, d, Append(rs, r))
          ELSE ~run[k + 1].ok
      BY <1>2, <1>3, <1>4, <1>5, <1>7, DeclareName
    <2> HIDE DEF r
    <2>5. QED
      BY <1>2, <1>3, <2>1, <2>2, <2>3, <2>4 DEF Scanned
  <1>8. QED
    BY <1>6, <1>7

-----------------------------------------------------------------------------
(* A gate *)

\* A token occurs as often among tokens as where they are within others.
LEMMA OccurrencesShift ==
  ASSUME NEW tokens, NEW a, NEW t, Within(tokens, a, t),
         NEW first \in 1 .. Len(t), NEW last \in 0 .. Len(t), NEW token
  PROVE  Occurrences(token, tokens, a + first, a + last) = Occurrences(token, t, first, last)
  <1>0. a \in Nat /\ Len(t) \in Nat /\ \A i \in 1 .. Len(t) : tokens[a + i] = t[i]
    BY DEF Within
  <1> DEFINE S == {i \in first .. last : t[i] = token}
             U == {i \in a + first .. a + last : tokens[i] = token}
             f == [i \in S |-> a + i]
  <1>1. IsFiniteSet(S)
    <2>1. S \subseteq first .. last /\ first \in Int /\ last \in Int
      BY <1>0
    <2>2. IsFiniteSet(first .. last)
      BY <2>1, FS_Interval
    <2>3. QED
      BY <2>1, <2>2, FS_Subset
  <1>2. f \in Bijection(S, U)
    <2>1. \A i \in S : a + i \in U
      BY <1>0, SMTT(60)
    <2>2. \A i, j \in S : a + i = a + j => i = j
      BY <1>0
    <2>3. \A j \in U : \E i \in S : a + i = j
      <3> TAKE j \in U
      <3>1. j - a \in first .. last /\ a + (j - a) = j /\ j - a \in 1 .. Len(t)
        BY <1>0
      <3>2. t[j - a] = tokens[j]
        BY <1>0, <3>1
      <3>3. QED
        BY <3>1, <3>2
    <2> HIDE DEF S, U
    <2>4. QED
      BY <2>1, <2>2, <2>3 DEF Bijection, Injection, Surjection, IsInjective
  <1>3. ExistsBijection(S, U)
    BY <1>2 DEF ExistsBijection
  <1>4. Cardinality(U) = Cardinality(S)
    BY <1>1, <1>3, FS_Bijection, Zenon
  <1>5. QED
    BY <1>4 DEF Occurrences

\* The scan passes a gate up to the brace that matches its first.
LEMMA SkipsGate ==
  ASSUME NEW tokens, NEW a, NEW t, Within(tokens, a, t), NEW s, NEW open, IsGate(s, t, open),
         open \in 2 .. Len(t)
  PROVE  SkipGate(tokens, a + 1 + 1) = a + Len(t) + 1 /\ Len(t) >= 1 /\ t[1] = "gate"
  <1>0. /\ a \in Nat /\ Len(t) \in Nat /\ Len(tokens) \in Nat /\ a + Len(t) <= Len(tokens)
        /\ \A i \in 1 .. Len(t) : tokens[a + i] = t[i]
    BY DEF Within
  <1>1. /\ t[open] = Open /\ t[1] = "gate" /\ \A i \in 2 .. open - 1 : t[i] # Open
        /\ \A i \in open .. Len(t) :
              Occurrences(Open, t, open, i) = Occurrences(Close, t, open, i) <=> i = Len(t)
    BY DEF IsGate
  <1>2. Min(Openings(tokens, a + 1 + 1)) = a + open /\ Openings(tokens, a + 1 + 1) # {}
    <2>1. a + open \in Openings(tokens, a + 1 + 1)
      BY <1>0, <1>1 DEF Openings
    <2>2. Openings(tokens, a + 1 + 1) \subseteq Int
      BY <1>0 DEF Openings
    <2>3. ASSUME NEW i \in Openings(tokens, a + 1 + 1), ~(a + open <= i) PROVE FALSE
      <3>1. i \in a + 1 + 1 .. Len(tokens) /\ tokens[i] = Open
        BY DEF Openings
      <3>2. i - a \in 2 .. open - 1 /\ i - a \in 1 .. Len(t) /\ a + (i - a) = i
        BY <1>0, <2>3, <3>1
      <3>3. t[i - a] = Open
        BY <1>0, <3>1, <3>2
      <3>4. QED
        BY <1>1, <3>2, <3>3
    <2>4. QED
      BY <2>1, <2>2, <2>3, MinIs
  <1>3. /\ Min(Closings(tokens, a + open)) = a + Len(t)
        /\ Closings(tokens, a + open) # {}
    <2>0. ASSUME NEW i \in open .. Len(t)
          PROVE  Occurrences(Open, tokens, a + open, a + i) = Occurrences(Close, tokens, a + open, a + i)
                    <=> i = Len(t)
      <3>1. open \in 1 .. Len(t) /\ i \in 0 .. Len(t)
        BY <1>0
      <3>2. /\ Occurrences(Open, tokens, a + open, a + i) = Occurrences(Open, t, open, i)
            /\ Occurrences(Close, tokens, a + open, a + i) = Occurrences(Close, t, open, i)
        BY <3>1, OccurrencesShift
      <3>3. QED
        BY <1>1, <3>2
    <2>1. a + Len(t) \in Closings(tokens, a + open)
      <3>1. Len(t) \in open .. Len(t) /\ a + Len(t) \in a + open .. Len(tokens)
        BY <1>0
      <3>2. QED
        BY <2>0, <3>1 DEF Closings
    <2>2. Closings(tokens, a + open) \subseteq Int
      BY <1>0 DEF Closings
    <2>3. ASSUME NEW i \in Closings(tokens, a + open), ~(a + Len(t) <= i) PROVE FALSE
      <3>1. /\ i \in a + open .. Len(tokens)
            /\ Occurrences(Open, tokens, a + open, i) = Occurrences(Close, tokens, a + open, i)
        BY DEF Closings
      <3>2. i - a \in open .. Len(t) /\ a + (i - a) = i /\ i - a # Len(t)
        BY <1>0, <2>3, <3>1
      <3>3. QED
        BY <2>0, <3>1, <3>2
    <2>4. QED
      BY <2>1, <2>2, <2>3, MinIs
  <1>4. Len(t) >= 1
    BY <1>0
  <1>5. QED
    BY <1>1, <1>2, <1>3, <1>4 DEF SkipGate

\* A gate is passed, outside scopes.
LEMMA GateScanned ==
  ASSUME NEW run, NEW tokens, NEW a, NEW t, NEW k, NEW d, NEW rs, NEW s,
         Reached(run, tokens, a, t, k, d, rs), Kept(rs),
         NEW open \in 2 .. Len(t), IsGate(s, t, open)
  PROVE  Scanned(run, k, Len(t), s, a + Len(t) + 1, d, rs)
  <1>1. SkipGate(tokens, a + 1 + 1) = a + Len(t) + 1 /\ Len(t) >= 1 /\ t[1] = "gate"
    <2>1. Within(tokens, a, t)
      BY DEF Reached
    <2>2. QED
      BY <2>1, SkipsGate
  <1>2. /\ run[k + 1] = Step(tokens, Reading(a + 1, d, rs))
        /\ a + 1 \in Nat /\ d \in Nat /\ k + 1 \in k .. k + Len(t)
        /\ tokens[a + 1] = "gate" /\ a + Len(t) + 1 # 0
    <2>1. /\ run[k + 1] = Step(tokens, Reading(a + 1, d, rs))
          /\ a + 1 \in Nat /\ d \in Nat /\ k + 1 \in k .. k + Len(t) /\ a \in Nat
          /\ \A i \in 1 .. Len(t) : a + i \in DOMAIN tokens /\ tokens[a + i] = t[i]
          /\ Len(t) \in Nat
      BY <1>1, FirstRound
    <2>2. 1 \in 1 .. Len(t) /\ a + Len(t) + 1 # 0
      BY <1>1, <2>1
    <2>3. QED
      BY <1>1, <2>1, <2>2
  <1>3. IF d = 0 THEN run[k + 1] = Reading(a + Len(t) + 1, d, rs) ELSE ~run[k + 1].ok
    BY <1>1, <1>2, StepGate
  <1>4. Inert(s, 0) /\ s.top
    BY Zenon DEF IsGate
  <1>5. /\ Good(s, d, rs) <=> d + 0 >= 0 /\ (s.top => d = 0)
        /\ rs \o s.registers = rs /\ s.nests = 0
    BY <1>4, InertGood
  <1>6. d + 0 = d /\ d + 0 >= 0
    BY <1>2
  <1>7. /\ Good(s, d, rs) <=> d = 0
        /\ d + s.nests = d /\ rs \o s.registers = rs
    BY <1>4, <1>5, <1>6, Zenon
  <1>8. QED
    BY <1>2, <1>3, <1>7 DEF Scanned

-----------------------------------------------------------------------------
(* Any statement *)

\* A statement whose tokens end is read if it may stand there, and refused
\* if not.
LEMMA StatementScanned ==
  ASSUME NEW run, NEW tokens, NEW a, NEW t, NEW k, NEW d, NEW rs, NEW s,
         IsStatement(s), Lexes(s.text), t = Tokenize(s.text),
         Reached(run, tokens, a, t, k, d, rs), Kept(rs)
  PROVE  Scanned(run, k, Len(t), s, a + Len(t) + 1, d, rs)
  <1>1. \/ \E n \in 0 .. Len(t) : IsSimple(s, t, n)
        \/ IsClosing(s, t)
        \/ IsInclude(s, t)
        \/ \E name \in Words, size \in DOMAIN Numeral : IsDeclaration(s, t, name, size)
        \/ \E open \in 2 .. Len(t) : IsGate(s, t, open)
    BY Zenon DEF IsStatement
  <1>2. Len(t) \in Nat
    BY DEF Reached, Within
  <1>3. CASE \E n \in 0 .. Len(t) : IsSimple(s, t, n)
    BY <1>3, SimpleScanned, Zenon
  <1>4. CASE IsClosing(s, t)
    BY <1>4, ClosingScanned, Zenon
  <1>5. CASE IsInclude(s, t)
    BY <1>2, <1>5, IncludeScanned, Zenon
  <1>6. CASE \E name \in Words, size \in DOMAIN Numeral : IsDeclaration(s, t, name, size)
    BY <1>6, DeclarationScanned, Zenon
  <1>7. CASE \E open \in 2 .. Len(t) : IsGate(s, t, open)
    BY <1>7, GateScanned, Zenon
  <1>8. QED
    BY <1>1, <1>3, <1>4, <1>5, <1>6, <1>7, Zenon

-----------------------------------------------------------------------------
(* A program, statement by statement *)

\* A program of n statements.
IsText(p, n) ==
  /\ n \in Nat /\ DOMAIN p = 1 .. n /\ Len(p) = n /\ (n = 0 => p = << >>)
  /\ \A k \in 1 .. n : IsStatement(p[k])

\* Its pieces and tokens, and what is in front of a statement.
TextsOf(p) == [i \in DOMAIN p |-> p[i].text]

TokensOf(p) == [i \in DOMAIN p |-> Tokenize(p[i].text)]

InFront(p, k) == 3 + Before(TokensOf(p), k)

\* What the first m statements declare.
RegistersOf(p, m) == FlattenSeq([i \in 1 .. m |-> p[i].registers])

\* The first m statements are admitted.
Fine(p, m) ==
  /\ \A i \in 1 .. m : /\ p[i].supported /\ Depth(p, i) >= 0
                       /\ p[i].top => Depth(p, i - 1) = 0
  /\ DistinctNames(RegistersOf(p, m)) /\ Width(RegistersOf(p, m)) <= MaxSize

\* The parts of a statement.
LEMMA StatementIs ==
  ASSUME NEW s, IsStatement(s)
  PROVE  /\ s.text \in Seq(ToSet(s.text)) /\ s.registers \in Seq(Register)
         /\ s.nests \in -1 .. 1 /\ s.nests \in Int
         /\ s.supported => Lexes(s.text) /\ Names(s, Tokenize(s.text))
  <1>1. /\ s.text \in Seq(ToSet(s.text)) /\ s.registers \in Seq(Register)
        /\ s.nests \in -1 .. 1
        /\ s.supported => Lexes(s.text) /\ Names(s, Tokenize(s.text))
    BY Zenon DEF IsStatement, Register
  <1>2. QED
    BY <1>1

\* The pieces and the tokens of a program are rows.
LEMMA TextsRow ==
  ASSUME NEW p, NEW n, IsText(p, n)
  PROVE  \E T : Row(TextsOf(p), n, T) /\ Row(TokensOf(p), n, T)
  <1>0. /\ n \in Nat /\ DOMAIN p = 1 .. n /\ Len(p) = n /\ (n = 0 => p = << >>)
        /\ \A k \in 1 .. n : IsStatement(p[k])
    BY DEF IsText
  <1> DEFINE T == UNION {ToSet(p[k].text) : k \in 1 .. n}
  <1>1. ASSUME NEW k \in 1 .. n
        PROVE  p[k].text \in Seq(T) /\ Tokenize(p[k].text) \in Seq(T)
    <2>1. p[k].text \in Seq(ToSet(p[k].text))
      BY <1>0, StatementIs
    <2>2. ToSet(p[k].text) \subseteq T
      OBVIOUS
    <2>3. p[k].text \in Seq(T)
      <3> HIDE DEF T
      <3>1. PICK U : U = ToSet(p[k].text)
        OBVIOUS
      <3>2. QED
        BY <2>1, <2>2, <3>1, SeqMonotonic
    <2>4. QED
      BY <2>3, TokenizeType
  <1> HIDE DEF T
  <1>2. \A k \in 1 .. n : Len(p[k].text) \in Nat /\ Len(Tokenize(p[k].text)) \in Nat
    BY <1>1, LenProperties
  <1>3. PICK x : x = TextsOf(p)
    OBVIOUS
  <1>4. PICK y : y = TokensOf(p)
    OBVIOUS
  <1>5. x = [i \in 1 .. n |-> p[i].text] /\ y = [i \in 1 .. n |-> Tokenize(p[i].text)]
    BY <1>0, <1>3, <1>4 DEF TextsOf, TokensOf
  <1>6. /\ DOMAIN x = 1 .. n /\ Len(x) = n /\ (n = 0 => x = << >>)
        /\ DOMAIN y = 1 .. n /\ Len(y) = n /\ (n = 0 => y = << >>)
    BY <1>0, <1>5
  <1>7. \A k \in 1 .. n : x[k] = p[k].text /\ y[k] = Tokenize(p[k].text)
    BY <1>5
  <1>8. QED
    BY <1>0, <1>1, <1>2, <1>3, <1>4, <1>6, <1>7 DEF Row

\* The depth changes with each statement.
LEMMA DepthSteps ==
  ASSUME NEW p, NEW n, IsText(p, n)
  PROVE  /\ Depth(p, 0) = 0
         /\ \A m \in 0 .. n : Depth(p, m) \in Int
         /\ \A m \in 1 .. n : Depth(p, m) = Depth(p, m - 1) + p[m].nests
  <1>0. n \in Nat /\ DOMAIN p = 1 .. n /\ \A k \in 1 .. n : p[k].nests \in Int
    BY StatementIs DEF IsText
  <1>1. PICK fun : fun = [i \in 1 .. n |-> p[i].nests]
    OBVIOUS
  <1>2. \A k \in 1 .. n : fun[k] = p[k].nests /\ fun[k] \in Int
    BY <1>0, <1>1
  <1>3. ASSUME NEW m \in 0 .. n PROVE Depth(p, m) = Total(fun, m)
    <2>1. PICK g : g = [i \in 1 .. m |-> p[i].nests]
      OBVIOUS
    <2>2. DOMAIN g = 1 .. m /\ \A k \in 1 .. m : g[k] \in Int /\ g[k] = fun[k]
      BY <1>0, <1>2, <2>1
    <2>3. IsFiniteSet(1 .. m)
      BY <1>0, FS_Interval
    <2>4. SumFunctionOnSet(g, 1 .. m) = SumFunctionOnSet(fun, 1 .. m)
      BY <2>2, <2>3, SumSame
    <2>5. Depth(p, m) = SumFunction(g)
      BY <2>1 DEF Depth
    <2>6. QED
      BY <2>2, <2>4, <2>5 DEF SumFunction, Total
  <1>4. /\ Total(fun, 0) = 0
        /\ \A k \in 0 .. n : Total(fun, k) \in Int
        /\ \A k \in 1 .. n : Total(fun, k) = Total(fun, k - 1) + fun[k]
    BY <1>0, <1>2, TotalSteps
  <1>5. 0 \in 0 .. n /\ \A m \in 1 .. n : m \in 0 .. n /\ m - 1 \in 0 .. n
    BY <1>0
  <1>6. QED
    BY <1>2, <1>3, <1>4, <1>5

\* The registers are those of each statement behind those before.
LEMMA RegistersSteps ==
  ASSUME NEW p, NEW n, IsText(p, n)
  PROVE  /\ RegistersOf(p, 0) = << >> /\ RegistersOf(p, n) = Declared(p)
         /\ \A m \in 0 .. n : RegistersOf(p, m) \in Seq(Register)
         /\ \A m \in 1 .. n : RegistersOf(p, m) = RegistersOf(p, m - 1) \o p[m].registers
  <1>0. n \in Nat /\ DOMAIN p = 1 .. n /\ \A k \in 1 .. n : p[k].registers \in Seq(Register)
    BY StatementIs DEF IsText
  <1> DEFINE r(m) == [i \in 1 .. m |-> p[i].registers]
  <1>1. ASSUME NEW m \in 0 .. n PROVE Row(r(m), m, Register)
    <2>1. PICK x : x = r(m)
      OBVIOUS
    <2>2. /\ DOMAIN x = 1 .. m /\ Len(x) = m /\ (m = 0 => x = << >>)
      BY <1>0, <2>1
    <2>3. \A k \in 1 .. m : x[k] \in Seq(Register) /\ Len(x[k]) \in Nat
      BY <1>0, <2>1, LenProperties
    <2>4. m \in Nat
      BY <1>0
    <2>5. QED
      BY <2>1, <2>2, <2>3, <2>4 DEF Row
  <1>2. \A m \in 0 .. n : RegistersOf(p, m) \in Seq(Register)
    BY <1>1, FlattenIs DEF RegistersOf
  <1>3. RegistersOf(p, 0) = << >>
    <2>1. 0 \in 0 .. n
      BY <1>0
    <2>2. QED
      BY <1>1, <2>1, FlattenNone DEF RegistersOf
  <1>4. ASSUME NEW m \in 1 .. n
        PROVE  RegistersOf(p, m) = RegistersOf(p, m - 1) \o p[m].registers
    <2>0. m \in 0 .. n /\ m - 1 \in 0 .. n /\ (m - 1) + 1 = m
      BY <1>0
    <2>1. PICK b : b = <<p[m].registers>>
      OBVIOUS
    <2>2. Row(b, 1, Register) /\ b[1] = p[m].registers
      <3>1. /\ DOMAIN b = 1 .. 1 /\ Len(b) = 1 /\ b[1] = p[m].registers
            /\ \A k \in 1 .. 1 : b[k] = p[m].registers
        BY <2>1
      <3>2. p[m].registers \in Seq(Register) /\ Len(p[m].registers) \in Nat
        BY <1>0, LenProperties
      <3>3. QED
        BY <3>1, <3>2 DEF Row
    <2>3. Joins(r(m), r(m - 1), m - 1, b, 1, Register)
      <3>1. \A k \in 1 .. m - 1 : r(m)[k] = r(m - 1)[k]
        BY <1>0
      <3>2. \A k \in 1 .. 1 : r(m)[(m - 1) + k] = b[k]
        BY <1>0, <2>0, <2>2
      <3>3. Row(r(m), (m - 1) + 1, Register) /\ Row(r(m - 1), m - 1, Register)
        <4>1. Row(r(m), m, Register) /\ Row(r(m - 1), m - 1, Register)
          BY <1>1, <2>0
        <4> HIDE DEF r
        <4>2. QED
          BY <2>0, <4>1
      <3> HIDE DEF r
      <3>4. QED
        BY <2>2, <3>1, <3>2, <3>3 DEF Joins
    <2> HIDE DEF r
    <2>4. FlattenSeq(r(m)) = FlattenSeq(r(m - 1)) \o FlattenSeq(b)
      BY <2>3, FlattenJoin
    <2>5. FlattenSeq(b) = p[m].registers
      BY <2>2, FlattenOne
    <2>6. QED
      BY <2>4, <2>5 DEF RegistersOf, r
  <1>5. RegistersOf(p, n) = Declared(p)
    BY <1>0 DEF RegistersOf, Declared
  <1>6. QED
    BY <1>2, <1>3, <1>4, <1>5

\* A further statement is admitted if it may stand there.
LEMMA FineSteps ==
  ASSUME NEW p, NEW n, IsText(p, n)
  PROVE  /\ Fine(p, 0)
         /\ \A m \in 0 .. n : Fine(p, m) => Kept(RegistersOf(p, m)) /\ Depth(p, m) \in Nat
         /\ \A m \in 1 .. n : Fine(p, m)
               <=> Fine(p, m - 1) /\ Good(p[m], Depth(p, m - 1), RegistersOf(p, m - 1))
  <1>0. n \in Nat /\ \A k \in 1 .. n : p[k].registers \in Seq(Register)
    BY StatementIs DEF IsText
  <1>1. /\ Depth(p, 0) = 0
        /\ \A m \in 0 .. n : Depth(p, m) \in Int
        /\ \A m \in 1 .. n : Depth(p, m) = Depth(p, m - 1) + p[m].nests
    BY DepthSteps
  <1>2. /\ RegistersOf(p, 0) = << >>
        /\ \A m \in 0 .. n : RegistersOf(p, m) \in Seq(Register)
        /\ \A m \in 1 .. n : RegistersOf(p, m) = RegistersOf(p, m - 1) \o p[m].registers
    BY RegistersSteps
  <1>3. Fine(p, 0)
    <2>1. << >> \in Seq(Register) /\ Len(<< >>) = 0 /\ DOMAIN << >> = {}
      OBVIOUS
    <2>2. Width(<< >>) = 0
      <3>1. [r \in DOMAIN << >> |-> << >>[r].width] = << >>
        BY <2>1
      <3>2. QED
        BY <2>1, <3>1, SumEmpty DEF Width, SumFunction
    <2>3. DistinctNames(<< >>)
      BY <2>1 DEF DistinctNames
    <2>4. MaxSize \in Nat
      BY ProgramAssumption, Zenon
    <2>5. 0 <= MaxSize /\ \A i \in 1 .. 0 : FALSE
      BY <2>4
    <2>6. QED
      BY <1>2, <2>2, <2>3, <2>5 DEF Fine
  <1>4. ASSUME NEW m \in 0 .. n, Fine(p, m)
        PROVE  Kept(RegistersOf(p, m)) /\ Depth(p, m) \in Nat
    <2>1. Kept(RegistersOf(p, m))
      BY <1>2, <1>4 DEF Fine, Kept, Register
    <2>2. CASE m = 0
      BY <1>1, <2>1, <2>2
    <2>3. CASE m # 0
      <3>1. m \in 1 .. m
        BY <1>0, <2>3
      <3>2. Depth(p, m) >= 0 /\ Depth(p, m) \in Int
        BY <1>1, <1>4, <3>1 DEF Fine
      <3>3. QED
        BY <2>1, <3>2
    <2>4. QED
      BY <2>2, <2>3
  <1>5. ASSUME NEW m \in 1 .. n
        PROVE  Fine(p, m)
                  <=> Fine(p, m - 1) /\ Good(p[m], Depth(p, m - 1), RegistersOf(p, m - 1))
    <2>0. m - 1 \in 0 .. n /\ m \in 0 .. n /\ m \in 1 .. m
      BY <1>0
    <2>1. \A i \in 1 .. m : i \in 1 .. m - 1 \/ i = m
      BY <1>0
    <2>2. 1 .. m - 1 \subseteq 1 .. m
      BY <1>0
    <2>3. PICK rs \in Seq(Register) : rs = RegistersOf(p, m - 1)
      BY <1>2, <2>0
    <2>4. PICK u \in Seq(Register) : u = p[m].registers
      BY <1>0
    <2>5. RegistersOf(p, m) = rs \o u
      BY <1>2, <2>3, <2>4
    <2>6. /\ Width(rs) \in Nat /\ Width(rs \o u) \in Nat /\ Width(rs) <= Width(rs \o u)
          /\ DistinctNames(rs \o u) => DistinctNames(rs)
      BY LayoutGrows
    <2>7. MaxSize \in Nat
      BY ProgramAssumption, Zenon
    <2>8. Width(rs \o u) <= MaxSize => Width(rs) <= MaxSize
      BY <2>6, <2>7
    <2>9. Depth(p, m) = Depth(p, m - 1) + p[m].nests
      BY <1>1
    <2>10. Good(p[m], Depth(p, m - 1), RegistersOf(p, m - 1))
             <=> /\ p[m].supported /\ Depth(p, m) >= 0 /\ (p[m].top => Depth(p, m - 1) = 0)
                 /\ DistinctNames(rs \o u) /\ Width(rs \o u) <= MaxSize
      BY <2>3, <2>4, <2>9, Zenon DEF Good
    <2>11. QED
      BY <2>0, <2>1, <2>2, <2>3, <2>5, <2>6, <2>8, <2>10, Zenon DEF Fine
  <1>6. QED
    BY <1>3, <1>4, <1>5

-----------------------------------------------------------------------------
(* The tokens of a program *)

\* A program whose version is a token.
IsProgramText(s, n) ==
  IsText(s.statements, n) /\ s.version \notin {Comment, Unclosed}

\* In front of its statements are three tokens.
HeadOf(s) == <<"OPENQASM", s.version, Semicolon>>

HeadText(s) == <<Comment, "OPENQASM", s.version, Semicolon>>

\* None of them is a comment.
LEMMA HeadTokens ==
  ASSUME NEW s, s.version \notin {Comment, Unclosed}
  PROVE  Tokenize(HeadText(s)) = HeadOf(s) /\ Lexes(HeadText(s))
  <1>1. PICK v : v = s.version
    OBVIOUS
  <1>2. /\ Comment # Unclosed /\ v \notin {Comment, Unclosed}
        /\ "OPENQASM" \notin {Comment, Unclosed} /\ Semicolon \notin {Comment, Unclosed}
    BY <1>1, ProgramAssumption, Zenon
  <1> DEFINE T == {Comment, "OPENQASM", v, Semicolon}
  <1>3. PICK h : h = <<Comment, "OPENQASM", v, Semicolon>>
    OBVIOUS
  <1>4. h \in Seq(T) /\ Len(h) = 4 /\ h[1] = Comment /\ h[2] = "OPENQASM" /\ h[3] = v /\ h[4] = Semicolon
    BY <1>3
  <1>5. h = (<<Comment, "OPENQASM">> \o <<v>>) \o <<Semicolon>>
    BY <1>3
  <1>6. /\ <<Comment>> \in Seq(T) /\ <<"OPENQASM">> \in Seq(T) /\ <<v>> \in Seq(T)
        /\ <<Semicolon>> \in Seq(T) /\ <<Comment, "OPENQASM">> \in Seq(T)
        /\ <<Comment, "OPENQASM">> \o <<v>> \in Seq(T)
        /\ <<Comment, "OPENQASM">> = <<Comment>> \o <<"OPENQASM">>
    OBVIOUS
  <1>7. /\ Tokenize(<<Comment>>) = << >> /\ Tokenize(<<"OPENQASM">>) = <<"OPENQASM">>
        /\ Tokenize(<<v>>) = <<v>> /\ Tokenize(<<Semicolon>>) = <<Semicolon>>
    <2>1. Comment \in T /\ "OPENQASM" \in T /\ v \in T /\ Semicolon \in T
      OBVIOUS
    <2>2. /\ Tokenize(<<Comment>>) = Token(Comment) /\ Tokenize(<<"OPENQASM">>) = Token("OPENQASM")
          /\ Tokenize(<<v>>) = Token(v) /\ Tokenize(<<Semicolon>>) = Token(Semicolon)
      BY <2>1, TokenizeOne
    <2>3. QED
      BY <1>2, <2>2 DEF Token
  <1>8. Tokenize(<<Comment, "OPENQASM">>) = <<"OPENQASM">>
    <2>1. Tokenize(<<Comment, "OPENQASM">>) = Tokenize(<<Comment>>) \o Tokenize(<<"OPENQASM">>)
      BY <1>6, TokenizeJoin
    <2>2. << >> \o <<"OPENQASM">> = <<"OPENQASM">>
      OBVIOUS
    <2>3. QED
      BY <1>7, <2>1, <2>2
  <1> HIDE DEF T
  <1>9. Tokenize(h) = (<<"OPENQASM">> \o <<v>>) \o <<Semicolon>>
    <2>1. Tokenize(h) = Tokenize(<<Comment, "OPENQASM">> \o <<v>>) \o Tokenize(<<Semicolon>>)
      BY <1>5, <1>6, TokenizeJoin
    <2>2. Tokenize(<<Comment, "OPENQASM">> \o <<v>>)
            = Tokenize(<<Comment, "OPENQASM">>) \o Tokenize(<<v>>)
      BY <1>6, TokenizeJoin
    <2>3. QED
      BY <1>7, <1>8, <2>1, <2>2
  <1>10. (<<"OPENQASM">> \o <<v>>) \o <<Semicolon>> = <<"OPENQASM", v, Semicolon>>
    BY TuplesJoin
  <1>11. Tokenize(h) = <<"OPENQASM", v, Semicolon>>
    BY <1>9, <1>10
  <1>12. Lexes(h)
    <2>1. DOMAIN h = 1 .. 4
      BY <1>3
    <2>2. \A i \in 1 .. 4 : i = 1 \/ i = 2 \/ i = 3 \/ i = 4
      OBVIOUS
    <2>3. QED
      BY <1>2, <1>4, <2>1, <2>2 DEF Lexes
  <1>13. HeadText(s) = h /\ HeadOf(s) = <<"OPENQASM", v, Semicolon>>
    BY <1>1, <1>3 DEF HeadText, HeadOf
  <1>14. QED
    BY <1>11, <1>12, <1>13

\* The text of a program ends its comments and strings if its statements do.
LEMMA LexesEach ==
  ASSUME NEW s, NEW n, IsProgramText(s, n)
  PROVE  Lexes(Text(s)) <=> \A k \in 1 .. n : Lexes(s.statements[k].text)
  <1>0. IsText(s.statements, n) /\ Lexes(HeadText(s)) /\ n \in Nat /\ DOMAIN s.statements = 1 .. n
    BY HeadTokens DEF IsProgramText, IsText
  <1>1. PICK T : Row(TextsOf(s.statements), n, T)
    BY <1>0, TextsRow
  <1>2. PICK x : x = TextsOf(s.statements)
    OBVIOUS
  <1>3. Row(x, n, T) /\ \A k \in 1 .. n : x[k] = s.statements[k].text
    BY <1>0, <1>1, <1>2 DEF TextsOf
  <1>4. /\ FlattenSeq(x) \in Seq(T) /\ Len(FlattenSeq(x)) = Before(x, n + 1)
        /\ \A k \in 1 .. n : \A i \in 1 .. Len(x[k]) : FlattenSeq(x)[Before(x, k) + i] = x[k][i]
    BY <1>3, FlattenIs
  <1>5. PICK f : f = FlattenSeq(x)
    OBVIOUS
  <1>6. Text(s) = HeadText(s) \o f
    BY <1>2, <1>5 DEF Text, HeadText, TextsOf
  <1>7. PICK h : h = HeadText(s)
    OBVIOUS
  <1> DEFINE U == T \cup {Comment, "OPENQASM", s.version, Semicolon}
  <1>8. h \in Seq(U) /\ Len(h) = 4
    BY <1>7 DEF HeadText
  <1>9. f \in Seq(U) /\ Len(f) \in Nat /\ DOMAIN f = 1 .. Len(f) /\ DOMAIN h = 1 .. Len(h)
    <2>1. T \subseteq U /\ f \in Seq(T)
      BY <1>4, <1>5
    <2> HIDE DEF U
    <2>2. QED
      BY <1>8, <2>1, SeqMonotonic, LenProperties
  <1> HIDE DEF U
  <1>w. PICK w : w = h \o f
    OBVIOUS
  <1>10. /\ w \in Seq(U) /\ Len(w) = 4 + Len(f)
         /\ \A i \in 1 .. 4 : w[i] = h[i]
         /\ \A i \in 1 .. Len(f) : w[4 + i] = f[i]
    <2>1. /\ h \o f \in Seq(U) /\ Len(h \o f) = Len(h) + Len(f)
          /\ \A i \in 1 .. Len(h) : (h \o f)[i] = h[i]
          /\ \A i \in 1 .. Len(f) : (h \o f)[Len(h) + i] = f[i]
      <3>1. h \in Seq(U) /\ f \in Seq(U)
        BY <1>8, <1>9
      <3>2. QED
        BY <3>1, ConcatAt
    <2>2. QED
      BY <1>8, <1>w, <2>1, Zenon
  <1>11. DOMAIN w = 1 .. 4 + Len(f)
    BY <1>10, LenProperties
  <1>12. Lexes(w) <=> Lexes(f)
    <2>1. Lexes(h) /\ \A i \in 1 .. 4 : h[i] # Unclosed
      BY <1>0, <1>7, <1>8, <1>9 DEF Lexes
    <2>2. ASSUME Lexes(f), NEW i \in DOMAIN w PROVE w[i] # Unclosed
      <3>1. i \in 1 .. 4 \/ (i - 4 \in 1 .. Len(f) /\ 4 + (i - 4) = i)
        BY <1>9, <1>11
      <3>2. CASE i \in 1 .. 4
        BY <1>10, <2>1, <3>2
      <3>3. CASE i - 4 \in 1 .. Len(f) /\ 4 + (i - 4) = i
        <4>1. w[4 + (i - 4)] = f[i - 4] /\ f[i - 4] # Unclosed
          BY <1>9, <1>10, <2>2, <3>3 DEF Lexes
        <4>2. QED
          BY <3>3, <4>1
      <3>4. QED
        BY <3>1, <3>2, <3>3
    <2>3. ASSUME Lexes(w), NEW i \in DOMAIN f PROVE f[i] # Unclosed
      <3>1. 4 + i \in DOMAIN w /\ i \in 1 .. Len(f)
        BY <1>9, <1>11
      <3>2. w[4 + i] = f[i] /\ w[4 + i] # Unclosed
        BY <1>10, <2>3, <3>1 DEF Lexes
      <3>3. QED
        BY <3>2
    <2>4. QED
      BY <2>2, <2>3, Zenon DEF Lexes
  <1>13. Lexes(f) <=> \A k \in 1 .. n : Lexes(x[k])
    <2>0. \A k \in 1 .. n : DOMAIN x[k] = 1 .. Len(x[k]) /\ Len(x[k]) \in Nat
      BY <1>3, LenProperties DEF Row
    <2>1. ASSUME Lexes(f), NEW k \in 1 .. n, NEW i \in 1 .. Len(x[k]) PROVE x[k][i] # Unclosed
      <3>1. /\ Before(x, k) \in Nat /\ Before(x, k + 1) = Before(x, k) + Len(x[k])
            /\ Before(x, k + 1) <= Before(x, n + 1) /\ Before(x, n + 1) \in Nat
        <4>1. k + 1 \in 1 .. n + 1 /\ n + 1 \in 1 .. n + 1 /\ k \in 1 .. n + 1 /\ k + 1 <= n + 1
          BY <1>0
        <4>2. QED
          BY <1>3, <4>1, Places
      <3>2. Before(x, k) + i \in 1 .. Len(f)
        BY <1>4, <1>5, <2>0, <3>1
      <3>3. QED
        BY <1>4, <1>5, <1>9, <2>1, <3>2 DEF Lexes
    <2>2. ASSUME \A k \in 1 .. n : Lexes(x[k]), NEW j \in 1 .. Len(f) PROVE f[j] # Unclosed
      <3>1. j \in 1 .. Before(x, n + 1)
        BY <1>4, <1>5
      <3>2. PICK k \in 1 .. n : \E i \in 1 .. Len(x[k]) : j = Before(x, k) + i
        BY <1>3, <3>1, PlaceOf
      <3>3. PICK i \in 1 .. Len(x[k]) : j = Before(x, k) + i
        BY <3>2
      <3>4. f[j] = x[k][i]
        BY <1>4, <1>5, <3>3
      <3>5. QED
        BY <2>0, <2>2, <3>4 DEF Lexes
    <2>3. QED
      BY <1>9, <2>0, <2>1, <2>2 DEF Lexes
  <1>14. QED
    BY <1>3, <1>6, <1>7, <1>w, <1>12, <1>13

\* The tokens t of a program: its head, and those of each statement where
\* they belong.
Laidout(t, s, n) ==
  /\ Len(t) = InFront(s.statements, n + 1) /\ DOMAIN t = 1 .. Len(t) /\ Len(t) \in Nat
  /\ t[1] = "OPENQASM" /\ t[2] = s.version /\ t[3] = Semicolon
  /\ InFront(s.statements, 1) = 3
  /\ \A k \in 1 .. n : /\ Within(t, InFront(s.statements, k), TokensOf(s.statements)[k])
                       /\ TokensOf(s.statements)[k] = Tokenize(s.statements[k].text)
                       /\ InFront(s.statements, k + 1)
                             = InFront(s.statements, k) + Len(TokensOf(s.statements)[k])

\* They are.
LEMMA TokensLaidout ==
  ASSUME NEW s, NEW n, IsProgramText(s, n)
  PROVE  Laidout(Tokenize(Text(s)), s, n) /\ \E U : Tokenize(Text(s)) \in Seq(U)
  <1>0. /\ IsText(s.statements, n) /\ Tokenize(HeadText(s)) = HeadOf(s)
        /\ n \in Nat /\ DOMAIN s.statements = 1 .. n
    BY HeadTokens DEF IsProgramText, IsText
  <1>1. PICK T : Row(TextsOf(s.statements), n, T) /\ Row(TokensOf(s.statements), n, T)
    BY <1>0, TextsRow
  <1>2. PICK x : x = TextsOf(s.statements)
    OBVIOUS
  <1>3. PICK y : y = TokensOf(s.statements)
    OBVIOUS
  <1>4. /\ Row(x, n, T) /\ Row(y, n, T)
        /\ \A k \in 1 .. n : y[k] = Tokenize(x[k]) /\ y[k] = Tokenize(s.statements[k].text)
    BY <1>0, <1>1, <1>2, <1>3 DEF TextsOf, TokensOf
  <1>5. Tokenize(FlattenSeq(x)) = FlattenSeq(y)
    BY <1>4, TokenizeFlatten
  <1>6. /\ FlattenSeq(x) \in Seq(T)
        /\ FlattenSeq(y) \in Seq(T) /\ Len(FlattenSeq(y)) = Before(y, n + 1)
        /\ \A k \in 1 .. n : \A i \in 1 .. Len(y[k]) : FlattenSeq(y)[Before(y, k) + i] = y[k][i]
    BY <1>4, FlattenIs
  <1> DEFINE U == T \cup {Comment, "OPENQASM", s.version, Semicolon}
  <1>7. /\ HeadText(s) \in Seq(U) /\ HeadOf(s) \in Seq(U) /\ Len(HeadOf(s)) = 3
        /\ HeadOf(s)[1] = "OPENQASM" /\ HeadOf(s)[2] = s.version /\ HeadOf(s)[3] = Semicolon
    BY DEF HeadText, HeadOf
  <1>8. FlattenSeq(x) \in Seq(U) /\ FlattenSeq(y) \in Seq(U)
    <2>1. T \subseteq U
      OBVIOUS
    <2> HIDE DEF U
    <2>2. QED
      BY <1>6, <2>1, SeqMonotonic
  <1> HIDE DEF U
  <1>9. Tokenize(Text(s)) = HeadOf(s) \o FlattenSeq(y)
    <2>1. Text(s) = HeadText(s) \o FlattenSeq(x)
      BY <1>2 DEF Text, HeadText, TextsOf
    <2>2. Tokenize(HeadText(s) \o FlattenSeq(x)) = Tokenize(HeadText(s)) \o Tokenize(FlattenSeq(x))
      BY <1>7, <1>8, TokenizeJoin
    <2>3. QED
      BY <1>0, <1>5, <2>1, <2>2
  <1>10. PICK f \in Seq(U) : f = FlattenSeq(y)
    BY <1>8
  <1>11. PICK h \in Seq(U) : h = HeadOf(s)
    BY <1>7
  <1>12. /\ h \o f \in Seq(U) /\ Len(h \o f) = 3 + Len(f)
         /\ \A i \in 1 .. 3 : (h \o f)[i] = h[i]
         /\ \A i \in 1 .. Len(f) : (h \o f)[3 + i] = f[i]
    <2>1. /\ h \o f \in Seq(U) /\ Len(h \o f) = Len(h) + Len(f)
          /\ \A i \in 1 .. Len(h) : (h \o f)[i] = h[i]
          /\ \A i \in 1 .. Len(f) : (h \o f)[Len(h) + i] = f[i]
      BY ConcatAt
    <2>2. Len(h) = 3
      BY <1>7, <1>11, Zenon
    <2>3. QED
      BY <2>1, <2>2, Zenon
  <1>13. PICK t \in Seq(U) : t = h \o f
    BY <1>12
  <1>14. /\ Len(t) = 3 + Before(y, n + 1) /\ Len(t) \in Nat /\ DOMAIN t = 1 .. Len(t)
         /\ \A i \in 1 .. Before(y, n + 1) : t[3 + i] = f[i]
    BY <1>6, <1>10, <1>12, <1>13, LenProperties
  <1>15. t[1] = "OPENQASM" /\ t[2] = s.version /\ t[3] = Semicolon
    BY <1>7, <1>11, <1>12, <1>13
  <1>16. /\ Before(y, 1) = 0
         /\ \A k \in 1 .. n + 1 : Before(y, k) \in Nat
         /\ \A k \in 1 .. n : Before(y, k + 1) = Before(y, k) + Len(y[k])
         /\ \A j, k \in 1 .. n + 1 : j <= k => Before(y, j) <= Before(y, k)
    BY <1>4, Places
  <1>17. ASSUME NEW k \in 1 .. n
         PROVE  Within(t, 3 + Before(y, k), y[k])
    <2>1. /\ k \in 1 .. n + 1 /\ k + 1 \in 1 .. n + 1 /\ n + 1 \in 1 .. n + 1 /\ k + 1 <= n + 1
      BY <1>0
    <2>2. /\ Before(y, k) \in Nat /\ Before(y, k + 1) = Before(y, k) + Len(y[k])
          /\ Before(y, k + 1) <= Before(y, n + 1) /\ Before(y, n + 1) \in Nat
          /\ Len(y[k]) \in Nat /\ DOMAIN y[k] = 1 .. Len(y[k])
      <3>1. y[k] \in Seq(T)
        BY <1>4 DEF Row
      <3>2. QED
        BY <1>16, <2>1, <3>1, LenProperties
    <2>3. ASSUME NEW i \in 1 .. Len(y[k]) PROVE t[3 + Before(y, k) + i] = y[k][i]
      <3>1. Before(y, k) + i \in 1 .. Before(y, n + 1) /\ 3 + Before(y, k) + i = 3 + (Before(y, k) + i)
        BY <2>2, SMTT(60)
      <3>2. t[3 + (Before(y, k) + i)] = f[Before(y, k) + i]
        BY <1>14, <3>1
      <3>3. QED
        BY <1>6, <1>10, <3>1, <3>2
    <2>4. 3 + Before(y, k) \in Nat /\ 3 + Before(y, k) + Len(y[k]) <= Len(t)
      BY <1>14, <2>2, SMTT(60)
    <2>5. QED
      BY <1>14, <2>2, <2>3, <2>4 DEF Within
  <1>18. \A k \in 1 .. n : 3 + Before(y, k + 1) = 3 + Before(y, k) + Len(y[k])
    <2> TAKE k \in 1 .. n
    <2>1. k \in 1 .. n + 1 /\ Len(y[k]) \in Nat
      BY <1>0, <1>4 DEF Row
    <2>2. Before(y, k) \in Nat /\ Before(y, k + 1) = Before(y, k) + Len(y[k])
      BY <1>16, <2>1, Zenon
    <2>3. PICK u \in Nat : u = Before(y, k)
      BY <2>2
    <2>4. PICK l \in Nat : l = Len(y[k])
      BY <2>1
    <2>5. 3 + (u + l) = 3 + u + l
      OBVIOUS
    <2>6. QED
      BY <2>2, <2>3, <2>4, <2>5, Zenon
  <1>19. Laidout(t, s, n)
    <2>1. 3 + Before(y, 1) = 3
      BY <1>16
    <2>2. QED
      BY <1>3, <1>4, <1>14, <1>15, <1>17, <1>18, <2>1 DEF Laidout, InFront
  <1>20. QED
    BY <1>9, <1>10, <1>11, <1>13, <1>19

-----------------------------------------------------------------------------
(* The scan of a program *)

\* After the first m statements of the program s the scan has read them, or
\* has refused.
ReadTo(run, s, m) == \E j \in 0 .. InFront(s.statements, m + 1) :
  IF Fine(s.statements, m)
  THEN run[j] = Reading(InFront(s.statements, m + 1) + 1, Depth(s.statements, m),
                        RegistersOf(s.statements, m))
  ELSE ~run[j].ok

\* A scan of the tokens of the program.
IsScan(run, tokens, s, n) ==
  /\ IsProgramText(s, n) /\ tokens = Tokenize(Text(s)) /\ Lexes(Text(s))
  /\ Laidout(tokens, s, n) /\ Scans(run, tokens, Len(tokens))

\* The scan starts behind the head.
LEMMA ReadNone ==
  ASSUME NEW run, NEW tokens, NEW s, NEW n, IsScan(run, tokens, s, n)
  PROVE  ReadTo(run, s, 0)
  <1>1. InFront(s.statements, 1) = 3 /\ run[0] = Start
    BY DEF IsScan, Laidout, Scans
  <1>2. Depth(s.statements, 0) = 0 /\ RegistersOf(s.statements, 0) = << >> /\ Fine(s.statements, 0)
    BY DepthSteps, RegistersSteps, FineSteps DEF IsScan, IsProgramText
  <1>3. run[0] = Reading(3 + 1, 0, << >>)
    BY <1>1 DEF Start, Reading
  <1>4. 0 \in 0 .. 3 /\ 0 + 1 = 1
    OBVIOUS
  <1>5. QED
    BY <1>1, <1>2, <1>3, <1>4 DEF ReadTo

\* And goes from statement to statement.
LEMMA ReadOn ==
  ASSUME NEW run, NEW tokens, NEW s, NEW n, IsScan(run, tokens, s, n),
         NEW m \in 1 .. n, ReadTo(run, s, m - 1)
  PROVE  ReadTo(run, s, m)
  <1> DEFINE p == s.statements
  <1>0. /\ IsText(p, n) /\ Scans(run, tokens, Len(tokens)) /\ n \in Nat /\ IsStatement(p[m])
    BY DEF IsScan, IsProgramText, IsText
  <1>1. PICK t : t = TokensOf(p)[m]
    OBVIOUS
  <1>2. PICK a : a = InFront(p, m)
    OBVIOUS
  <1>3. /\ Within(tokens, a, t) /\ t = Tokenize(p[m].text) /\ InFront(p, m + 1) = a + Len(t)
    BY <1>1, <1>2 DEF IsScan, Laidout
  <1>4. a \in Nat /\ Len(t) \in Nat /\ (m - 1) + 1 = m /\ m - 1 \in 0 .. n /\ m \in 0 .. n
    BY <1>0, <1>3 DEF Within
  <1>5. PICK j \in 0 .. a :
          IF Fine(p, m - 1)
          THEN run[j] = Reading(a + 1, Depth(p, m - 1), RegistersOf(p, m - 1)) ELSE ~run[j].ok
    BY <1>2, <1>4 DEF ReadTo
  <1>6. Fine(p, m) <=> Fine(p, m - 1) /\ Good(p[m], Depth(p, m - 1), RegistersOf(p, m - 1))
    BY <1>0, FineSteps
  <1> HIDE DEF p
  <1>7. CASE ~Fine(p, m - 1)
    <2>1. ~run[j].ok /\ ~Fine(p, m) /\ j \in 0 .. a + Len(t)
      BY <1>4, <1>5, <1>6, <1>7
    <2>2. QED
      BY <1>3, <2>1 DEF ReadTo, p
  <1>8. CASE Fine(p, m - 1)
    <2>1. Kept(RegistersOf(p, m - 1)) /\ Depth(p, m - 1) \in Nat
      BY <1>0, <1>4, <1>8, FineSteps
    <2>2. Reached(run, tokens, a, t, j, Depth(p, m - 1), RegistersOf(p, m - 1))
      BY <1>0, <1>3, <1>5, <1>8, <2>1 DEF Reached
    <2>3. Lexes(p[m].text)
      BY LexesEach DEF IsScan, p
    <2>4. Scanned(run, j, Len(t), p[m], a + Len(t) + 1, Depth(p, m - 1), RegistersOf(p, m - 1))
      BY <1>0, <1>3, <2>1, <2>2, <2>3, StatementScanned
    <2>5. PICK i \in j .. j + Len(t) :
            IF Good(p[m], Depth(p, m - 1), RegistersOf(p, m - 1))
            THEN run[i] = Reading(a + Len(t) + 1, Depth(p, m - 1) + p[m].nests,
                                  RegistersOf(p, m - 1) \o p[m].registers)
            ELSE ~run[i].ok
      BY <2>4 DEF Scanned
    <2>6. i \in 0 .. a + Len(t)
      BY <1>4
    <2>7. /\ Depth(p, m) = Depth(p, m - 1) + p[m].nests
          /\ RegistersOf(p, m) = RegistersOf(p, m - 1) \o p[m].registers
      BY <1>0, DepthSteps, RegistersSteps
    <2>8. QED
      BY <1>3, <1>6, <1>8, <2>5, <2>6, <2>7 DEF ReadTo, p
  <1>9. QED
    BY <1>7, <1>8

\* So it reads the program, or has refused.
LEMMA ReadAll ==
  ASSUME NEW run, NEW tokens, NEW s, NEW n, IsScan(run, tokens, s, n)
  PROVE  IF Fine(s.statements, n)
         THEN Scan(tokens) = Reading(Len(tokens) + 1, Depth(s.statements, n), Declared(s.statements))
         ELSE ~Scan(tokens).ok
  <1>0. n \in Nat
    BY DEF IsScan, IsProgramText, IsText
  <1> DEFINE S == {m \in 0 .. n : ReadTo(run, s, m)}
  <1>1. 0 \in S
    BY <1>0, ReadNone
  <1>2. ASSUME NEW m \in 1 .. n, m - 1 \in S PROVE m \in S
    BY <1>0, <1>2, ReadOn
  <1> HIDE DEF S
  <1>3. n \in S
    BY <1>0, <1>1, <1>2, BoundedInduction
  <1>4. ReadTo(run, s, n)
    BY <1>3 DEF S
  <1>5. /\ InFront(s.statements, n + 1) = Len(tokens) /\ Scans(run, tokens, Len(tokens))
        /\ Len(tokens) \in Nat /\ RegistersOf(s.statements, n) = Declared(s.statements)
    BY RegistersSteps DEF IsScan, Laidout, IsProgramText
  <1>6. PICK j \in 0 .. Len(tokens) :
          IF Fine(s.statements, n)
          THEN run[j] = Reading(Len(tokens) + 1, Depth(s.statements, n), Declared(s.statements))
          ELSE ~run[j].ok
    BY <1>4, <1>5 DEF ReadTo
  <1>7. ~run[j].ok \/ ~(run[j].cursor <= Len(tokens))
    BY <1>5, <1>6 DEF Reading
  <1>8. Scan(tokens) = run[j]
    BY <1>5, <1>7, ScanStays
  <1>9. QED
    BY <1>6, <1>8

-----------------------------------------------------------------------------
(* What outputRegisters finds *)

\* It accepts the programs that the documentation admits, with the registers
\* they declare, and no other.
LEMMA ReadsDocumented ==
  ASSUME NEW s, NEW n, IsProgramText(s, n)
  PROVE  OutputRegisters(Text(s))
           = IF Documented(s) THEN Found(Declared(s.statements)) ELSE Refused
  <1>0. /\ n \in Nat /\ DOMAIN s.statements = 1 .. n /\ Len(s.statements) = n
        /\ IsText(s.statements, n) /\ \A k \in 1 .. n : IsStatement(s.statements[k])
    BY DEF IsProgramText, IsText
  <1>1. Documented(s) <=> /\ s.version \in {"3", "3.0", "3.1"}
                          /\ Fine(s.statements, n) /\ Depth(s.statements, n) = 0
                          /\ Declared(s.statements) # << >>
    <2>1. RegistersOf(s.statements, n) = Declared(s.statements)
      BY <1>0, RegistersSteps
    <2>2. QED
      BY <1>0, <2>1, Zenon DEF Documented, Fine
  <1>2. CASE ~Lexes(Text(s))
    <2>1. PICK k \in 1 .. n : ~Lexes(s.statements[k].text)
      BY <1>2, LexesEach
    <2>2. ~s.statements[k].supported
      BY <1>0, <2>1, StatementIs
    <2>3. ~Documented(s)
      BY <1>0, <2>2 DEF Documented
    <2>4. QED
      BY <1>2, <2>3 DEF OutputRegisters
  <1>3. CASE Lexes(Text(s))
    <2>1. PICK t : t = Tokenize(Text(s))
      OBVIOUS
    <2>2. Laidout(t, s, n) /\ \E U : t \in Seq(U)
      BY <2>1, TokensLaidout
    <2>3. PICK run : Scans(run, t, Len(t))
      BY <2>2, ScanRun
    <2>4. IsScan(run, t, s, n)
      BY <1>3, <2>1, <2>2, <2>3 DEF IsScan
    <2>5. IF Fine(s.statements, n)
          THEN Scan(t) = Reading(Len(t) + 1, Depth(s.statements, n), Declared(s.statements))
          ELSE ~Scan(t).ok
      BY <2>4, ReadAll
    <2>6. Header(t) <=> s.version \in {"3", "3.0", "3.1"}
      <3>1. Len(t) >= 3 /\ t[1] = "OPENQASM" /\ t[2] = s.version /\ t[3] = Semicolon
        <4>1. PICK T : Row(TokensOf(s.statements), n, T)
          BY <1>0, TextsRow
        <4>2. Before(TokensOf(s.statements), n + 1) \in Nat
          <5>1. n + 1 \in 1 .. n + 1
            BY <1>0
          <5>2. QED
            BY <4>1, <5>1, Places
        <4>3. Len(t) = 3 + Before(TokensOf(s.statements), n + 1)
          BY <2>2 DEF Laidout, InFront
        <4>4. Len(t) >= 3
          BY <4>2, <4>3
        <4>5. QED
          BY <2>2, <4>4 DEF Laidout
      <3>2. QED
        BY <3>1, Zenon DEF Header
    <2>7. CASE Fine(s.statements, n)
      <3>1. /\ Scan(t).ok /\ Scan(t).depth = Depth(s.statements, n)
            /\ Scan(t).registers = Declared(s.statements)
        BY <2>5, <2>7 DEF Reading
      <3>2. QED
        BY <1>1, <1>3, <2>1, <2>6, <2>7, <3>1, Zenon DEF OutputRegisters
    <2>8. CASE ~Fine(s.statements, n)
      <3>1. ~Scan(t).ok
        BY <2>5, <2>8
      <3>2. QED
        BY <1>1, <2>1, <2>8, <3>1, Zenon DEF OutputRegisters
    <2>9. QED
      BY <2>7, <2>8
  <1>4. QED
    BY <1>2, <1>3

-----------------------------------------------------------------------------
(* The declarations of the native gates are statements *)

\* A text without comments is its tokens.
LEMMA TokenizePlain ==
  ASSUME NEW T, NEW text \in Seq(T), \A i \in 1 .. Len(text) : text[i] # Comment
  PROVE  Tokenize(text) = text
  <1>0. Len(text) \in Nat /\ DOMAIN text = 1 .. Len(text)
    BY LenProperties
  <1>1. PICK n \in Nat : n = Len(text)
    BY <1>0
  <1>2. PICK x : x = Pieces(text)
    OBVIOUS
  <1>3. Row(x, n, T) /\ \A k \in 1 .. n : x[k] = <<text[k]>>
    BY <1>0, <1>1, <1>2, PiecesRow DEF Pieces, Token
  <1>4. \A k \in 1 .. n : Len(x[k]) = 1 /\ x[k][1] = text[k]
    <2>1. \A y : Len(<<y>>) = 1 /\ <<y>>[1] = y
      OBVIOUS
    <2>2. QED
      BY <1>3, <2>1, Zenon
  <1>5. ASSUME NEW k \in 1 .. n + 1 PROVE Before(x, k) = k - 1
    <2>1. PICK l : l = Lengths(x)
      OBVIOUS
    <2>2. \A j \in 1 .. n : l[j] = 1
      BY <1>3, <1>4, <2>1 DEF Lengths, Row
    <2>3. PICK g : g = [j \in 0 .. n |-> j]
      OBVIOUS
    <2>4. GrowsBy(g, l, n)
      BY <2>2, <2>3 DEF GrowsBy
    <2>5. k - 1 \in 0 .. n
      BY <1>1
    <2>6. Total(l, k - 1) = g[k - 1]
      BY <2>4, <2>5, TotalIs
    <2>7. QED
      BY <2>1, <2>3, <2>5, <2>6 DEF Before
  <1>6. Len(text) = Before(x, n + 1)
    BY <1>1, <1>5
  <1>7. Located(text, x, n)
    <2>1. ASSUME NEW k \in 1 .. n, NEW i \in 1 .. Len(x[k])
          PROVE  text[Before(x, k) + i] = x[k][i]
      <3>1. i = 1 /\ Before(x, k) = k - 1 /\ (k - 1) + 1 = k
        <4>1. Len(x[k]) = 1 /\ k \in 1 .. n + 1
          BY <1>1, <1>4
        <4>2. i \in 1 .. 1
          BY <4>1
        <4>3. QED
          BY <1>1, <1>5, <4>1, <4>2
      <3>2. QED
        BY <1>4, <3>1
    <2>2. QED
      BY <2>1 DEF Located
  <1>8. FlattenSeq(x) = text
    BY <1>3, <1>6, <1>7, LocatedIs
  <1>9. QED
    BY <1>2, <1>8, TokenizeType

\* The declaration of a native gate: tokens t with one pair of braces.
Defining(t, g, open, n) ==
  /\ t \in Seq(ToSet(t)) /\ Len(t) = n /\ DOMAIN t = 1 .. n /\ n \in Nat /\ open \in 3 .. n - 1
  /\ t[1] = "gate" /\ t[2] = g /\ t[open] = Open /\ t[n] = Close
  /\ \A i \in 3 .. n : t[i] \notin {"gate", "ecr", "rzz"}
  /\ \A i \in 1 .. n : t[i] = Open <=> i = open
  /\ \A i \in 1 .. n : t[i] = Close <=> i = n

\* Punctuation.
LEMMA Punctuation ==
  /\ Open # Close /\ Comma # Open /\ Comma # Close /\ Semicolon # Open /\ Semicolon # Close
  /\ \A x \in {Comma, Semicolon, Open, Close} : x \notin {"gate", "ecr", "rzz"}
  /\ \A x \in {"gate", "ecr", "rzz", "a", "b", "U", "(", "0", ")", "ctrl", "@", "pi",
               "theta", "gphase"} : x # Open /\ x # Close
  BY Zenon DEF Open, Close, Comma, Semicolon

\* The declaration of ecr.
LEMMA EcrDefining == Defining(Declaration["ecr"], "ecr", 6, 23)
  <1>1. PICK t : t = Declaration["ecr"]
    OBVIOUS
  <1>2. t = <<"gate", "ecr", "a", Comma, "b", Open, "U", "(", "0", ")", "a", Semicolon,
              "ctrl", "@", "U", "(", "pi", ")", "a", Comma, "b", Semicolon, Close>>
    BY <1>1 DEF Declaration
  <1>3. /\ t[1] = "gate" /\ t[2] = "ecr" /\ t[3] = "a" /\ t[4] = Comma /\ t[5] = "b"
        /\ t[6] = Open /\ t[7] = "U" /\ t[8] = "(" /\ t[9] = "0" /\ t[10] = ")" /\ t[11] = "a"
        /\ t[12] = Semicolon /\ t[13] = "ctrl" /\ t[14] = "@" /\ t[15] = "U" /\ t[16] = "("
        /\ t[17] = "pi" /\ t[18] = ")" /\ t[19] = "a" /\ t[20] = Comma /\ t[21] = "b"
        /\ t[22] = Semicolon /\ t[23] = Close
    BY <1>2
  <1>4. Len(t) = 23 /\ DOMAIN t = 1 .. 23 /\ t \in Seq(ToSet(t))
    <2>1. Len(t) = 23 /\ DOMAIN t = 1 .. 23
      BY <1>2
    <2>2. t \in Seq({t[i] : i \in DOMAIN t})
      BY <1>2, <2>1
    <2>3. QED
      BY <2>1, <2>2 DEF ToSet, Range
  <1>5. \A i \in 1 .. 23 : \/ i = 1 \/ i = 2 \/ i = 3 \/ i = 4 \/ i = 5 \/ i = 6 \/ i = 7
                           \/ i = 8 \/ i = 9 \/ i = 10 \/ i = 11 \/ i = 12 \/ i = 13
                           \/ i = 14 \/ i = 15 \/ i = 16 \/ i = 17 \/ i = 18 \/ i = 19
                           \/ i = 20 \/ i = 21 \/ i = 22 \/ i = 23
    OBVIOUS
  <1>6. \A i \in 1 .. 23 : t[i] = Open <=> i = 6
    BY <1>3, <1>5, Punctuation
  <1>7. \A i \in 1 .. 23 : t[i] = Close <=> i = 23
    BY <1>3, <1>5, Punctuation
  <1>8. \A i \in 3 .. 23 : t[i] \notin {"gate", "ecr", "rzz"}
    BY <1>3, <1>5, Punctuation
  <1>9. QED
    BY <1>1, <1>3, <1>4, <1>6, <1>7, <1>8 DEF Defining

\* And that of rzz.
LEMMA RzzDefining == Defining(Declaration["rzz"], "rzz", 9, 22)
  <1>1. PICK t : t = Declaration["rzz"]
    OBVIOUS
  <1>2. t = <<"gate", "rzz", "(", "theta", ")", "a", Comma, "b", Open, "gphase",
              "(", "theta", ")", Semicolon, "ctrl", "@", "U", "a", Comma, "b", Semicolon, Close>>
    BY <1>1 DEF Declaration
  <1>3. /\ t[1] = "gate" /\ t[2] = "rzz" /\ t[3] = "(" /\ t[4] = "theta" /\ t[5] = ")"
        /\ t[6] = "a" /\ t[7] = Comma /\ t[8] = "b" /\ t[9] = Open /\ t[10] = "gphase"
        /\ t[11] = "(" /\ t[12] = "theta" /\ t[13] = ")" /\ t[14] = Semicolon /\ t[15] = "ctrl"
        /\ t[16] = "@" /\ t[17] = "U" /\ t[18] = "a" /\ t[19] = Comma /\ t[20] = "b"
        /\ t[21] = Semicolon /\ t[22] = Close
    BY <1>2
  <1>4. Len(t) = 22 /\ DOMAIN t = 1 .. 22 /\ t \in Seq(ToSet(t))
    <2>1. Len(t) = 22 /\ DOMAIN t = 1 .. 22
      BY <1>2
    <2>2. t \in Seq({t[i] : i \in DOMAIN t})
      BY <1>2, <2>1
    <2>3. QED
      BY <2>1, <2>2 DEF ToSet, Range
  <1>5. \A i \in 1 .. 22 : \/ i = 1 \/ i = 2 \/ i = 3 \/ i = 4 \/ i = 5 \/ i = 6 \/ i = 7
                           \/ i = 8 \/ i = 9 \/ i = 10 \/ i = 11 \/ i = 12 \/ i = 13
                           \/ i = 14 \/ i = 15 \/ i = 16 \/ i = 17 \/ i = 18 \/ i = 19
                           \/ i = 20 \/ i = 21 \/ i = 22
    OBVIOUS
  <1>6. \A i \in 1 .. 22 : t[i] = Open <=> i = 9
    BY <1>3, <1>5, Punctuation
  <1>7. \A i \in 1 .. 22 : t[i] = Close <=> i = 22
    BY <1>3, <1>5, Punctuation
  <1>8. \A i \in 3 .. 22 : t[i] \notin {"gate", "ecr", "rzz"}
    BY <1>3, <1>5, Punctuation
  <1>9. QED
    BY <1>1, <1>3, <1>4, <1>6, <1>7, <1>8 DEF Defining

\* Its statement.
Definition(g) == [text |-> Declaration[g], registers |-> << >>, gates |-> {g}, calls |-> {},
                  nests |-> 0, top |-> TRUE, supported |-> TRUE]

\* The braces match at the end.
LEMMA DefiningMatches ==
  ASSUME NEW t, NEW g, NEW open, NEW n, Defining(t, g, open, n), NEW i \in open .. n
  PROVE  Occurrences(Open, t, open, i) = Occurrences(Close, t, open, i) <=> i = n
  <1>0. /\ n \in Nat /\ open \in 3 .. n - 1
        /\ \A j \in 1 .. n : t[j] = Open <=> j = open
        /\ \A j \in 1 .. n : t[j] = Close <=> j = n
    BY DEF Defining
  <1>1. {j \in open .. i : t[j] = Open} = {open}
    BY <1>0
  <1>2. CASE i = n
    <2>1. {j \in open .. i : t[j] = Close} = {n}
      BY <1>0, <1>2
    <2>2. QED
      BY <1>1, <1>2, <2>1, FS_Singleton DEF Occurrences
  <1>3. CASE i # n
    <2>1. {j \in open .. i : t[j] = Close} = {}
      BY <1>0, <1>3
    <2>2. Cardinality({open}) = 1 /\ Cardinality({}) = 0
      BY FS_Singleton, FS_EmptySet
    <2>3. QED
      BY <1>1, <1>3, <2>1, <2>2 DEF Occurrences
  <1>4. QED
    BY <1>2, <1>3

\* The declarations are statements of OpenQASM.
LEMMA DefinitionIs ==
  ASSUME NEW g \in NativeGates
  PROVE  /\ IsStatement(Definition(g)) /\ Tokenize(Declaration[g]) = Declaration[g]
         /\ \E n \in 4 .. 23 : Len(Declaration[g]) = n
         /\ Declaration[g] \in Seq(ToSet(Declaration[g]))
  <1>1. PICK open, n : Defining(Declaration[g], g, open, n) /\ n \in 4 .. 23
    BY EcrDefining, RzzDefining DEF NativeGates
  <1>2. PICK t : t = Declaration[g]
    OBVIOUS
  <1>3. /\ t \in Seq(ToSet(t)) /\ Len(t) = n /\ DOMAIN t = 1 .. n /\ n \in Nat /\ open \in 3 .. n - 1
        /\ t[1] = "gate" /\ t[2] = g /\ t[open] = Open /\ t[n] = Close
        /\ \A i \in 3 .. n : t[i] \notin {"gate", "ecr", "rzz"}
        /\ \A i \in 1 .. n : t[i] = Open <=> i = open
        /\ Defining(t, g, open, n)
    BY <1>1, <1>2 DEF Defining
  <1>4. \A i \in 1 .. n : t[i] # Comment /\ t[i] # Unclosed
    <2>1. {Comment, Unclosed} \cap ToSet(t) = {}
      <3>1. {Comment, Unclosed} \cap UNION {ToSet(Declaration[h]) : h \in NativeGates} = {}
        BY ProgramAssumption, Zenon
      <3>2. ToSet(t) \subseteq UNION {ToSet(Declaration[h]) : h \in NativeGates}
        BY <1>2
      <3>3. QED
        BY <3>1, <3>2
    <2>2. \A i \in 1 .. n : t[i] \in ToSet(t)
      BY <1>3 DEF ToSet, Range
    <2>3. QED
      BY <2>1, <2>2
  <1>5. Tokenize(t) = t
    <2>1. PICK T : T = ToSet(t)
      OBVIOUS
    <2>2. t \in Seq(T) /\ \A i \in 1 .. Len(t) : t[i] # Comment
      BY <1>3, <1>4, <2>1
    <2>3. QED
      BY <2>2, TokenizePlain
  <1>6. Lexes(t)
    BY <1>3, <1>4 DEF Lexes
  <1>7. PICK s : s = Definition(g)
    OBVIOUS
  <1>8. /\ s.text = t /\ s.registers = << >> /\ s.gates = {g} /\ s.calls = {} /\ s.nests = 0
        /\ s.top /\ s.supported
    BY <1>2, <1>7 DEF Definition
  <1>9. Names(s, t)
    <2>1. ASSUME NEW h \in NativeGates
          PROVE  h \in s.gates <=> \E i \in 1 .. Len(t) - 1 : t[i] = "gate" /\ t[i + 1] = h
      <3>1. ASSUME NEW i \in 1 .. Len(t) - 1, t[i] = "gate" PROVE i = 1 /\ t[i + 1] = g
        <4>1. i \in 3 .. n \/ i = 1 \/ i = 2
          BY <1>3
        <4>2. g # "gate"
          BY DEF NativeGates
        <4>3. QED
          BY <1>3, <3>1, <4>1, <4>2
      <3>2. 1 \in 1 .. Len(t) - 1 /\ 1 + 1 = 2
        BY <1>3
      <3>3. QED
        BY <1>3, <1>8, <3>1, <3>2
    <2>2. ASSUME NEW h \in NativeGates, NEW i \in 1 .. Len(t) - 1, i > 1 => t[i - 1] # "gate",
                 t[i] = h
          PROVE  FALSE
      <3>1. i \in 3 .. n \/ i = 1 \/ i = 2
        BY <1>3
      <3>2. h \in {"ecr", "rzz"} /\ "gate" \notin {"ecr", "rzz"}
        BY DEF NativeGates
      <3>3. QED
        BY <1>3, <2>2, <3>1, <3>2
    <2>3. t[Len(t)] \notin NativeGates \cup {"gate"}
      <3>1. Close \notin {"gate", "ecr", "rzz"}
        BY Zenon DEF Close
      <3>2. QED
        BY <1>3, <3>1 DEF NativeGates
    <2>4. \A h \in NativeGates : h \notin s.calls
      BY <1>8
    <2>5. QED
      BY <2>1, <2>2, <2>3, <2>4, Zenon DEF Names
  <1>10. IsGate(s, t, open)
    <2>1. Inert(s, 0) /\ s.top
      BY <1>8 DEF Inert
    <2>2. open \in 2 .. Len(t) /\ \A i \in 2 .. open - 1 : t[i] # Open
      BY <1>3
    <2>3. \A i \in open .. Len(t) :
            Occurrences(Open, t, open, i) = Occurrences(Close, t, open, i) <=> i = Len(t)
      BY <1>3, DefiningMatches
    <2>4. QED
      BY <1>3, <2>1, <2>2, <2>3, Zenon DEF IsGate
  <1>11. IsStatement(s)
    <2>1. s.text \in Seq(ToSet(s.text))
      BY <1>3, <1>8, Zenon
    <2>2. s.registers \in Seq([name : Words, width : Nat]) /\ s.nests \in -1 .. 1
      BY <1>8
    <2>3. open \in 2 .. Len(t)
      BY <1>3
    <2>4. QED
      BY <1>5, <1>6, <1>8, <1>9, <1>10, <2>1, <2>2, <2>3, Zenon DEF IsStatement
  <1>12. QED
    BY <1>1, <1>2, <1>3, <1>5, <1>7, <1>11

-----------------------------------------------------------------------------
(* The program that is sent *)

\* What the head of a program and its parts have of tokens.
LEMMA HeadPrefixes ==
  ASSUME NEW s, s.version \notin {Comment, Unclosed}
  PROVE  \A k \in 0 .. 3 : Len(Tokenize(SubSeq(HeadText(s), 1, k))) # 3
  <1>1. PICK v : v = s.version
    OBVIOUS
  <1>2. /\ v \notin {Comment, Unclosed}
        /\ "OPENQASM" \notin {Comment, Unclosed} /\ Semicolon \notin {Comment, Unclosed}
    BY <1>1, ProgramAssumption, Zenon
  <1>3. PICK h : h = <<Comment, "OPENQASM", v, Semicolon>>
    OBVIOUS
  <1> DEFINE T == {Comment, "OPENQASM", v, Semicolon}
  <1>4. h \in Seq(T) /\ Len(h) = 4 /\ h[1] = Comment
    BY <1>3
  <1>5. ASSUME NEW k \in 0 .. 3 PROVE Len(Tokenize(SubSeq(h, 1, k))) # 3
    <2>1. PICK u : u = SubSeq(h, 1, k)
      OBVIOUS
    <2>2. u \in Seq(T) /\ Len(u) = k /\ \A i \in 1 .. k : u[i] = h[i]
      <3> HIDE DEF T
      <3>1. \A i \in 1 .. k : h[0 + i] \in T /\ 0 + i = i
        BY <1>4, ElementOfSeq
      <3>2. 0 + 1 = 1 /\ 0 + k = k /\ k \in Nat /\ 0 \in Nat
        OBVIOUS
      <3>3. PICK x : x = SubSeq(h, 0 + 1, 0 + k)
        OBVIOUS
      <3>4. x \in Seq(T) /\ Len(x) = k /\ \A i \in 1 .. k : x[i] = h[0 + i]
        BY <3>1, <3>2, <3>3, PartIs
      <3>5. QED
        BY <2>1, <3>1, <3>2, <3>3, <3>4
    <2>3. k >= 1 => u[1] = Comment
      BY <1>4, <2>2
    <2>4. Row(Pieces(u), k, T)
      <3> HIDE DEF T
      <3>1. QED
        BY <2>2, PiecesRow
    <2>5. PICK x : x = Pieces(u)
      OBVIOUS
    <2>6. DOMAIN u = 1 .. k
      BY <2>2, LenProperties
    <2>7. \A i \in 1 .. k : Len(x[i]) \in 0 .. 1 /\ (i = 1 => Len(x[i]) = 0)
      <3> TAKE i \in 1 .. k
      <3>1. x[i] = Token(u[i]) /\ (i = 1 => u[i] = Comment)
        BY <2>3, <2>5, <2>6 DEF Pieces
      <3>2. Len(<< >>) = 0 /\ \A y : Len(<<y>>) = 1
        OBVIOUS
      <3>3. QED
        BY <3>1, <3>2 DEF Token
    <2>8. Before(x, k + 1) < 3
      <3> HIDE DEF T
      <3>1. /\ Before(x, 1) = 0 /\ \A i \in 1 .. k + 1 : Before(x, i) \in Nat
            /\ \A i \in 1 .. k : Before(x, i + 1) = Before(x, i) + Len(x[i])
        BY <2>4, <2>5, Places
      <3>2. CASE k = 0
        BY <3>1, <3>2
      <3>3. CASE k = 1
        <4>1. Before(x, 1 + 1) = 0 + 0
          BY <2>7, <3>1, <3>3
        <4>2. QED
          BY <3>3, <4>1
      <3>4. CASE k = 2
        <4>1. Before(x, 2) = Before(x, 1) + Len(x[1]) /\ Before(x, 3) = Before(x, 2) + Len(x[2])
          <5>1. 1 \in 1 .. k /\ 2 \in 1 .. k /\ 1 + 1 = 2 /\ 2 + 1 = 3
            BY <3>4
          <5>2. QED
            BY <3>1, <5>1
        <4>2. Len(x[1]) = 0 /\ Len(x[2]) \in 0 .. 1
          BY <2>7, <3>4
        <4>3. Before(x, 1) = 0
          BY <3>1
        <4>4. Before(x, 3) < 3
          <5>1. PICK n \in 0 .. 1 : n = Len(x[2])
            BY <4>2
          <5>2. Before(x, 2) = 0
            BY <4>1, <4>2, <4>3
          <5>3. Before(x, 3) = 0 + n
            BY <4>1, <5>1, <5>2
          <5>4. QED
            BY <5>3
        <4>5. k + 1 = 3
          BY <3>4
        <4>6. QED
          BY <4>4, <4>5
      <3>5. CASE k = 3
        <4>1. /\ Before(x, 2) = Before(x, 1) + Len(x[1]) /\ Before(x, 3) = Before(x, 2) + Len(x[2])
              /\ Before(x, 4) = Before(x, 3) + Len(x[3])
          <5>1. /\ 1 \in 1 .. k /\ 2 \in 1 .. k /\ 3 \in 1 .. k
                /\ 1 + 1 = 2 /\ 2 + 1 = 3 /\ 3 + 1 = 4
            BY <3>5
          <5>2. QED
            BY <3>1, <5>1
        <4>2. Len(x[1]) = 0 /\ Len(x[2]) \in 0 .. 1 /\ Len(x[3]) \in 0 .. 1
          BY <2>7, <3>5
        <4>3. Before(x, 1) = 0
          BY <3>1
        <4>4. Before(x, 4) < 3
          <5>1. PICK n \in 0 .. 1 : n = Len(x[2])
            BY <4>2
          <5>2. PICK m \in 0 .. 1 : m = Len(x[3])
            BY <4>2
          <5>3. Before(x, 2) = 0
            BY <4>1, <4>2, <4>3
          <5>4. Before(x, 3) = 0 + n
            BY <4>1, <5>1, <5>3
          <5>5. Before(x, 4) = 0 + n + m
            BY <4>1, <5>2, <5>4
          <5>6. QED
            BY <5>5
        <4>5. k + 1 = 4
          BY <3>5
        <4>6. QED
          BY <4>4, <4>5
      <3>6. QED
        BY <3>2, <3>3, <3>4, <3>5
    <2>9. Len(Tokenize(u)) = Before(x, k + 1)
      <3> HIDE DEF T
      <3>1. Tokenize(u) = FlattenSeq(x)
        BY <2>2, <2>5, TokenizeType
      <3>2. QED
        BY <2>4, <2>5, <3>1, FlattenIs
    <2>10. \A y : y < 3 => y # 3
      OBVIOUS
    <2>11. QED
      BY <2>1, <2>8, <2>9, <2>10
  <1>6. QED
    BY <1>1, <1>3, <1>5 DEF HeadText

\* The declarations go behind the head.
LEMMA InsertsBehindHead ==
  ASSUME NEW s, s.version \notin {Comment, Unclosed}, NEW U, NEW f \in Seq(U),
         NEW text, text = HeadText(s) \o f
  PROVE  /\ Insertion(text) = 4 /\ SubSeq(text, 1, 4) = HeadText(s)
         /\ SubSeq(text, 4 + 1, Len(text)) = f /\ Len(text) = 4 + Len(f)
  <1> DEFINE T == U \cup {Comment, "OPENQASM", s.version, Semicolon}
  <1>1. PICK h : h = HeadText(s)
    OBVIOUS
  <1>2. h \in Seq(T) /\ Len(h) = 4
    BY <1>1 DEF HeadText
  <1>3. U \subseteq T
    OBVIOUS
  <1> HIDE DEF T
  <1>4. f \in Seq(T) /\ Len(f) \in Nat
    BY <1>3, SeqMonotonic, LenProperties
  <1>5. text = h \o f
    BY <1>1
  <1>a. h \in Seq(T) /\ f \in Seq(T)
    BY <1>2, <1>4
  <1>6. /\ SubSeq(text, 1, Len(h)) = h /\ SubSeq(text, Len(h) + 1, Len(text)) = f
        /\ \A k \in 0 .. Len(h) : SubSeq(text, 1, k) = SubSeq(h, 1, k)
    BY <1>5, <1>a, JoinParts
  <1>7. Len(text) = 4 + Len(f) /\ DOMAIN text = 1 .. Len(text)
    <2>1. h \o f \in Seq(T) /\ Len(h \o f) = Len(h) + Len(f)
      BY <1>a, ConcatAt
    <2>2. QED
      BY <1>2, <1>5, <2>1, LenProperties
  <1>8. Len(Tokenize(h)) = 3
    BY <1>1, HeadTokens DEF HeadOf
  <1> DEFINE S == {i \in DOMAIN text : Len(Tokenize(SubSeq(text, 1, i))) = 3}
  <1>9. 4 \in S /\ S \subseteq Int
    <2>1. 4 \in DOMAIN text /\ DOMAIN text \subseteq Int
      BY <1>4, <1>7
    <2>2. SubSeq(text, 1, 4) = h
      BY <1>2, <1>6
    <2>3. QED
      BY <1>8, <2>1, <2>2
  <1>10. ASSUME NEW i \in S, ~(4 <= i) PROVE FALSE
    <2>1. i \in 0 .. 3 /\ i \in 0 .. Len(h)
      BY <1>2, <1>4, <1>7, <1>10
    <2>2. SubSeq(text, 1, i) = SubSeq(h, 1, i)
      BY <1>6, <2>1
    <2>3. Len(Tokenize(SubSeq(h, 1, i))) # 3
      BY <1>1, <2>1, HeadPrefixes
    <2>4. QED
      BY <1>10, <2>2, <2>3
  <1>11. Insertion(text) = Min(S)
    BY DEF Insertion
  <1> HIDE DEF S
  <1>12. Min(S) = 4
    BY <1>9, <1>10, MinIs
  <1>13. QED
    BY <1>1, <1>2, <1>6, <1>7, <1>11, <1>12

-----------------------------------------------------------------------------
(* A definition in front of the statements *)

Preceded(q, p, n, d) ==
  /\ IsText(p, n) /\ IsText(q, n + 1) /\ n \in Nat
  /\ q[1] = d /\ \A k \in 1 .. n : q[k + 1] = p[k]

With(g, s) == Written(s.version, <<Definition(g)>> \o s.statements)

\* A program of which the statements are a sequence.
IsWritten(s, n) == IsProgramText(s, n) /\ \E U : s.statements \in Seq(U)

\* The statements stand behind it.
LEMMA StatementsBehind ==
  ASSUME NEW s, NEW n, IsWritten(s, n), NEW g \in NativeGates
  PROVE  /\ Preceded(With(g, s).statements, s.statements, n, Definition(g))
         /\ IsWritten(With(g, s), n + 1)
  <1>1. PICK p : p = s.statements
    OBVIOUS
  <1>2. PICK V : p \in Seq(V)
    BY <1>1 DEF IsWritten
  <1>3. IsText(p, n) /\ s.version \notin {Comment, Unclosed}
    BY <1>1 DEF IsWritten, IsProgramText
  <1>4. n \in Nat /\ Len(p) = n /\ \A k \in 1 .. n : IsStatement(p[k])
    BY <1>3 DEF IsText
  <1>5. PICK d : d = Definition(g)
    OBVIOUS
  <1>6. IsStatement(d)
    BY <1>5, DefinitionIs
  <1>7. PICK a : a = <<d>>
    OBVIOUS
  <1> DEFINE U == V \cup {d}
  <1>8. a \in Seq(U) /\ Len(a) = 1 /\ a[1] = d
    BY <1>7
  <1>9. V \subseteq U
    OBVIOUS
  <1> HIDE DEF U
  <1>10. a \in Seq(U) /\ p \in Seq(U)
    BY <1>2, <1>8, <1>9, SeqMonotonic
  <1>11. PICK q : q = a \o p
    OBVIOUS
  <1>12. /\ q \in Seq(U) /\ Len(q) = Len(a) + Len(p)
         /\ \A i \in 1 .. Len(a) : q[i] = a[i]
         /\ \A i \in 1 .. Len(p) : q[Len(a) + i] = p[i]
    BY <1>10, <1>11, ConcatAt
  <1>13. Len(q) = n + 1 /\ DOMAIN q = 1 .. n + 1
    <2>1. Len(q) = 1 + n
      BY <1>4, <1>8, <1>12
    <2>2. DOMAIN q = 1 .. Len(q)
      BY <1>12, LenProperties
    <2>3. 1 + n = n + 1
      BY <1>4
    <2>4. QED
      BY <2>1, <2>2, <2>3
  <1>14. q[1] = d /\ \A k \in 1 .. n : q[k + 1] = p[k]
    <2>1. q[1] = d
      BY <1>8, <1>12
    <2>2. \A k \in 1 .. n : q[1 + k] = p[k] /\ 1 + k = k + 1
      BY <1>4, <1>8, <1>12
    <2>3. QED
      BY <2>1, <2>2
  <1>15. \A k \in 1 .. n + 1 : IsStatement(q[k])
    <2> TAKE k \in 1 .. n + 1
    <2>1. CASE k = 1
      BY <1>6, <1>14, <2>1
    <2>2. CASE k # 1
      <3>1. k - 1 \in 1 .. n /\ (k - 1) + 1 = k
        BY <1>4, <2>2
      <3>2. q[k] = p[k - 1]
        BY <1>14, <3>1
      <3>3. QED
        BY <1>4, <3>1, <3>2
    <2>3. QED
      BY <2>1, <2>2
  <1>16. IsText(q, n + 1)
    <2>1. n + 1 \in Nat /\ n + 1 # 0
      BY <1>4
    <2>2. QED
      BY <1>13, <1>15, <2>1 DEF IsText
  <1>17. With(g, s).statements = q /\ With(g, s).version = s.version
    BY <1>1, <1>5, <1>7, <1>11 DEF With, Written
  <1>18. Preceded(q, p, n, d)
    BY <1>3, <1>4, <1>14, <1>16 DEF Preceded
  <1>19. IsProgramText(With(g, s), n + 1)
    BY <1>3, <1>16, <1>17 DEF IsProgramText
  <1>20. QED
    BY <1>1, <1>5, <1>12, <1>17, <1>18, <1>19 DEF IsWritten

\* It changes neither the depth nor the registers behind it.
LEMMA FineBehind ==
  ASSUME NEW p, NEW n, NEW q, NEW d, Preceded(q, p, n, d), Inert(d, 0)
  PROVE  \A m \in 0 .. n : /\ Depth(q, m + 1) = Depth(p, m)
                           /\ RegistersOf(q, m + 1) = RegistersOf(p, m)
                           /\ Fine(q, m + 1) <=> Fine(p, m)
  <1>0. /\ IsText(p, n) /\ IsText(q, n + 1) /\ n \in Nat
        /\ q[1] = d /\ \A k \in 1 .. n : q[k + 1] = p[k]
    BY DEF Preceded
  <1>1. /\ Depth(p, 0) = 0 /\ Depth(q, 0) = 0
        /\ \A m \in 1 .. n : Depth(p, m) = Depth(p, m - 1) + p[m].nests
        /\ \A m \in 1 .. n + 1 : Depth(q, m) = Depth(q, m - 1) + q[m].nests
    BY <1>0, DepthSteps
  <1>2. /\ RegistersOf(p, 0) = << >> /\ RegistersOf(q, 0) = << >>
        /\ \A m \in 1 .. n : RegistersOf(p, m) = RegistersOf(p, m - 1) \o p[m].registers
        /\ \A m \in 1 .. n + 1 : RegistersOf(q, m) = RegistersOf(q, m - 1) \o q[m].registers
    BY <1>0, RegistersSteps
  <1>3. /\ Fine(p, 0) /\ Fine(q, 0)
        /\ \A m \in 1 .. n : Fine(p, m)
              <=> Fine(p, m - 1) /\ Good(p[m], Depth(p, m - 1), RegistersOf(p, m - 1))
        /\ \A m \in 1 .. n + 1 : Fine(q, m)
              <=> Fine(q, m - 1) /\ Good(q[m], Depth(q, m - 1), RegistersOf(q, m - 1))
    BY <1>0, FineSteps
  <1> DEFINE S == {m \in 0 .. n : /\ Depth(q, m + 1) = Depth(p, m)
                                  /\ RegistersOf(q, m + 1) = RegistersOf(p, m)
                                  /\ Fine(q, m + 1) <=> Fine(p, m)}
  <1>4. 0 \in S
    <2>1. 1 \in 1 .. n + 1 /\ 1 - 1 = 0 /\ 0 + 1 = 1 /\ 0 \in 0 .. n + 1 /\ 0 \in 0 .. n
      BY <1>0
    <2>2. Kept(RegistersOf(q, 0))
      BY <1>0, <1>3, <2>1, FineSteps
    <2>3. Kept(<< >>)
      BY <1>2, <2>2
    <2>4. /\ Good(d, 0, << >>) <=> 0 + 0 >= 0 /\ (d.top => 0 = 0)
          /\ << >> \o d.registers = << >> /\ d.nests = 0
      BY <2>3, InertGood
    <2>5. Good(d, 0, << >>)
      BY <2>4
    <2>6. Depth(q, 1) = 0 /\ RegistersOf(q, 1) = << >>
      <3>1. Depth(q, 1) = Depth(q, 1 - 1) + q[1].nests
        BY <1>1, <2>1
      <3>2. RegistersOf(q, 1) = RegistersOf(q, 1 - 1) \o q[1].registers
        BY <1>2, <2>1
      <3>3. Depth(q, 1 - 1) = 0 /\ RegistersOf(q, 1 - 1) = << >> /\ q[1] = d
        BY <1>0, <1>1, <1>2, <2>1
      <3>4. d.nests = 0 /\ << >> \o d.registers = << >>
        BY <2>4
      <3>5. Depth(q, 1) = 0 + 0
        BY <3>1, <3>3, <3>4
      <3>6. QED
        BY <3>2, <3>3, <3>4, <3>5
    <2>7. Fine(q, 1)
      BY <1>0, <1>1, <1>2, <1>3, <2>1, <2>5
    <2>8. QED
      BY <1>1, <1>2, <1>3, <2>1, <2>6, <2>7
  <1>5. ASSUME NEW m \in 1 .. n, m - 1 \in S PROVE m \in S
    <2>1. (m - 1) + 1 = m /\ m + 1 \in 1 .. n + 1 /\ (m + 1) - 1 = m /\ m \in 0 .. n /\ m \in 1 .. n + 1
      BY <1>0
    <2>2. /\ Depth(q, m) = Depth(p, m - 1) /\ RegistersOf(q, m) = RegistersOf(p, m - 1)
          /\ Fine(q, m) <=> Fine(p, m - 1)
      BY <1>5, <2>1
    <2>3. q[m + 1] = p[m]
      BY <1>0
    <2>4. Depth(q, m + 1) = Depth(p, m)
      BY <1>1, <2>1, <2>2, <2>3
    <2>5. RegistersOf(q, m + 1) = RegistersOf(p, m)
      BY <1>2, <2>1, <2>2, <2>3
    <2>6. Fine(q, m + 1) <=> Fine(p, m)
      BY <1>3, <2>1, <2>2, <2>3
    <2>7. QED
      BY <2>1, <2>4, <2>5, <2>6
  <1> HIDE DEF S
  <1>6. 0 .. n \subseteq S
    BY <1>0, <1>4, <1>5, BoundedInduction
  <1>7. QED
    BY <1>6 DEF S

\* What is documented of a program.
LEMMA DocumentedIs ==
  ASSUME NEW s, NEW n, IsProgramText(s, n)
  PROVE  /\ Documented(s) <=> /\ s.version \in {"3", "3.0", "3.1"}
                              /\ Fine(s.statements, n) /\ Depth(s.statements, n) = 0
                              /\ RegistersOf(s.statements, n) # << >>
         /\ RegistersOf(s.statements, n) = Declared(s.statements)
  <1>1. DOMAIN s.statements = 1 .. n /\ Len(s.statements) = n /\ IsText(s.statements, n)
    BY DEF IsProgramText, IsText
  <1>2. RegistersOf(s.statements, n) = Declared(s.statements)
    BY <1>1, RegistersSteps
  <1>3. QED
    BY <1>1, <1>2, Zenon DEF Documented, Fine

\* The registers of the program are found as before.
LEMMA WithReads ==
  ASSUME NEW s, NEW n, IsWritten(s, n), NEW g \in NativeGates
  PROVE  OutputRegisters(Text(With(g, s))) = OutputRegisters(Text(s))
  <1>1. PICK r : r = With(g, s)
    OBVIOUS
  <1>2. IsProgramText(s, n) /\ IsProgramText(r, n + 1) /\ n \in Nat /\ r.version = s.version
    <2>1. IsWritten(r, n + 1)
      BY <1>1, StatementsBehind
    <2>2. r.version = s.version
      BY <1>1 DEF With, Written
    <2>3. n \in Nat
      BY DEF IsWritten, IsProgramText, IsText
    <2>4. QED
      BY <2>1, <2>2, <2>3 DEF IsWritten
  <1>3. Preceded(r.statements, s.statements, n, Definition(g))
    BY <1>1, StatementsBehind
  <1>4. Inert(Definition(g), 0)
    BY DEF Inert, Definition
  <1>5. /\ Depth(r.statements, n + 1) = Depth(s.statements, n)
        /\ RegistersOf(r.statements, n + 1) = RegistersOf(s.statements, n)
        /\ Fine(r.statements, n + 1) <=> Fine(s.statements, n)
    <2>1. n \in 0 .. n
      BY <1>2
    <2>2. QED
      BY <1>3, <1>4, <2>1, FineBehind
  <1>6. /\ Documented(r) <=> Documented(s)
        /\ Declared(r.statements) = Declared(s.statements)
    BY <1>2, <1>5, DocumentedIs
  <1>7. QED
    BY <1>1, <1>2, <1>6, ReadsDocumented

\* The text of the program has that of the definition behind its head.
LEMMA WithText ==
  ASSUME NEW s, NEW n, IsWritten(s, n), NEW g \in NativeGates
  PROVE  /\ FlattenSeq(TextsOf(With(g, s).statements))
               = Declaration[g] \o FlattenSeq(TextsOf(s.statements))
         /\ HeadText(With(g, s)) = HeadText(s)
  <1>1. PICK q : q = With(g, s).statements
    OBVIOUS
  <1>2. PICK p : p = s.statements
    OBVIOUS
  <1>3. Preceded(q, p, n, Definition(g))
    BY <1>1, <1>2, StatementsBehind
  <1>4. /\ IsText(p, n) /\ IsText(q, n + 1) /\ n \in Nat
        /\ q[1] = Definition(g) /\ \A k \in 1 .. n : q[k + 1] = p[k]
    BY <1>3 DEF Preceded
  <1>5. DOMAIN p = 1 .. n /\ DOMAIN q = 1 .. n + 1
    BY <1>4 DEF IsText
  <1>6. Definition(g).text = Declaration[g]
    BY DEF Definition
  <1>7. PICK T : Row(TextsOf(q), n + 1, T)
    BY <1>4, TextsRow
  <1>8. \A k \in 1 .. n + 1 : TextsOf(q)[k] = q[k].text
    BY <1>5 DEF TextsOf
  <1>9. \A k \in 1 .. n : TextsOf(p)[k] = p[k].text
    BY <1>5 DEF TextsOf
  <1>10. PICK c : c = TextsOf(q)
    OBVIOUS
  <1>11. PICK b : b = TextsOf(p)
    OBVIOUS
  <1>12. PICK a : a = <<Declaration[g]>>
    OBVIOUS
  <1>13. /\ \A k \in 1 .. n : k \in 1 .. n + 1 /\ k + 1 \in 1 .. n + 1 /\ 1 + k = k + 1
         /\ 1 \in 1 .. n + 1 /\ 1 + n = n + 1
    BY <1>4
  <1>14. c[1] = Declaration[g] /\ \A k \in 1 .. n : c[1 + k] = b[k]
    BY <1>4, <1>6, <1>8, <1>9, <1>10, <1>11, <1>13
  <1>15. \A k \in 1 .. n + 1 : c[k] \in Seq(T) /\ Len(c[k]) \in Nat
    BY <1>7, <1>10 DEF Row
  <1>16. Row(a, 1, T) /\ a[1] = Declaration[g]
    <2>1. DOMAIN a = 1 .. 1 /\ Len(a) = 1 /\ 1 \in Nat /\ 1 # 0 /\ a[1] = Declaration[g]
      BY <1>12
    <2>2. \A k \in 1 .. 1 : a[k] = c[1]
      BY <1>14, <2>1
    <2>3. QED
      BY <1>13, <1>15, <2>1, <2>2 DEF Row
  <1>17. Row(b, n, T)
    <2>1. n \in Nat /\ DOMAIN b = 1 .. n /\ Len(b) = n /\ (n = 0 => b = << >>)
      <3>1. PICK V : Row(TextsOf(p), n, V)
        BY <1>4, TextsRow
      <3>2. QED
        BY <1>11, <3>1 DEF Row
    <2>2. \A k \in 1 .. n : b[k] \in Seq(T) /\ Len(b[k]) \in Nat
      BY <1>13, <1>14, <1>15
    <2>3. QED
      BY <2>1, <2>2 DEF Row
  <1>18. Row(c, 1 + n, T)
    BY <1>7, <1>10, <1>13
  <1>19. Joins(c, a, 1, b, n, T)
    <2>1. \A k \in 1 .. 1 : c[k] = a[k]
      BY <1>14, <1>16
    <2>2. QED
      BY <1>14, <1>16, <1>17, <1>18, <2>1 DEF Joins
  <1>20. FlattenSeq(c) = FlattenSeq(a) \o FlattenSeq(b)
    BY <1>19, FlattenJoin
  <1>21. FlattenSeq(a) = Declaration[g]
    BY <1>16, FlattenOne
  <1>22. HeadText(With(g, s)) = HeadText(s)
    BY DEF HeadText, With, Written
  <1>23. QED
    BY <1>1, <1>2, <1>10, <1>11, <1>20, <1>21, <1>22

-----------------------------------------------------------------------------
(* What is sent is the program with the definitions in front *)

\* With the definitions of some of the gates.
Given(s, gates) ==
  LET r == IF "rzz" \in gates THEN With("rzz", s) ELSE s
  IN  IF "ecr" \in gates THEN With("ecr", r) ELSE r

Needed(s) == {g \in NativeGates : Calls(Tokenize(Text(s)), g) /\ ~Defines(Tokenize(Text(s)), g)}

Sent(s) == Given(s, Needed(s))

Supply(gates, g) == IF g \in gates THEN Declaration[g] ELSE << >>

Body(s) == FlattenSeq(TextsOf(s.statements))

\* A text is a head and a body.
LEMMA TextParts ==
  ASSUME NEW s, NEW n, IsWritten(s, n)
  PROVE  Text(s) = HeadText(s) \o Body(s) /\ \E T : Body(s) \in Seq(T)
  <1>1. Text(s) = HeadText(s) \o Body(s)
    BY DEF Text, HeadText, Body, TextsOf
  <1>2. PICK T : Row(TextsOf(s.statements), n, T)
    BY TextsRow DEF IsWritten, IsProgramText
  <1>3. Body(s) \in Seq(T)
    BY <1>2, FlattenIs DEF Body
  <1>4. QED
    BY <1>1, <1>3

\* Programs with definitions are programs.
LEMMA GivenIs ==
  ASSUME NEW s, NEW n, IsWritten(s, n), NEW gates
  PROVE  /\ \E m : IsWritten(Given(s, gates), m)
         /\ OutputRegisters(Text(Given(s, gates))) = OutputRegisters(Text(s))
         /\ HeadText(Given(s, gates)) = HeadText(s)
         /\ Body(Given(s, gates))
               = Supply(gates, "ecr") \o (Supply(gates, "rzz") \o Body(s))
  <1>a. PICK a : a = Supply(gates, "ecr")
    OBVIOUS
  <1>b. PICK b : b = Supply(gates, "rzz")
    OBVIOUS
  <1>1. "ecr" \in NativeGates /\ "rzz" \in NativeGates
    BY DEF NativeGates
  <1>2. PICK r : r = IF "rzz" \in gates THEN With("rzz", s) ELSE s
    OBVIOUS
  <1>3. PICK q : q = IF "ecr" \in gates THEN With("ecr", r) ELSE r
    OBVIOUS
  <1>4. /\ \E m : IsWritten(r, m)
        /\ OutputRegisters(Text(r)) = OutputRegisters(Text(s))
        /\ HeadText(r) = HeadText(s) /\ Body(r) = b \o Body(s)
    <2>1. CASE "rzz" \in gates
      <3>1. r = With("rzz", s) /\ b = Declaration["rzz"]
        BY <1>2, <1>b, <2>1 DEF Supply
      <3>2. IsWritten(With("rzz", s), n + 1)
        BY <1>1, StatementsBehind
      <3>3. OutputRegisters(Text(With("rzz", s))) = OutputRegisters(Text(s))
        BY <1>1, WithReads
      <3>4. /\ HeadText(With("rzz", s)) = HeadText(s)
            /\ Body(With("rzz", s)) = Declaration["rzz"] \o Body(s)
        BY <1>1, WithText DEF Body
      <3>5. QED
        BY <3>1, <3>2, <3>3, <3>4, Zenon
    <2>2. CASE "rzz" \notin gates
      <3>1. r = s /\ b = << >>
        BY <1>2, <1>b, <2>2 DEF Supply
      <3>2. PICK T : Body(s) \in Seq(T)
        BY TextParts
      <3>3. << >> \o Body(s) = Body(s)
        BY <3>2, ConcatEmptySeq
      <3>4. QED
        BY <3>1, <3>3
    <2>3. QED
      BY <2>1, <2>2
  <1>5. PICK m : IsWritten(r, m)
    BY <1>4
  <1>6. /\ \E k : IsWritten(q, k)
        /\ OutputRegisters(Text(q)) = OutputRegisters(Text(r))
        /\ HeadText(q) = HeadText(r) /\ Body(q) = a \o Body(r)
    <2>1. CASE "ecr" \in gates
      <3>1. q = With("ecr", r) /\ a = Declaration["ecr"]
        BY <1>3, <1>a, <2>1 DEF Supply
      <3>2. IsWritten(With("ecr", r), m + 1)
        BY <1>1, <1>5, StatementsBehind
      <3>3. OutputRegisters(Text(With("ecr", r))) = OutputRegisters(Text(r))
        BY <1>1, <1>5, WithReads
      <3>4. /\ HeadText(With("ecr", r)) = HeadText(r)
            /\ Body(With("ecr", r)) = Declaration["ecr"] \o Body(r)
        BY <1>1, <1>5, WithText DEF Body
      <3>5. QED
        BY <3>1, <3>2, <3>3, <3>4, Zenon
    <2>2. CASE "ecr" \notin gates
      <3>1. q = r /\ a = << >>
        BY <1>3, <1>a, <2>2 DEF Supply
      <3>2. PICK T : Body(r) \in Seq(T)
        BY <1>5, TextParts
      <3>3. << >> \o Body(r) = Body(r)
        BY <3>2, ConcatEmptySeq
      <3>4. QED
        BY <1>5, <3>1, <3>3
    <2>3. QED
      BY <2>1, <2>2
  <1>7. Given(s, gates) = q
    BY <1>2, <1>3 DEF Given
  <1>8. QED
    BY <1>a, <1>b, <1>4, <1>6, <1>7

\* The declarations go between the head and the body.
LEMMA DeclaredText ==
  ASSUME NEW s, NEW n, IsWritten(s, n), NEW a, a = Supply(Needed(s), "ecr"),
         NEW b, b = Supply(Needed(s), "rzz")
  PROVE  /\ DeclareNativeGates(Text(s)) = HeadText(s) \o (a \o (b \o Body(s)))
         /\ \E T : /\ HeadText(s) \in Seq(T) /\ a \in Seq(T) /\ b \in Seq(T)
                   /\ Body(s) \in Seq(T)
         /\ Len(HeadText(s)) = 4
  <1>1. PICK h : h = HeadText(s)
    OBVIOUS
  <1>2. PICK f : f = Body(s)
    OBVIOUS
  <1>3. PICK V : f \in Seq(V)
    BY <1>2, TextParts
  <1>4. PICK t : t = Text(s)
    OBVIOUS
  <1>5. t = h \o f
    BY <1>1, <1>2, <1>4, TextParts
  <1>6. Insertion(t) = 4 /\ SubSeq(t, 1, 4) = h /\ SubSeq(t, 4 + 1, Len(t)) = f
    <2>1. s.version \notin {Comment, Unclosed}
      BY DEF IsWritten, IsProgramText
    <2>2. t = HeadText(s) \o f
      BY <1>1, <1>5
    <2>3. QED
      BY <1>1, <1>3, <2>1, <2>2, InsertsBehindHead
  <1>7. a = Missing(Tokenize(t), "ecr") /\ b = Missing(Tokenize(t), "rzz")
    BY <1>4, Zenon DEF Supply, Needed, NativeGates, Missing
  <1>8. DeclareNativeGates(t) = h \o a \o b \o f
    BY <1>6, <1>7, Zenon DEF DeclareNativeGates
  <1> DEFINE W == {Comment, "OPENQASM", s.version, Semicolon}
             A == ToSet(Declaration["ecr"])
             B == ToSet(Declaration["rzz"])
             T == V \cup W \cup A \cup B
  <1>9. h \in Seq(W) /\ Len(h) = 4
    BY <1>1 DEF HeadText
  <1>10. a \in Seq(A) /\ b \in Seq(B)
    <2>1. Declaration["ecr"] \in Seq(A) /\ Declaration["rzz"] \in Seq(B)
      <3>1. "ecr" \in NativeGates /\ "rzz" \in NativeGates
        BY DEF NativeGates
      <3>2. QED
        BY <3>1, DefinitionIs
    <2> HIDE DEF A, B
    <2>2. << >> \in Seq(A) /\ << >> \in Seq(B)
      OBVIOUS
    <2>3. QED
      BY <2>1, <2>2 DEF Supply
  <1>11. V \subseteq T /\ W \subseteq T /\ A \subseteq T /\ B \subseteq T
    <2> HIDE DEF W, A, B
    <2>1. QED
      OBVIOUS
  <1> HIDE DEF T, W, A, B
  <1>12. h \in Seq(T) /\ a \in Seq(T) /\ b \in Seq(T) /\ f \in Seq(T)
    BY <1>3, <1>9, <1>10, <1>11, SeqMonotonic
  <1>13. h \o a \o b \o f = h \o (a \o (b \o f))
    <2>1. Strings4(h, a, b, f, T)
      BY <1>12 DEF Strings4
    <2>2. QED
      BY <2>1, JoinFour, SMTT(60)
  <1>14. QED
    BY <1>1, <1>2, <1>4, <1>8, <1>9, <1>12, <1>13

\* What is sent is a program again, and its registers are those of the program.
LEMMA SentIs ==
  ASSUME NEW s, NEW n, IsWritten(s, n)
  PROVE  /\ DeclareNativeGates(Text(s)) = Text(Sent(s))
         /\ OutputRegisters(Text(Sent(s))) = OutputRegisters(Text(s))
         /\ \E m : IsWritten(Sent(s), m)
  <1>1. PICK r : r = Sent(s)
    OBVIOUS
  <1>2. /\ \E m : IsWritten(r, m)
        /\ OutputRegisters(Text(r)) = OutputRegisters(Text(s))
        /\ HeadText(r) = HeadText(s)
        /\ Body(r) = Supply(Needed(s), "ecr") \o (Supply(Needed(s), "rzz") \o Body(s))
    BY <1>1, GivenIs DEF Sent
  <1>3. PICK m : IsWritten(r, m)
    BY <1>2
  <1>4. Text(r) = HeadText(r) \o Body(r)
    BY <1>3, TextParts
  <1>5. DeclareNativeGates(Text(s))
           = HeadText(s) \o (Supply(Needed(s), "ecr") \o (Supply(Needed(s), "rzz") \o Body(s)))
    BY DeclaredText
  <1>6. QED
    BY <1>1, <1>2, <1>3, <1>4, <1>5, Zenon

-----------------------------------------------------------------------------
(* The registers are those that were declared *)

\* The programs of clients are programs.
LEMMA ProgramsWritten ==
  ASSUME NEW s, IsProgram(s), s.format = "QASM3"
  PROVE  \E n : IsWritten(s, n)
  <1>1. s.version \in Versions /\ s.statements \in Seq(Statements)
    BY DEF IsProgram
  <1>2. s.version \notin {Comment, Unclosed}
    BY <1>1, StatementsAssumption, Zenon
  <1>3. PICK p \in Seq(Statements) : p = s.statements
    BY <1>1
  <1>4. PICK n \in Nat : n = Len(p)
    BY LenProperties
  <1>5. DOMAIN p = 1 .. n /\ \A k \in 1 .. n : p[k] \in Statements
    BY <1>4, LenProperties, ElementOfSeq
  <1>6. \A k \in 1 .. n : IsStatement(p[k])
    BY <1>5, StatementsAssumption, Zenon
  <1>7. n = 0 => p = << >>
    BY <1>4, EmptySeq
  <1>8. IsText(p, n)
    BY <1>4, <1>5, <1>6, <1>7 DEF IsText
  <1>9. QED
    BY <1>2, <1>3, <1>8 DEF IsWritten, IsProgramText

\* The device reads the registers of the programs it should and refuses the others.
LEMMA ReadMeans ==
  ASSUME NEW s, IsProgram(s)
  PROVE  /\ Read(s).ok <=> Meant(s)
         /\ Meant(s) => Read(s).registers = Layout(s)
  <1>1. CASE s.format = "QASM3"
    <2>1. PICK n : IsWritten(s, n)
      BY <1>1, ProgramsWritten
    <2>2. OutputRegisters(Text(s))
            = IF Documented(s) THEN Found(Declared(s.statements)) ELSE Refused
      BY <2>1, ReadsDocumented DEF IsWritten
    <2>3. Read(s) = OutputRegisters(Text(s)) /\ Layout(s) = Declared(s.statements)
      BY <1>1 DEF Read, Layout
    <2>4. Meant(s) <=> Documented(s)
      BY <1>1 DEF Meant
    <2>5. CASE Documented(s)
      BY <2>2, <2>3, <2>4, <2>5 DEF Found
    <2>6. CASE ~Documented(s)
      BY <2>2, <2>3, <2>4, <2>6 DEF Refused
    <2>7. QED
      BY <2>5, <2>6
  <1>2. CASE s.format = "QPY"
    <2>1. s.file \in Files /\ s.format # "QASM3"
      BY <1>2 DEF IsProgram
    <2>2. /\ QpyRegisters(s.file).ok <=> Partitioned(s.file)
          /\ QpyRegisters(s.file).ok => QpyRegisters(s.file).registers = QpyLayout(s.file)
      BY <2>1, QpyMeaning
    <2>3. QED
      BY <2>1, <2>2 DEF Read, Layout, Meant
  <1>3. QED
    BY <1>1, <1>2 DEF IsProgram

\* The registers of the program that was sent are those of the program.
LEMMA SentMeans ==
  ASSUME NEW s, IsProgram(s), s.format = "QASM3"
  PROVE  OutputRegisters(DeclareNativeGates(Text(s))) = Read(s)
  <1>1. PICK n : IsWritten(s, n)
    BY ProgramsWritten
  <1>2. /\ DeclareNativeGates(Text(s)) = Text(Sent(s))
        /\ OutputRegisters(Text(Sent(s))) = OutputRegisters(Text(s))
    BY <1>1, SentIs
  <1>3. QED
    BY <1>2 DEF Read

\* What is sent is the program of the client with its native gates declared.
RegistersInv ==
  /\ source.format = "foreign" \/ IsProgram(source)
  /\ source.format = "foreign" => stage \in {"writing", "retrieved"}
  /\ stage \in {"writing", "configured", "refused", "submitted", "retrieved", "measured", "done"}
  /\ stage \in {"writing", "configured", "refused"} => payload = None
  /\ stage \in {"submitted", "retrieved", "measured", "done"} /\ source.format = "QASM3" =>
        payload = DeclareNativeGates(Text(source))
  /\ RegistersAsDeclared

\* Nothing is read at first.
LEMMA RegistersInvInit == Init => RegistersInv
  <1> SUFFICES ASSUME Init PROVE RegistersInv
    OBVIOUS
  <1>1. stage = "writing" /\ payload = None
    BY DEF Init
  <1>2. source.format = "foreign" \/ IsProgram(source)
    BY ResultsInvInit DEF ResultsInv
  <1>3. QED
    BY <1>1, <1>2 DEF RegistersInv, RegistersAsDeclared

\* Only configuration and retrieval change the registers.
LEMMA RegistersInvNext == ResultsInv /\ RegistersInv /\ [Next]_vars => RegistersInv'
  <1> SUFFICES ASSUME ResultsInv, RegistersInv, [Next]_vars PROVE RegistersInv'
    OBVIOUS
  <1>0. source'.format = "foreign" \/ IsProgram(source')
    BY ResultsInvNext DEF ResultsInv
  <1>1. ASSUME NEW statement \in Statements, Write(statement) PROVE RegistersInv'
    <2>1. /\ stage = "writing" /\ stage' = "writing" /\ payload' = payload
      BY <1>1 DEF Write
    <2>2. QED
      BY <1>0, <2>1 DEF RegistersInv, RegistersAsDeclared
  <1>2. CASE SetPrograms
    <2>1. /\ stage = "writing" /\ source.format # "foreign" /\ IsProgram(source)
          /\ source' = source /\ payload' = payload
          /\ stage' = IF Read(source).ok THEN "configured" ELSE "refused"
          /\ registers' = Read(source).registers
      BY <1>2 DEF SetPrograms, RegistersInv
    <2>2. /\ Read(source).ok <=> Meant(source)
          /\ Meant(source) => Read(source).registers = Layout(source)
      BY <2>1, ReadMeans
    <2>3. RegistersAsDeclared'
      <3>1. CASE Read(source).ok
        BY <2>1, <2>2, <3>1 DEF RegistersAsDeclared
      <3>2. CASE ~Read(source).ok
        BY <2>1, <2>2, <3>2 DEF RegistersAsDeclared
      <3>3. QED
        BY <3>1, <3>2
    <2>4. QED
      BY <1>0, <2>1, <2>3 DEF RegistersInv
  <1>3. CASE Submit
    <2>1. /\ stage = "configured" /\ stage' = "submitted" /\ source' = source
          /\ registers' = registers
          /\ source.format = "QASM3" => payload' = DeclareNativeGates(Text(source))
      BY <1>3 DEF Submit
    <2>2. source.format # "foreign"
      BY <2>1 DEF RegistersInv
    <2>3. RegistersAsDeclared'
      BY <2>1, <2>2 DEF RegistersInv, RegistersAsDeclared
    <2>4. QED
      BY <1>0, <2>1, <2>2, <2>3 DEF RegistersInv
  <1>4. CASE Retrieve
    <2>1. /\ stage = "submitted" /\ stage' = "retrieved" /\ source' = source
          /\ payload' = payload
          /\ \/ source.format = "QASM3" /\ registers' = OutputRegisters(payload).registers
             \/ source.format = "QPY" /\ registers' = registers
      BY <1>4 DEF Retrieve
    <2>2. source.format # "foreign" /\ IsProgram(source) /\ Meant(source) /\ registers = Layout(source)
      BY <2>1 DEF RegistersInv, RegistersAsDeclared
    <2>3. registers' = Layout(source)
      <3>1. CASE source.format = "QASM3"
        <4>1. payload = DeclareNativeGates(Text(source))
          BY <2>1, <3>1 DEF RegistersInv
        <4>2. OutputRegisters(payload) = Read(source)
          BY <2>2, <3>1, <4>1, SentMeans
        <4>3. Read(source).registers = Layout(source)
          BY <2>2, ReadMeans
        <4>4. QED
          BY <2>1, <3>1, <4>2, <4>3
      <3>2. CASE source.format = "QPY"
        BY <2>1, <2>2, <3>2
      <3>3. QED
        BY <2>1, <3>1, <3>2
    <2>4. RegistersAsDeclared'
      BY <2>1, <2>2, <2>3 DEF RegistersAsDeclared
    <2>5. QED
      BY <1>0, <2>1, <2>2, <2>4 DEF RegistersInv
  <1>5. CASE RetrieveForeign
    <2>1. source.format = "foreign" /\ source' = source /\ stage' = "retrieved"
      BY <1>5 DEF RetrieveForeign
    <2>2. RegistersAsDeclared'
      BY <2>1 DEF RegistersAsDeclared
    <2>3. QED
      BY <1>0, <2>1, <2>2 DEF RegistersInv
  <1>6. CASE Measure \/ Garble \/ Fetch
    <2>1. /\ stage \in {"submitted", "retrieved", "measured"} /\ stage' \in {"measured", "done"}
          /\ source' = source /\ registers' = registers /\ payload' = payload
          /\ source.format # "foreign"
      <3>1. CASE Measure
        BY <3>1 DEF Measure
      <3>2. CASE Garble
        BY <3>2 DEF Garble, RegistersInv
      <3>3. CASE Fetch
        BY <3>3 DEF Fetch, RegistersInv
      <3>4. QED
        BY <1>6, <3>1, <3>2, <3>3
    <2>2. RegistersAsDeclared'
      BY <2>1 DEF RegistersInv, RegistersAsDeclared
    <2>3. QED
      BY <1>0, <2>1, <2>2 DEF RegistersInv
  <1>7. CASE UNCHANGED vars
    <2>1. source' = source /\ stage' = stage /\ registers' = registers /\ payload' = payload
      BY <1>7 DEF vars
    <2>2. QED
      BY <2>1 DEF RegistersInv, RegistersAsDeclared
  <1>8. QED
    BY <1>1, <1>2, <1>3, <1>4, <1>5, <1>6, <1>7 DEF Next

\* The device accepts the programs that the documentation admits and no other,
\* and has the registers they declare, the retrieved program included.
THEOREM RegistersAreAsDeclared == Spec => []RegistersAsDeclared
  <1>1. ResultsInv /\ RegistersInv /\ [Next]_vars => (ResultsInv /\ RegistersInv)'
    BY ResultsInvNext, RegistersInvNext
  <1>2. Init => ResultsInv /\ RegistersInv
    BY ResultsInvInit, RegistersInvInit
  <1>3. RegistersInv => RegistersAsDeclared
    BY DEF RegistersInv
  <1>4. QED
    BY <1>1, <1>2, <1>3, PTL DEF Spec

\* Every shot is shown as it was measured, and answers that do not fit are refused.
THEOREM ResultsAreAsMeasured == Spec => []ResultsAsMeasured
  <1>1. ResultsInv /\ RegistersInv /\ [Next]_vars => (ResultsInv /\ RegistersInv)'
    BY ResultsInvNext, RegistersInvNext
  <1>2. Init => ResultsInv /\ RegistersInv
    BY ResultsInvInit, RegistersInvInit
  <1>3. ResultsInv /\ RegistersInv => ResultsAsMeasured
    BY ResultsFollow DEF RegistersInv
  <1>4. QED
    BY <1>1, <1>2, <1>3, PTL DEF Spec

-----------------------------------------------------------------------------
(* Native gates: what is called and defined, by the statements *)

\* A supported program, its tokens, and where those of its statements are.
Supports(t, s, n) ==
  /\ IsProgramText(s, n) /\ t = Tokenize(Text(s)) /\ Laidout(t, s, n)
  /\ \A k \in 1 .. n : s.statements[k].supported

\* Token i of statement k.
Spot(t, s, n, k, i) ==
  /\ k \in 1 .. n /\ i \in Nat /\ i >= 1
  /\ Len(TokensOf(s.statements)[k]) \in Nat /\ i <= Len(TokensOf(s.statements)[k])
  /\ InFront(s.statements, k) \in Nat /\ InFront(s.statements, k) >= 3
  /\ InFront(s.statements, k) + i <= Len(t)
  /\ \A j \in 1 .. Len(TokensOf(s.statements)[k]) :
        t[InFront(s.statements, k) + j] = TokensOf(s.statements)[k][j]

\* The tokens behind the head are those of the statements.
LEMMA SpotOf ==
  ASSUME NEW t, NEW s, NEW n, Supports(t, s, n)
  PROVE  /\ Len(t) \in Nat /\ t[3] = Semicolon
         /\ \A p \in 4 .. Len(t) : \E k, i : Spot(t, s, n, k, i) /\ p = InFront(s.statements, k) + i
         /\ \A k \in 1 .. n : \A i \in 1 .. Len(TokensOf(s.statements)[k]) : Spot(t, s, n, k, i)
  <1>1. PICK p : p = s.statements
    OBVIOUS
  <1>2. IsText(p, n) /\ n \in Nat
    BY <1>1 DEF Supports, IsProgramText, IsText
  <1>3. PICK T : Row(TokensOf(p), n, T)
    BY <1>2, TextsRow
  <1>4. PICK x : x = TokensOf(p)
    OBVIOUS
  <1>5. /\ Before(x, 1) = 0 /\ \A k \in 1 .. n + 1 : Before(x, k) \in Nat
        /\ \A k \in 1 .. n : Before(x, k + 1) = Before(x, k) + Len(x[k])
        /\ \A j, k \in 1 .. n + 1 : j <= k => Before(x, j) <= Before(x, k)
    BY <1>3, <1>4, Places
  <1>6. /\ Len(t) = 3 + Before(x, n + 1) /\ Len(t) \in Nat /\ t[3] = Semicolon
        /\ \A k \in 1 .. n : Within(t, 3 + Before(x, k), x[k])
    BY <1>1, <1>4 DEF Supports, Laidout, InFront
  <1>7. \A k \in 1 .. n : Len(x[k]) \in Nat
    BY <1>3, <1>4 DEF Row
  <1>8. ASSUME NEW k \in 1 .. n, NEW i \in 1 .. Len(x[k]) PROVE Spot(t, s, n, k, i)
    <2>1. PICK a \in Nat : a = Before(x, k)
      <3>1. k \in 1 .. n + 1
        BY <1>2
      <3>2. QED
        BY <1>5, <3>1
    <2>2. PICK l \in Nat : l = Len(x[k])
      BY <1>7
    <2>3. InFront(p, k) = 3 + a
      BY <1>4, <2>1 DEF InFront
    <2>4. \A j \in 1 .. l : t[(3 + a) + j] = x[k][j]
      BY <1>6, <2>1, <2>2 DEF Within
    <2>5. (3 + a) + l <= Len(t)
      BY <1>6, <2>1, <2>2 DEF Within
    <2>6. 3 + a \in Nat /\ 3 + a >= 3 /\ i \in Nat /\ i >= 1 /\ i <= l /\ (3 + a) + i <= Len(t)
      <3>1. i \in 1 .. l
        BY <2>2
      <3>2. \A y \in Nat : (3 + a) + l <= y => (3 + a) + i <= y
        BY <3>1
      <3>3. QED
        BY <1>6, <2>5, <3>1, <3>2
    <2>7. QED
      BY <1>1, <1>4, <2>2, <2>3, <2>4, <2>6 DEF Spot
  <1>9. ASSUME NEW q \in 4 .. Len(t)
        PROVE  \E k, i : Spot(t, s, n, k, i) /\ q = InFront(p, k) + i
    <2>1. q - 3 \in 1 .. Before(x, n + 1)
      <3>1. n + 1 \in 1 .. n + 1
        BY <1>2
      <3>2. Before(x, n + 1) \in Nat
        BY <1>5, <3>1
      <3>3. QED
        BY <1>6, <3>2
    <2>2. PICK k \in 1 .. n : \E i \in 1 .. Len(x[k]) : q - 3 = Before(x, k) + i
      BY <1>3, <1>4, <2>1, PlaceOf
    <2>3. PICK i \in 1 .. Len(x[k]) : q - 3 = Before(x, k) + i
      BY <2>2
    <2>4. Spot(t, s, n, k, i)
      BY <1>8
    <2>5. Before(x, k) \in Nat /\ i \in Nat
      <3>1. k \in 1 .. n + 1
        BY <1>2
      <3>2. QED
        BY <1>5, <1>7, <3>1
    <2>6. q = (3 + Before(x, k)) + i
      BY <1>6, <2>3, <2>5
    <2>7. QED
      BY <1>4, <2>4, <2>6 DEF InFront
  <1>10. QED
    BY <1>1, <1>4, <1>6, <1>8, <1>9

\* What a statement calls and defines.
Naming(t, g) == \E i \in 1 .. Len(t) - 1 : t[i] = "gate" /\ t[i + 1] = g

Calling(t, g) == \E i \in 1 .. Len(t) - 1 :
  /\ i > 1 => t[i - 1] # "gate"
  /\ t[i] = g
  /\ t[i + 1] \in {"(", "$"} \cup Words

\* Statements are told apart by their names.
LEMMA NamesAre ==
  ASSUME NEW t, NEW s, NEW n, Supports(t, s, n), NEW k \in 1 .. n, NEW x, x = TokensOf(s.statements)[k]
  PROVE  /\ \A g \in NativeGates : /\ g \in s.statements[k].gates <=> Naming(x, g)
                                   /\ g \in s.statements[k].calls <=> Calling(x, g)
         /\ x # << >> => x[Len(x)] \notin NativeGates \cup {"gate"}
  <1>1. IsStatement(s.statements[k]) /\ s.statements[k].supported
    BY DEF Supports, IsProgramText, IsText
  <1>2. Names(s.statements[k], Tokenize(s.statements[k].text))
    BY <1>1, StatementIs
  <1>3. x = Tokenize(s.statements[k].text)
    BY DEF Supports, Laidout
  <1>4. Names(s.statements[k], x)
    BY <1>2, <1>3
  <1>5. QED
    BY <1>4, Zenon DEF Names, Naming, Calling

\* A token that a gate or its name follows is not the last of its statement.
LEMMA NotLast ==
  ASSUME NEW t, NEW s, NEW n, Supports(t, s, n), NEW k, NEW i, Spot(t, s, n, k, i),
         NEW x, x = TokensOf(s.statements)[k],
         t[InFront(s.statements, k) + i] \in NativeGates \cup {"gate"}
  PROVE  i \in 1 .. Len(x) - 1 /\ x[i] = t[InFront(s.statements, k) + i]
  <1>1. /\ k \in 1 .. n /\ i \in 1 .. Len(x) /\ Len(x) \in Nat
        /\ x[i] = t[InFront(s.statements, k) + i]
    BY DEF Spot
  <1>2. x # << >>
    BY <1>1
  <1>3. x[Len(x)] \notin NativeGates \cup {"gate"}
    BY <1>1, <1>2, NamesAre
  <1>4. i # Len(x)
    BY <1>1, <1>3
  <1>5. QED
    BY <1>1, <1>4

\* A gate is defined if a statement does.
LEMMA DefinesIs ==
  ASSUME NEW t, NEW s, NEW n, Supports(t, s, n), NEW g \in NativeGates
  PROVE  Defines(t, g) <=> \E k \in 1 .. n : g \in s.statements[k].gates
  <1>1. ASSUME Defines(t, g) PROVE \E k \in 1 .. n : g \in s.statements[k].gates
    <2>1. PICK p \in 4 .. Len(t) - 1 : t[p] = "gate" /\ t[p + 1] = g
      BY <1>1 DEF Defines
    <2>2. p \in 4 .. Len(t)
      BY SpotOf
    <2>3. PICK k, i : Spot(t, s, n, k, i) /\ p = InFront(s.statements, k) + i
      BY <2>2, SpotOf
    <2>4. PICK x : x = TokensOf(s.statements)[k]
      OBVIOUS
    <2>5. i \in 1 .. Len(x) - 1 /\ x[i] = "gate"
      BY <2>1, <2>3, <2>4, NotLast
    <2>6. x[i + 1] = g
      <3>1. /\ \A j \in 1 .. Len(x) : t[InFront(s.statements, k) + j] = x[j]
            /\ InFront(s.statements, k) \in Nat /\ i \in Nat /\ Len(x) \in Nat
        BY <2>3, <2>4 DEF Spot
      <3>2. i + 1 \in 1 .. Len(x) /\ InFront(s.statements, k) + (i + 1) = p + 1
        BY <2>3, <2>5, <3>1
      <3>3. QED
        BY <2>1, <3>1, <3>2
    <2>7. Naming(x, g) /\ k \in 1 .. n
      BY <2>3, <2>5, <2>6 DEF Naming, Spot
    <2>8. QED
      BY <2>4, <2>7, NamesAre
  <1>2. ASSUME NEW k \in 1 .. n, g \in s.statements[k].gates PROVE Defines(t, g)
    <2>1. PICK x : x = TokensOf(s.statements)[k]
      OBVIOUS
    <2>2. Naming(x, g)
      BY <1>2, <2>1, NamesAre
    <2>3. PICK i \in 1 .. Len(x) - 1 : x[i] = "gate" /\ x[i + 1] = g
      BY <2>2 DEF Naming
    <2>4. Len(x) \in Int
      <3>1. PICK T : Row(TokensOf(s.statements), n, T)
        BY TextsRow DEF Supports, IsProgramText
      <3>2. QED
        BY <2>1, <3>1 DEF Row
    <2>5. i \in 1 .. Len(x) /\ i + 1 \in 1 .. Len(x)
      BY <2>4
    <2>6. Spot(t, s, n, k, i + 1)
      BY <2>1, <2>5, SpotOf
    <2>7. PICK a \in Nat : a = InFront(s.statements, k)
      BY <2>6 DEF Spot
    <2>8. t[a + i] = x[i] /\ t[a + (i + 1)] = x[i + 1] /\ a >= 3 /\ a + (i + 1) <= Len(t)
      BY <2>1, <2>5, <2>6, <2>7 DEF Spot
    <2>9. a + i \in 4 .. Len(t) - 1 /\ (a + i) + 1 = a + (i + 1)
      BY <2>4, <2>8, SpotOf
    <2>10. QED
      BY <2>3, <2>8, <2>9 DEF Defines
  <1>3. QED
    BY <1>1, <1>2

\* No statement has "gate" in front of it.
LEMMA NoGateInFront ==
  ASSUME NEW t, NEW s, NEW n, Supports(t, s, n), NEW k \in 1 .. n
  PROVE  t[InFront(s.statements, k)] # "gate"
  <1>1. PICK x : x = TokensOf(s.statements)
    OBVIOUS
  <1>2. PICK T : Row(x, n, T) /\ n \in Nat
    BY <1>1, TextsRow DEF Supports, IsProgramText, IsText
  <1>3. /\ Before(x, 1) = 0 /\ \A j \in 1 .. n + 1 : Before(x, j) \in Nat
        /\ \A j \in 1 .. n : Before(x, j + 1) = Before(x, j) + Len(x[j])
        /\ \A i, j \in 1 .. n + 1 : i <= j => Before(x, i) <= Before(x, j)
    BY <1>2, Places
  <1>4. PICK a \in Nat : a = Before(x, k)
    <2>1. k \in 1 .. n + 1
      BY <1>2
    <2>2. QED
      BY <1>3, <2>1
  <1>5. InFront(s.statements, k) = 3 + a
    BY <1>1, <1>4 DEF InFront
  <1>6. CASE a = 0
    <2>1. t[3] = Semicolon /\ 3 + a = 3
      BY <1>6, SpotOf
    <2>2. QED
      BY <1>5, <2>1, Punctuation
  <1>7. CASE a # 0
    <2>1. SUFFICES ASSUME t[3 + a] = "gate" PROVE FALSE
      BY <1>5
    <2>2. 3 + a \in 4 .. Len(t)
      <3>1. n + 1 \in 1 .. n + 1 /\ k \in 1 .. n + 1 /\ k <= n + 1
        BY <1>2
      <3>2. PICK b \in Nat : b = Before(x, n + 1)
        BY <1>3, <3>1
      <3>3. a <= b
        BY <1>3, <1>4, <3>1, <3>2
      <3>4. Len(t) = 3 + b
        BY <1>1, <3>2 DEF Supports, Laidout, InFront
      <3>5. QED
        BY <1>7, <3>3, <3>4
    <2>3. PICK j, i : Spot(t, s, n, j, i) /\ 3 + a = InFront(s.statements, j) + i
      BY <2>2, SpotOf
    <2>4. i \in 1 .. Len(x[j]) - 1
      BY <1>1, <2>1, <2>3, NotLast
    <2>5. j \in 1 .. n /\ i \in Nat /\ Len(x[j]) \in Nat
      BY <1>1, <2>3 DEF Spot
    <2>6. PICK l \in Nat : l = Len(x[j])
      BY <2>5
    <2>7. j \in 1 .. n + 1 /\ j + 1 \in 1 .. n + 1 /\ k \in 1 .. n + 1
      BY <1>2, <2>5
    <2>8. PICK b \in Nat : b = Before(x, j)
      BY <1>3, <2>7
    <2>9. Before(x, j + 1) = b + l
      BY <1>3, <2>5, <2>6, <2>8
    <2>10. InFront(s.statements, j) = 3 + b
      BY <1>1, <2>8 DEF InFront
    <2>11. a = b + i /\ i >= 1 /\ i < l
      BY <2>3, <2>4, <2>5, <2>6, <2>10
    <2>12. ~(k <= j)
      <3>1. k <= j => a <= b
        BY <1>3, <1>4, <2>7, <2>8
      <3>2. QED
        BY <2>5, <2>11, <3>1
    <2>13. j + 1 <= k
      BY <1>2, <2>5, <2>12
    <2>14. b + l <= a
      BY <1>3, <1>4, <2>7, <2>9, <2>13
    <2>15. QED
      BY <2>5, <2>11, <2>14
  <1>8. QED
    BY <1>6, <1>7

\* A gate is called if a statement does.
LEMMA CallsIs ==
  ASSUME NEW t, NEW s, NEW n, Supports(t, s, n), NEW g \in NativeGates
  PROVE  Calls(t, g) <=> \E k \in 1 .. n : g \in s.statements[k].calls
  <1>1. ASSUME Calls(t, g) PROVE \E k \in 1 .. n : g \in s.statements[k].calls
    <2>1. PICK p \in 4 .. Len(t) - 1 :
             t[p - 1] # "gate" /\ t[p] = g /\ t[p + 1] \in {"(", "$"} \cup Words
      BY <1>1, Zenon DEF Calls
    <2>2. p \in 4 .. Len(t)
      BY SpotOf
    <2>3. PICK k, i : Spot(t, s, n, k, i) /\ p = InFront(s.statements, k) + i
      BY <2>2, SpotOf
    <2>4. PICK x : x = TokensOf(s.statements)[k]
      OBVIOUS
    <2>5. i \in 1 .. Len(x) - 1 /\ x[i] = g
      BY <2>1, <2>3, <2>4, NotLast
    <2>6. PICK a \in Nat : a = InFront(s.statements, k)
      BY <2>3 DEF Spot
    <2>7. i \in Nat /\ Len(x) \in Nat /\ \A j \in 1 .. Len(x) : t[a + j] = x[j]
      BY <2>3, <2>4, <2>6 DEF Spot
    <2>8. x[i + 1] = t[p + 1]
      <3>1. i + 1 \in 1 .. Len(x) /\ a + (i + 1) = p + 1
        BY <2>3, <2>5, <2>6, <2>7
      <3>2. QED
        BY <2>7, <3>1
    <2>9. i > 1 => x[i - 1] # "gate"
      <3>1. i > 1 => i - 1 \in 1 .. Len(x) /\ a + (i - 1) = p - 1
        BY <2>3, <2>5, <2>6, <2>7
      <3>2. QED
        BY <2>1, <2>7, <3>1
    <2>10. Calling(x, g)
      BY <2>1, <2>5, <2>8, <2>9 DEF Calling
    <2>11. k \in 1 .. n
      BY <2>3 DEF Spot
    <2>12. QED
      BY <2>4, <2>10, <2>11, NamesAre
  <1>2. ASSUME NEW k \in 1 .. n, g \in s.statements[k].calls PROVE Calls(t, g)
    <2>1. PICK x : x = TokensOf(s.statements)[k]
      OBVIOUS
    <2>2. Calling(x, g)
      BY <1>2, <2>1, NamesAre
    <2>3. PICK i \in 1 .. Len(x) - 1 :
             /\ i > 1 => x[i - 1] # "gate"
             /\ x[i] = g /\ x[i + 1] \in {"(", "$"} \cup Words
      BY <2>2, Zenon DEF Calling
    <2>4. Len(x) \in Int
      <3>1. PICK T : Row(TokensOf(s.statements), n, T)
        BY TextsRow DEF Supports, IsProgramText
      <3>2. QED
        BY <2>1, <3>1 DEF Row
    <2>5. i \in 1 .. Len(x) /\ i + 1 \in 1 .. Len(x)
      BY <2>4
    <2>6. Spot(t, s, n, k, i + 1)
      BY <2>1, <2>5, SpotOf
    <2>7. PICK a \in Nat : a = InFront(s.statements, k)
      BY <2>6 DEF Spot
    <2>8. /\ t[a + i] = x[i] /\ t[a + (i + 1)] = x[i + 1] /\ a >= 3 /\ a + (i + 1) <= Len(t)
          /\ \A j \in 1 .. Len(x) : t[a + j] = x[j]
      BY <2>1, <2>5, <2>6, <2>7 DEF Spot
    <2>9. a + i \in 4 .. Len(t) - 1 /\ (a + i) + 1 = a + (i + 1)
      BY <2>4, <2>8, SpotOf
    <2>10. t[(a + i) - 1] # "gate"
      <3>1. CASE i = 1
        <4>1. (a + i) - 1 = a
          BY <3>1
        <4>2. t[a] # "gate"
          BY <2>7, NoGateInFront
        <4>3. QED
          BY <4>1, <4>2
      <3>2. CASE i # 1
        <4>1. i > 1 /\ i - 1 \in 1 .. Len(x) /\ a + (i - 1) = (a + i) - 1
          BY <2>4, <3>2
        <4>2. QED
          BY <2>3, <2>8, <4>1
      <3>3. QED
        BY <3>1, <3>2
    <2>11. t[a + i] = g /\ t[(a + i) + 1] \in {"(", "$"} \cup Words
      BY <2>3, <2>8, <2>9
    <2>12. QED
      BY <2>9, <2>10, <2>11, Zenon DEF Calls
  <1>3. QED
    BY <1>1, <1>2

-----------------------------------------------------------------------------
(* One definition of each gate that is needed *)

AllSupported(s) == \A i \in DOMAIN s.statements : s.statements[i].supported

Called(s, g) == \E i \in DOMAIN s.statements : g \in s.statements[i].calls

Defined(s, g) == \E i \in DOMAIN s.statements : g \in s.statements[i].gates

\* Gates are declared that are called and not defined.
LEMMA NeededIs ==
  ASSUME NEW s, NEW n, IsWritten(s, n), AllSupported(s)
  PROVE  Needed(s) = {g \in NativeGates : Called(s, g) /\ ~Defined(s, g)}
  <1>1. PICK t : t = Tokenize(Text(s))
    OBVIOUS
  <1>2. IsProgramText(s, n) /\ DOMAIN s.statements = 1 .. n
    BY DEF IsWritten, IsProgramText, IsText
  <1>3. Supports(t, s, n)
    BY <1>1, <1>2, TokensLaidout DEF Supports, AllSupported
  <1>4. ASSUME NEW g \in NativeGates
        PROVE  Calls(t, g) /\ ~Defines(t, g) <=> Called(s, g) /\ ~Defined(s, g)
    <2>1. Calls(t, g) <=> Called(s, g)
      BY <1>2, <1>3, CallsIs DEF Called
    <2>2. Defines(t, g) <=> Defined(s, g)
      BY <1>2, <1>3, DefinesIs DEF Defined
    <2>3. QED
      BY <2>1, <2>2, Zenon
  <1>5. Needed(s) = {g \in NativeGates : Calls(t, g) /\ ~Defines(t, g)}
    BY <1>1, Zenon DEF Needed
  <1>6. QED
    BY <1>4, <1>5, Zenon

\* A definition is one more.
LEMMA WithDefines ==
  ASSUME NEW s, NEW n, IsWritten(s, n), AllSupported(s), NEW g \in NativeGates
  PROVE  /\ AllSupported(With(g, s))
         /\ \A h : /\ Called(With(g, s), h) <=> Called(s, h)
                   /\ Defined(With(g, s), h) <=> h = g \/ Defined(s, h)
  <1>1. PICK p : p = s.statements
    OBVIOUS
  <1>2. PICK q : q = With(g, s).statements
    OBVIOUS
  <1>3. /\ IsText(p, n) /\ IsText(q, n + 1) /\ n \in Nat
        /\ q[1] = Definition(g) /\ \A k \in 1 .. n : q[k + 1] = p[k]
    BY <1>1, <1>2, StatementsBehind DEF Preceded
  <1>4. DOMAIN p = 1 .. n /\ DOMAIN q = 1 .. n + 1
    BY <1>3 DEF IsText
  <1>5. q[1].supported /\ q[1].calls = {} /\ q[1].gates = {g}
    BY <1>3 DEF Definition
  <1>6. \A i \in 1 .. n + 1 : i = 1 \/ \E k \in 1 .. n : q[i] = p[k]
    <2> TAKE i \in 1 .. n + 1
    <2>1. CASE i # 1
      <3>1. i - 1 \in 1 .. n /\ (i - 1) + 1 = i
        BY <1>3, <2>1
      <3>2. QED
        BY <1>3, <3>1
    <2>2. QED
      BY <2>1
  <1>7. 1 \in 1 .. n + 1 /\ \A k \in 1 .. n : \E i \in 1 .. n + 1 : q[i] = p[k]
    <2>1. \A k \in 1 .. n : k + 1 \in 1 .. n + 1
      BY <1>3
    <2>2. QED
      BY <1>3, <2>1
  <1>8. AllSupported(With(g, s))
    BY <1>1, <1>2, <1>4, <1>5, <1>6, Zenon DEF AllSupported
  <1>9. ASSUME NEW h PROVE Called(With(g, s), h) <=> Called(s, h)
    <2>1. /\ Called(With(g, s), h) <=> \E i \in 1 .. n + 1 : h \in q[i].calls
          /\ Called(s, h) <=> \E k \in 1 .. n : h \in p[k].calls
      BY <1>1, <1>2, <1>4, Zenon DEF Called
    <2>2. h \notin q[1].calls
      BY <1>5
    <2>3. ASSUME NEW i \in 1 .. n + 1, h \in q[i].calls PROVE \E k \in 1 .. n : h \in p[k].calls
      <3>1. PICK k \in 1 .. n : q[i] = p[k]
        BY <1>6, <2>2, <2>3
      <3>2. QED
        BY <2>3, <3>1
    <2>4. ASSUME NEW k \in 1 .. n, h \in p[k].calls PROVE \E i \in 1 .. n + 1 : h \in q[i].calls
      <3>1. PICK i \in 1 .. n + 1 : q[i] = p[k]
        BY <1>7
      <3>2. QED
        BY <2>4, <3>1
    <2>5. QED
      BY <2>1, <2>3, <2>4
  <1>10. ASSUME NEW h PROVE Defined(With(g, s), h) <=> h = g \/ Defined(s, h)
    <2>1. /\ Defined(With(g, s), h) <=> \E i \in 1 .. n + 1 : h \in q[i].gates
          /\ Defined(s, h) <=> \E k \in 1 .. n : h \in p[k].gates
      BY <1>1, <1>2, <1>4, Zenon DEF Defined
    <2>2. h \in q[1].gates <=> h = g
      BY <1>5
    <2>3. ASSUME NEW i \in 1 .. n + 1, h \in q[i].gates
          PROVE  h = g \/ \E k \in 1 .. n : h \in p[k].gates
      <3>1. CASE i = 1
        BY <2>2, <2>3, <3>1
      <3>2. CASE i # 1
        <4>1. PICK k \in 1 .. n : q[i] = p[k]
          BY <1>6, <3>2
        <4>2. QED
          BY <2>3, <4>1
      <3>3. QED
        BY <3>1, <3>2
    <2>4. ASSUME NEW k \in 1 .. n, h \in p[k].gates PROVE \E i \in 1 .. n + 1 : h \in q[i].gates
      <3>1. PICK i \in 1 .. n + 1 : q[i] = p[k]
        BY <1>7
      <3>2. QED
        BY <2>4, <3>1
    <2>5. h = g => \E i \in 1 .. n + 1 : h \in q[i].gates
      BY <1>7, <2>2
    <2>6. QED
      BY <2>1, <2>3, <2>4, <2>5
  <1>11. QED
    BY <1>8, <1>9, <1>10

\* And so are those of some gates.
LEMMA GivenDefines ==
  ASSUME NEW s, NEW n, IsWritten(s, n), AllSupported(s), NEW gates \in SUBSET NativeGates
  PROVE  /\ AllSupported(Given(s, gates))
         /\ \A h : /\ Called(Given(s, gates), h) <=> Called(s, h)
                   /\ Defined(Given(s, gates), h) <=> h \in gates \/ Defined(s, h)
  <1>1. "ecr" \in NativeGates /\ "rzz" \in NativeGates /\ \A h \in gates : h = "ecr" \/ h = "rzz"
    BY DEF NativeGates
  <1>2. PICK r : r = IF "rzz" \in gates THEN With("rzz", s) ELSE s
    OBVIOUS
  <1>3. PICK q : q = IF "ecr" \in gates THEN With("ecr", r) ELSE r
    OBVIOUS
  <1>4. /\ AllSupported(r) /\ \E m : IsWritten(r, m)
        /\ \A h : /\ Called(r, h) <=> Called(s, h)
                  /\ Defined(r, h) <=> ("rzz" \in gates /\ h = "rzz") \/ Defined(s, h)
    <2>1. CASE "rzz" \in gates
      <3>1. r = With("rzz", s)
        BY <1>2, <2>1
      <3>2. IsWritten(r, n + 1)
        BY <1>1, <3>1, StatementsBehind
      <3>3. /\ AllSupported(r)
            /\ \A h : /\ Called(r, h) <=> Called(s, h)
                      /\ Defined(r, h) <=> h = "rzz" \/ Defined(s, h)
        BY <1>1, <3>1, WithDefines
      <3>4. QED
        BY <2>1, <3>2, <3>3, Zenon
    <2>2. CASE "rzz" \notin gates
      <3>1. r = s
        BY <1>2, <2>2
      <3>2. QED
        BY <2>2, <3>1, Zenon
    <2>3. QED
      BY <2>1, <2>2
  <1>5. PICK m : IsWritten(r, m)
    BY <1>4
  <1>6. /\ AllSupported(q)
        /\ \A h : /\ Called(q, h) <=> Called(r, h)
                  /\ Defined(q, h) <=> ("ecr" \in gates /\ h = "ecr") \/ Defined(r, h)
    <2>1. CASE "ecr" \in gates
      <3>1. q = With("ecr", r)
        BY <1>3, <2>1
      <3>2. /\ AllSupported(q)
            /\ \A h : /\ Called(q, h) <=> Called(r, h)
                      /\ Defined(q, h) <=> h = "ecr" \/ Defined(r, h)
        BY <1>1, <1>4, <1>5, <3>1, WithDefines
      <3>3. QED
        BY <2>1, <3>2, Zenon
    <2>2. CASE "ecr" \notin gates
      <3>1. q = r
        BY <1>3, <2>2
      <3>2. QED
        BY <1>4, <2>2, <3>1, Zenon
    <2>3. QED
      BY <2>1, <2>2
  <1>7. Given(s, gates) = q
    BY <1>2, <1>3 DEF Given
  <1>8. \A h : h \in gates <=> ("rzz" \in gates /\ h = "rzz") \/ ("ecr" \in gates /\ h = "ecr")
    BY <1>1
  <1>9. QED
    BY <1>4, <1>6, <1>7, <1>8, Zenon

\* Nothing is missing of what was sent, and declaring again changes nothing.
LEMMA SentComplete ==
  ASSUME NEW s, NEW n, IsWritten(s, n), AllSupported(s), NEW text, text = DeclareNativeGates(Text(s))
  PROVE  DeclareNativeGates(text) = text
  <1>1. PICK r : r = Sent(s)
    OBVIOUS
  <1>2. text = Text(r) /\ \E m : IsWritten(r, m)
    BY <1>1, SentIs
  <1>3. PICK m : IsWritten(r, m)
    BY <1>2
  <1>4. Needed(s) \in SUBSET NativeGates
    BY DEF Needed
  <1>5. /\ AllSupported(r)
        /\ \A h : /\ Called(r, h) <=> Called(s, h)
                  /\ Defined(r, h) <=> h \in Needed(s) \/ Defined(s, h)
    BY <1>1, <1>4, GivenDefines DEF Sent
  <1>6. Needed(s) = {g \in NativeGates : Called(s, g) /\ ~Defined(s, g)}
    BY NeededIs
  <1>7. Needed(r) = {g \in NativeGates : Called(r, g) /\ ~Defined(r, g)}
    BY <1>3, <1>5, NeededIs
  <1>8. Needed(r) = {}
    BY <1>5, <1>6, <1>7, Zenon
  <1>9. Sent(r) = r
    <2>1. "ecr" \notin {} /\ "rzz" \notin {}
      OBVIOUS
    <2>2. QED
      BY <1>8, <2>1, Zenon DEF Sent, Given
  <1>10. DeclareNativeGates(Text(r)) = Text(Sent(r))
    BY <1>3, SentIs
  <1>11. QED
    BY <1>2, <1>9, <1>10

-----------------------------------------------------------------------------
(* The text that is sent *)

\* Where the definition of a gate begins.
Marks(supplied, g) ==
  {i \in 1 .. Len(supplied) - 1 : supplied[i] = "gate" /\ supplied[i + 1] = g}

\* A definition has one.
LEMMA MarksOne ==
  ASSUME NEW t, NEW g \in NativeGates, NEW open, NEW n, Defining(t, g, open, n),
         NEW h \in NativeGates
  PROVE  Marks(t, h) = IF h = g THEN {1} ELSE {}
  <1>1. /\ Len(t) = n /\ n \in Nat /\ open \in 3 .. n - 1
        /\ t[1] = "gate" /\ t[2] = g
        /\ \A i \in 3 .. n : t[i] \notin {"gate", "ecr", "rzz"}
    BY DEF Defining
  <1>2. g # "gate"
    BY DEF NativeGates
  <1>3. \A i \in 1 .. n - 1 : t[i] = "gate" <=> i = 1
    <2>1. \A i \in 1 .. n - 1 : i = 1 \/ i = 2 \/ i \in 3 .. n
      BY <1>1
    <2>2. QED
      BY <1>1, <1>2, <2>1
  <1>4. 1 \in 1 .. n - 1 /\ 1 + 1 = 2
    BY <1>1
  <1>5. QED
    BY <1>1, <1>3, <1>4 DEF Marks

\* Two have theirs.
LEMMA MarksTwo ==
  ASSUME NEW m, m = Declaration["ecr"] \o Declaration["rzz"], NEW h \in NativeGates
  PROVE  Marks(m, h) = IF h = "ecr" THEN {1} ELSE {24}
  <1>e. PICK e : e = Declaration["ecr"]
    OBVIOUS
  <1>r. PICK r : r = Declaration["rzz"]
    OBVIOUS
  <1>1. /\ e \in Seq(ToSet(e)) /\ Len(e) = 23 /\ e[1] = "gate" /\ e[2] = "ecr"
        /\ \A i \in 3 .. 23 : e[i] \notin {"gate", "ecr", "rzz"}
    BY <1>e, EcrDefining DEF Defining
  <1>2. /\ r \in Seq(ToSet(r)) /\ Len(r) = 22 /\ r[1] = "gate" /\ r[2] = "rzz"
        /\ \A i \in 3 .. 22 : r[i] \notin {"gate", "ecr", "rzz"}
    BY <1>r, RzzDefining DEF Defining
  <1> DEFINE T == ToSet(e) \cup ToSet(r)
  <1>3. e \in Seq(T) /\ r \in Seq(T)
    <2>1. ToSet(e) \subseteq T /\ ToSet(r) \subseteq T
      OBVIOUS
    <2> HIDE DEF T
    <2>2. QED
      BY <1>1, <1>2, <2>1, SeqMonotonic
  <1> HIDE DEF T
  <1>4. /\ Len(m) = Len(e) + Len(r)
        /\ \A i \in 1 .. Len(e) : m[i] = e[i]
        /\ \A i \in 1 .. Len(r) : m[Len(e) + i] = r[i]
    <2>1. m = e \o r
      BY <1>e, <1>r
    <2>2. QED
      BY <1>3, <2>1, ConcatAt
  <1>a. Len(e) = 23 /\ Len(r) = 22 /\ 23 + 22 = 45
    BY <1>1, <1>2
  <1>5. Len(m) = 45 /\ \A i \in 1 .. 23 : m[i] = e[i]
    <2>1. Len(m) = Len(e) + Len(r) /\ \A i \in 1 .. Len(e) : m[i] = e[i]
      BY <1>4
    <2>2. QED
      BY <1>a, <2>1, ZenonT(60)
  <1>6. \A i \in 24 .. 45 : m[i] = r[i - 23]
    <2> TAKE i \in 24 .. 45
    <2>1. PICK j \in 1 .. 22 : j = i - 23
      OBVIOUS
    <2>2. i = 23 + j
      BY <2>1
    <2>3. m[Len(e) + j] = r[j]
      BY <1>4, <1>a
    <2>4. QED
      BY <1>a, <2>1, <2>2, <2>3
  <1>7. \A i \in 1 .. 44 : m[i] = "gate" <=> i = 1 \/ i = 24
    <2> TAKE i \in 1 .. 44
    <2>1. CASE i \in 1 .. 23
      <3>1. m[i] = e[i] /\ i # 24
        <4>1. m[i] = e[i]
          BY <1>5, <2>1
        <4>2. i # 24
          BY <2>1
        <4>3. QED
          BY <4>1, <4>2
      <3>2. i = 1 \/ i = 2 \/ i \in 3 .. 23
        BY <2>1
      <3>3. e[2] # "gate" /\ \A j \in 3 .. 23 : e[j] # "gate"
        BY <1>1
      <3>4. QED
        BY <1>1, <3>1, <3>2, <3>3
    <2>2. CASE i \in 24 .. 44
      <3>1. m[i] = r[i - 23] /\ i # 1
        <4>1. i \in 24 .. 45 /\ i # 1
          BY <2>2
        <4>2. QED
          BY <1>6, <4>1
      <3>2. i = 24 \/ i = 25 \/ i - 23 \in 3 .. 22
        BY <2>2
      <3>3. r[2] # "gate" /\ \A j \in 3 .. 22 : r[j] # "gate"
        BY <1>2
      <3>4. 24 - 23 = 1 /\ 25 - 23 = 2
        OBVIOUS
      <3>5. QED
        BY <1>2, <3>1, <3>2, <3>3, <3>4
    <2>3. i \in 1 .. 23 \/ i \in 24 .. 44
      OBVIOUS
    <2>4. QED
      BY <2>1, <2>2, <2>3
  <1>8. m[2] = "ecr" /\ m[25] = "rzz"
    <2>1. 2 \in 1 .. 23 /\ 25 \in 24 .. 45 /\ 25 - 23 = 2
      OBVIOUS
    <2>2. QED
      BY <1>1, <1>2, <1>5, <1>6, <2>1
  <1>9. h = "ecr" \/ h = "rzz"
    BY DEF NativeGates
  <1>b. Len(m) - 1 = 44
    BY <1>5
  <1>10. Marks(m, h) = {i \in 1 .. 44 : m[i] = "gate" /\ m[i + 1] = h}
    BY <1>b DEF Marks
  <1>11. \A i \in 1 .. 44 : m[i] = "gate" /\ m[i + 1] = h <=> i = IF h = "ecr" THEN 1 ELSE 24
    <2>1. 1 + 1 = 2 /\ 24 + 1 = 25
      OBVIOUS
    <2>2. QED
      BY <1>7, <1>8, <1>9, <2>1
  <1>c. 1 \in 1 .. 44 /\ 24 \in 1 .. 44
    OBVIOUS
  <1>12. QED
    <2>1. PICK k \in 1 .. 44 : k = IF h = "ecr" THEN 1 ELSE 24
      BY <1>c
    <2>2. Marks(m, h) = {k}
      BY <1>10, <1>11, <2>1
    <2>3. QED
      BY <2>1, <2>2

\* Each gate is defined once, and no other.
LEMMA SuppliedOnce ==
  ASSUME NEW gates \in SUBSET NativeGates, NEW g \in NativeGates,
         NEW m, m = Supply(gates, "ecr") \o Supply(gates, "rzz")
  PROVE  Cardinality(Marks(m, g)) = IF g \in gates THEN 1 ELSE 0
  <1>1. "ecr" \in NativeGates /\ "rzz" \in NativeGates /\ (g = "ecr" \/ g = "rzz")
    BY DEF NativeGates
  <1>2. PICK e : e = Declaration["ecr"]
    OBVIOUS
  <1>3. PICK r : r = Declaration["rzz"]
    OBVIOUS
  <1>4. Defining(e, "ecr", 6, 23) /\ Defining(r, "rzz", 9, 22)
    BY <1>2, <1>3, EcrDefining, RzzDefining
  <1>5. << >> \o r = r /\ e \o << >> = e /\ << >> \o << >> = << >>
    <2>1. e \in Seq(ToSet(e)) /\ r \in Seq(ToSet(r))
      BY <1>4 DEF Defining
    <2>2. << >> \o r = r
      BY <2>1, ConcatEmptySeq
    <2>3. e \o << >> = e
      BY <2>1, ConcatEmptySeq
    <2>4. QED
      BY <2>2, <2>3
  <1>6. Cardinality({}) = 0 /\ Cardinality({1}) = 1 /\ Cardinality({24}) = 1
    BY FS_EmptySet, FS_Singleton
  <1>7. CASE "ecr" \in gates /\ "rzz" \in gates
    <2>1. m = e \o r
      BY <1>2, <1>3, <1>7 DEF Supply
    <2>2. Marks(m, g) = IF g = "ecr" THEN {1} ELSE {24}
      BY <1>2, <1>3, <2>1, MarksTwo
    <2>3. QED
      BY <1>1, <1>6, <1>7, <2>2
  <1>8. CASE "ecr" \in gates /\ "rzz" \notin gates
    <2>1. m = e
      BY <1>2, <1>5, <1>8 DEF Supply
    <2>2. Marks(e, g) = IF g = "ecr" THEN {1} ELSE {}
      BY <1>1, <1>4, MarksOne
    <2>3. QED
      BY <1>1, <1>6, <1>8, <2>1, <2>2
  <1>9. CASE "ecr" \notin gates /\ "rzz" \in gates
    <2>1. m = r
      BY <1>3, <1>5, <1>9 DEF Supply
    <2>2. Marks(r, g) = IF g = "rzz" THEN {1} ELSE {}
      BY <1>1, <1>4, MarksOne
    <2>3. QED
      BY <1>1, <1>6, <1>9, <2>1, <2>2
  <1>10. CASE "ecr" \notin gates /\ "rzz" \notin gates
    <2>1. m = << >>
      BY <1>5, <1>10 DEF Supply
    <2>2. Len(<< >>) = 0 /\ 1 .. 0 - 1 = {}
      OBVIOUS
    <2>3. Marks(m, g) = {}
      BY <2>1, <2>2 DEF Marks
    <2>4. QED
      BY <1>1, <1>6, <1>10, <2>3
  <1>11. QED
    BY <1>7, <1>8, <1>9, <1>10

Around(x, m, f, k, l, T) ==
  /\ m \in Seq(T) /\ f \in Seq(T) /\ k \in Nat /\ l \in Nat /\ k = Len(m) /\ l = Len(f)
  /\ \A i \in 1 .. k : x[4 + i] = m[i]
  /\ \A i \in 1 .. l : x[(4 + k) + i] = f[i]

\* The parts around the fourth token.
LEMMA AroundParts ==
  ASSUME NEW x, NEW m, NEW f, NEW k, NEW l, NEW T, Around(x, m, f, k, l, T)
  PROVE  SubSeq(x, 5, 4 + k) = m /\ SubSeq(x, 5 + k, 4 + (k + l)) = f
  <1>0. /\ m \in Seq(T) /\ f \in Seq(T) /\ k \in Nat /\ l \in Nat /\ k = Len(m) /\ l = Len(f)
        /\ \A i \in 1 .. k : x[4 + i] = m[i]
        /\ \A i \in 1 .. l : x[(4 + k) + i] = f[i]
    BY DEF Around
  <1>n. k \in Nat /\ l \in Nat
    BY <1>0
  <1>1. SubSeq(x, 5, 4 + k) = m
    <2>1. PICK a \in Nat : a = 4
      OBVIOUS
    <2>2. m \in Seq(T) /\ Shown(x, a, m)
      BY <1>0, <2>1 DEF Shown
    <2>3. SubSeq(x, a + 1, a + Len(m)) = m
      BY <2>2, PartShown
    <2>4. QED
      BY <1>0, <2>1, <2>3
  <1>2. SubSeq(x, 5 + k, 4 + (k + l)) = f
    <2>1. PICK a \in Nat : a = 4 + k
      BY <1>n
    <2>2. f \in Seq(T) /\ Shown(x, a, f)
      BY <1>0, <2>1 DEF Shown
    <2>3. SubSeq(x, a + 1, a + Len(f)) = f
      BY <2>2, PartShown
    <2>4. a + 1 = 5 + k /\ a + l = 4 + (k + l) /\ l = Len(f)
      BY <1>0, <2>1
    <2>5. QED
      BY <2>3, <2>4
  <1>3. QED
    BY <1>1, <1>2

Strings3(h, m, f, T) == h \in Seq(T) /\ m \in Seq(T) /\ f \in Seq(T) /\ Len(h) = 4

Joined(x, y, h, m, f, T) == Strings3(h, m, f, T) /\ x = h \o (m \o f) /\ y = h \o f

Split(x, y, h, m, f) ==
  /\ Len(x) - Len(y) = Len(m) /\ Len(m) \in Nat
  /\ SubSeq(x, 1, 4) = h
  /\ SubSeq(x, 5, 4 + Len(m)) = m
  /\ SubSeq(x, 5 + Len(m), Len(x)) = f

\* What is supplied, and what is around it.
LEMMA AroundSupply ==
  ASSUME NEW T, NEW h, NEW m, NEW f, NEW x, NEW y, Joined(x, y, h, m, f, T)
  PROVE  Split(x, y, h, m, f)
  <1>0. Strings3(h, m, f, T) /\ x = h \o (m \o f) /\ y = h \o f
    BY DEF Joined
  <1>1. h \in Seq(T) /\ m \in Seq(T) /\ f \in Seq(T)
    BY <1>0 DEF Strings3
  <1>2. Len(h) = 4
    BY <1>0 DEF Strings3
  <1>3. Len(m) \in Nat /\ Len(f) \in Nat
    BY <1>1, LenProperties
  <1>4. PICK z : z = m \o f
    OBVIOUS
  <1>5. /\ z \in Seq(T) /\ Len(z) = Len(m) + Len(f)
        /\ \A i \in 1 .. Len(m) : z[i] = m[i]
        /\ \A i \in 1 .. Len(f) : z[Len(m) + i] = f[i]
    BY <1>1, <1>4, ConcatAt
  <1>6. x = h \o z
    BY <1>0, <1>4
  <1>7. z \in Seq(T)
    BY <1>5
  <1>8. /\ x \in Seq(T) /\ Len(x) = Len(h) + Len(z)
        /\ \A i \in 1 .. Len(z) : x[Len(h) + i] = z[i]
    BY <1>1, <1>6, <1>7, ConcatAt
  <1>9. Len(y) = Len(h) + Len(f)
    BY <1>0, <1>1, ConcatAt
  <1>10. SubSeq(x, 1, Len(h)) = h
    BY <1>1, <1>6, <1>7, JoinParts
  <1>11. PICK k \in Nat : k = Len(m)
    BY <1>3
  <1>12. PICK l \in Nat : l = Len(f)
    BY <1>3
  <1>13. /\ Len(z) = k + l /\ Len(x) = 4 + (k + l) /\ Len(y) = 4 + l
         /\ \A i \in 1 .. k + l : x[4 + i] = z[i]
    BY <1>2, <1>5, <1>8, <1>9, <1>11, <1>12
  <1>14. \A i \in 1 .. k : x[4 + i] = m[i] /\ m[i] \in T
    <2>1. \A i \in 1 .. k : m[i] \in T
      BY <1>1, <1>11, ElementOfSeq
    <2>2. \A i \in 1 .. k : i \in 1 .. k + l
      OBVIOUS
    <2>3. QED
      BY <1>5, <1>11, <1>13, <2>1, <2>2
  <1>15. \A i \in 1 .. l : x[(4 + k) + i] = f[i] /\ f[i] \in T
    <2>1. \A i \in 1 .. l : f[i] \in T
      BY <1>1, <1>12, ElementOfSeq
    <2>2. \A i \in 1 .. l : k + i \in 1 .. k + l /\ 4 + (k + i) = (4 + k) + i
      OBVIOUS
    <2>3. \A i \in 1 .. l : z[k + i] = f[i]
      BY <1>5, <1>11, <1>12
    <2>4. QED
      BY <1>13, <2>1, <2>2, <2>3
  <1>16. Around(x, m, f, k, l, T)
    BY <1>1, <1>11, <1>12, <1>14, <1>15 DEF Around
  <1>17. SubSeq(x, 5, 4 + k) = m /\ SubSeq(x, 5 + k, 4 + (k + l)) = f
    BY <1>16, AroundParts, Zenon
  <1>18. Len(x) - Len(y) = k
    BY <1>13
  <1>19. QED
    BY <1>2, <1>3, <1>10, <1>11, <1>13, <1>17, <1>18 DEF Split

-----------------------------------------------------------------------------
(* What is sent *)

\* The head, what is supplied, and the body.
LEMMA SentParts ==
  ASSUME NEW s, NEW n, IsWritten(s, n), NEW m,
         m = Supply(Needed(s), "ecr") \o Supply(Needed(s), "rzz")
  PROVE  /\ DeclareNativeGates(Text(s)) = HeadText(s) \o (m \o Body(s))
         /\ Text(s) = HeadText(s) \o Body(s)
         /\ \E T : Strings3(HeadText(s), m, Body(s), T)
  <1>1. PICK a : a = Supply(Needed(s), "ecr")
    OBVIOUS
  <1>2. PICK b : b = Supply(Needed(s), "rzz")
    OBVIOUS
  <1>3. PICK h : h = HeadText(s)
    OBVIOUS
  <1>4. PICK f : f = Body(s)
    OBVIOUS
  <1>5. /\ DeclareNativeGates(Text(s)) = h \o (a \o (b \o f)) /\ Len(h) = 4
        /\ \E T : h \in Seq(T) /\ a \in Seq(T) /\ b \in Seq(T) /\ f \in Seq(T)
    BY <1>1, <1>2, <1>3, <1>4, DeclaredText
  <1>6. PICK T : h \in Seq(T) /\ a \in Seq(T) /\ b \in Seq(T) /\ f \in Seq(T)
    BY <1>5
  <1>7. PICK x : Catenates(x, a, b)
    BY DEF Catenates
  <1>8. PICK y : Catenates(y, b, f)
    BY DEF Catenates
  <1>9. PICK z : Catenates(z, x, f)
    BY DEF Catenates
  <1>16. Catenates(z, a, y)
    BY <1>6, <1>7, <1>8, <1>9, JoinThree
  <1>10. x \in Seq(T)
    BY <1>6, <1>7, ConcatProperties DEF Catenates
  <1>11. m = x
    BY <1>1, <1>2, <1>7, Zenon DEF Catenates
  <1>12. Text(s) = h \o f
    BY <1>3, <1>4, TextParts
  <1>13. Strings3(h, m, f, T)
    BY <1>5, <1>6, <1>10, <1>11 DEF Strings3
  <1>14. DeclareNativeGates(Text(s)) = h \o (m \o f)
    BY <1>5, <1>8, <1>9, <1>11, <1>16, Zenon DEF Catenates
  <1>15. QED
    BY <1>3, <1>4, <1>12, <1>13, <1>14

\* The native gates of what was sent are declared.
LEMMA NativeGatesFollow ==
  ASSUME IsProgram(source), source.format = "QASM3", Documented(source),
         payload = DeclareNativeGates(Text(source))
  PROVE  NativeGatesDeclared
  <1>1. PICK n : IsWritten(source, n)
    BY ProgramsWritten
  <1>2. AllSupported(source)
    BY Zenon DEF Documented, AllSupported
  <1>3. PICK m : m = Supply(Needed(source), "ecr") \o Supply(Needed(source), "rzz")
    OBVIOUS
  <1>4. PICK x : x = payload
    OBVIOUS
  <1>5. PICK y : y = Text(source)
    OBVIOUS
  <1>6. PICK h : h = HeadText(source)
    OBVIOUS
  <1>7. PICK f : f = Body(source)
    OBVIOUS
  <1>8. x = h \o (m \o f) /\ y = h \o f /\ \E T : Strings3(h, m, f, T)
    BY <1>1, <1>3, <1>4, <1>5, <1>6, <1>7, SentParts
  <1>9. PICK T : Strings3(h, m, f, T)
    BY <1>8
  <1>10. /\ Len(x) - Len(y) = Len(m) /\ Len(m) \in Nat
         /\ SubSeq(x, 1, 4) = h
         /\ SubSeq(x, 5, 4 + Len(m)) = m
         /\ SubSeq(x, 5 + Len(m), Len(x)) = f
    <2>1. Joined(x, y, h, m, f, T)
      BY <1>8, <1>9, Zenon DEF Joined
    <2>2. Split(x, y, h, m, f)
      BY <2>1, AroundSupply
    <2>3. QED
      BY <2>2, Zenon DEF Split
  <1>11. PICK added : added = Len(x) - Len(y)
    OBVIOUS
  <1>12. added = Len(m)
    BY <1>10, <1>11
  <1>13. SubSeq(x, 5, 4 + added) = m
    BY <1>10, <1>12
  <1>14. y = SubSeq(x, 1, 4) \o SubSeq(x, 5 + added, Len(x))
    BY <1>8, <1>10, <1>12
  <1>15. ASSUME NEW g \in NativeGates
         PROVE  Cardinality({i \in 1 .. added - 1 : m[i] = "gate" /\ m[i + 1] = g})
                   = IF Called(source, g) /\ ~Defined(source, g) THEN 1 ELSE 0
    <2>1. Needed(source) = {gate \in NativeGates : Called(source, gate) /\ ~Defined(source, gate)}
      BY <1>1, <1>2, NeededIs
    <2>2. Needed(source) \in SUBSET NativeGates
      BY DEF Needed
    <2>3. Cardinality(Marks(m, g)) = IF g \in Needed(source) THEN 1 ELSE 0
      BY <1>3, <2>2, SuppliedOnce
    <2>4. Marks(m, g) = {i \in 1 .. added - 1 : m[i] = "gate" /\ m[i + 1] = g}
      BY <1>12 DEF Marks
    <2>5. g \in Needed(source) <=> Called(source, g) /\ ~Defined(source, g)
      BY <2>1, Zenon
    <2>6. QED
      BY <2>3, <2>4, <2>5
  <1>16. OutputRegisters(x) = OutputRegisters(y)
    BY <1>4, <1>5, SentMeans DEF Read
  <1>17. DeclareNativeGates(x) = x
    BY <1>1, <1>2, <1>4, SentComplete
  <1>18. QED
    BY <1>4, <1>5, <1>11, <1>13, <1>14, <1>15, <1>16, <1>17, ZenonT(60)
       DEF NativeGatesDeclared, Called, Defined

\* One definition is supplied of each native gate that is called and not defined,
\* and of no other; what was written stays, and declaring again changes nothing.
THEOREM NativeGatesAreDeclared == Spec => []NativeGatesDeclared
  <1>1. ResultsInv /\ RegistersInv /\ [Next]_vars => (ResultsInv /\ RegistersInv)'
    BY ResultsInvNext, RegistersInvNext
  <1>2. Init => ResultsInv /\ RegistersInv
    BY ResultsInvInit, RegistersInvInit
  <1>3. RegistersInv => NativeGatesDeclared
    <2> SUFFICES ASSUME RegistersInv, payload # None, source.format = "QASM3"
                 PROVE  NativeGatesDeclared
      BY Zenon DEF NativeGatesDeclared
    <2>1. stage \in {"submitted", "retrieved", "measured", "done"}
      BY DEF RegistersInv
    <2>2. payload = DeclareNativeGates(Text(source)) /\ IsProgram(source)
      BY <2>1 DEF RegistersInv
    <2>3. Documented(source)
      BY <2>1 DEF RegistersInv, RegistersAsDeclared, Meant
    <2>4. QED
      BY <2>2, <2>3, NativeGatesFollow
  <1>4. QED
    BY <1>1, <1>2, <1>3, PTL DEF Spec
=============================================================================
