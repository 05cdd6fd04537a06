------------------------ MODULE RequestSigningProofs ------------------------
(***************************************************************************)
(* Theorems about RequestSigning, for every set of credentials, headers,   *)
(* URLs and key candidates.                                                *)
(***************************************************************************)
EXTENDS RequestSigning, SequenceTheorems, WellFoundedInduction, TLAPS

-----------------------------------------------------------------------------
(* Induction over indices, for one set of indices at a time, and functions  *)
(* that are defined by recursion on an index.                               *)

LEMMA LeastElement ==
    ASSUME NEW T \in SUBSET Nat, T # {}
    PROVE  \E x \in T : \A y \in T : x <= y
<1> DEFINE R == OpToRel(<, Nat)
<1>1. IsWellFoundedOn(R, Nat)
  BY NatLessThanWellFounded
<1>2. \A x, y \in Nat : y < x => <<y, x>> \in R
  BY DEF OpToRel
<1> HIDE DEF R
<1>3. PICK x \in T : \A y \in T : ~(<<y, x>> \in R)
  BY <1>1, WFMin
<1>4. ASSUME NEW y \in T PROVE x <= y
  <2>1. x \in Nat /\ y \in Nat /\ ~(y < x)
    BY <1>2, <1>3
  <2> QED
    BY <2>1
<1> QED
  BY <1>4

LEMMA FromTo ==
    ASSUME NEW a \in Nat, NEW n \in Nat, NEW T, a \in T,
           \A i \in (a + 1)..n : i - 1 \in T => i \in T
    PROVE  \A i \in a..n : i \in T
<1> DEFINE U == {i \in a..n : i \notin T}
<1> SUFFICES ASSUME U # {} PROVE FALSE
  OBVIOUS
<1>1. PICK x \in U : \A y \in U : x <= y
  <2>1. U \in SUBSET Nat
    OBVIOUS
  <2> HIDE DEF U
  <2> QED
    BY <2>1, LeastElement
<1>2. x \in (a + 1)..n
  BY <1>1
<1>3. x - 1 \in T
  BY <1>1, <1>2
<1> QED
  BY <1>1, <1>2, <1>3

LEMMA UpTo ==
    ASSUME NEW n \in Nat, NEW T, 0 \in T, \A i \in 1..n : i - 1 \in T => i \in T
    PROVE  \A i \in 0..n : i \in T
<1> DEFINE a == 0
<1>1. a \in Nat /\ a \in T /\ \A i \in (a + 1)..n : i - 1 \in T => i \in T
  OBVIOUS
<1> HIDE DEF a
<1>2. \A i \in a..n : i \in T
  BY <1>1, FromTo
<1> QED
  BY <1>2 DEF a

(* G is a step function for each index, and f follows it from v0 on. *)
Steps(G, a, n, V) == G \in [(a + 1)..n -> [V -> V]]

Recurs(f, a, n, V, v0, G) ==
    f \in [a..n -> V] /\ f[a] = v0 /\ \A i \in (a + 1)..n : f[i] = G[i][f[i - 1]]

LEMMA Recursion ==
    ASSUME NEW a \in Nat, NEW n \in Nat, a <= n, NEW V, NEW v0 \in V, NEW G, Steps(G, a, n, V)
    PROVE  \E f : Recurs(f, a, n, V, v0, G)
<1> USE DEF Steps
<1> DEFINE Follows(f, m) == \A i \in a..m : f[i] = IF i = a THEN v0 ELSE G[i][f[i - 1]]
           T == {m \in a..n : \E f \in [a..m -> V] : Follows(f, m)}
<1>1. a \in T
  <2> DEFINE f == [i \in a..a |-> v0]
  <2>1. f \in [a..a -> V] /\ Follows(f, a)
    OBVIOUS
  <2>2. a \in a..n
    OBVIOUS
  <2> HIDE DEF f
  <2> QED
    BY <2>1, <2>2
<1>2. ASSUME NEW m \in (a + 1)..n, m - 1 \in T PROVE m \in T
  <2>1. PICK f \in [a..(m - 1) -> V] : Follows(f, m - 1)
    BY <1>2
  <2> DEFINE g == [i \in a..m |-> IF i = m THEN G[m][f[m - 1]] ELSE f[i]]
  <2>2. f[m - 1] \in V /\ G[m][f[m - 1]] \in V
    OBVIOUS
  <2>3. g \in [a..m -> V]
    BY <2>2
  <2>4. ASSUME NEW i \in a..m PROVE g[i] = IF i = a THEN v0 ELSE G[i][g[i - 1]]
    <3>1. CASE i = m
      BY <3>1
    <3>2. CASE i # m
      <4>1. i \in a..(m - 1) /\ (i # a => i - 1 \in a..(m - 1) /\ i - 1 # m /\ i - 1 \in a..m)
        BY <3>2
      <4> QED
        BY <2>1, <3>2, <4>1
    <3> QED
      BY <3>1, <3>2
  <2> HIDE DEF g
  <2> QED
    BY <2>3, <2>4
<1>3. n \in T
  <2> HIDE DEF T
  <2>1. \A i \in a..n : i \in T
    BY <1>1, <1>2, FromTo
  <2> QED
    BY <2>1
<1>4. PICK f \in [a..n -> V] : Follows(f, n)
  BY <1>3
<1>5. f[a] = v0 /\ \A i \in (a + 1)..n : f[i] = G[i][f[i - 1]]
  BY <1>4
<1> QED
  BY <1>5 DEF Recurs

LEMMA RecursionFromZero ==
    ASSUME NEW n \in Nat, NEW V, NEW v0 \in V, NEW G, Steps(G, 0, n, V)
    PROVE  \E f : Recurs(f, 0, n, V, v0, G)
<1> DEFINE a == 0
<1>1. a \in Nat /\ a <= n /\ Steps(G, a, n, V)
  OBVIOUS
<1> HIDE DEF a
<1>2. \E f : Recurs(f, a, n, V, v0, G)
  BY <1>1, Recursion
<1> QED
  BY <1>2 DEF a

-----------------------------------------------------------------------------
(* Numbers. *)

Numbers(bytes) ==
    CHOOSE n : n = [i \in 0..Len(bytes) |-> IF i = 0 THEN 0 ELSE 256 * n[i - 1] + bytes[i]]

LEMMA NumberIsLast == ASSUME NEW bytes PROVE Number(bytes) = Numbers(bytes)[Len(bytes)]
  BY DEF Number, Numbers

LEMMA NextNumber == ASSUME NEW v \in Nat, NEW b \in Byte PROVE 256 * v + b \in Nat
  BY DEF Byte

LEMMA NumbersStep ==
    ASSUME NEW bytes \in Seq(Byte)
    PROVE  /\ Numbers(bytes) \in [0..Len(bytes) -> Nat]
           /\ Numbers(bytes)[0] = 0
           /\ \A i \in 1..Len(bytes) : Numbers(bytes)[i] = 256 * Numbers(bytes)[i - 1] + bytes[i]
<1> DEFINE n == Len(bytes)
           G == [i \in 1..n |-> [v \in Nat |-> 256 * v + bytes[i]]]
           Def(f) == [i \in 0..n |-> IF i = 0 THEN 0 ELSE 256 * f[i - 1] + bytes[i]]
<1>1. n \in Nat /\ \A i \in 1..n : bytes[i] \in Byte
  OBVIOUS
<1>2. G \in [1..n -> [Nat -> Nat]]
  <2>1. \A i \in 1..n, v \in Nat : 256 * v + bytes[i] \in Nat
    BY <1>1, NextNumber
  <2> QED
    BY <2>1
<1>3. PICK f \in [0..n -> Nat] : f[0] = 0 /\ \A i \in 1..n : f[i] = G[i][f[i - 1]]
  <2> HIDE DEF G, n
  <2>1. n \in Nat /\ Steps(G, 0, n, Nat)
    BY <1>1, <1>2 DEF Steps
  <2>2. \E f : Recurs(f, 0, n, Nat, 0, G)
    BY <2>1, RecursionFromZero
  <2>3. PICK f : Recurs(f, 0, n, Nat, 0, G)
    BY <2>2
  <2>4. f \in [0..n -> Nat] /\ f[0] = 0 /\ \A i \in 1..n : f[i] = G[i][f[i - 1]]
    BY <2>3 DEF Recurs
  <2> QED
    BY <2>4
<1>4. f = Def(f)
  <2>1. ASSUME NEW i \in 1..n PROVE f[i] = 256 * f[i - 1] + bytes[i]
    <3>1. i - 1 \in 0..n /\ f[i - 1] \in Nat
      BY <1>1, <2>1
    <3> QED
      BY <1>3, <3>1
  <2>2. ASSUME NEW i \in 0..n PROVE f[i] = IF i = 0 THEN 0 ELSE 256 * f[i - 1] + bytes[i]
    BY <1>1, <1>3, <2>1
  <2> HIDE DEF G, n
  <2> QED
    BY <2>2
<1>5. Numbers(bytes) = Def(Numbers(bytes))
  BY <1>4 DEF Numbers
<1> DEFINE N == Numbers(bytes)
<1>6. /\ N[0] = 0 /\ \A i \in 1..n : N[i] = 256 * N[i - 1] + bytes[i]
      /\ N = [i \in 0..n |-> N[i]]
  BY <1>1, <1>5
<1> HIDE DEF N
<1>7. \A i \in 0..n : N[i] \in Nat
  <2> DEFINE T == {i \in 0..n : N[i] \in Nat}
  <2>1. 0 \in T
    BY <1>1, <1>6
  <2>2. ASSUME NEW i \in 1..n, i - 1 \in T PROVE i \in T
    <3>1. i - 1 \in 0..n /\ N[i - 1] \in Nat /\ bytes[i] \in Byte /\ i \in 0..n
      BY <1>1, <2>2
    <3>2. N[i] = 256 * N[i - 1] + bytes[i]
      BY <1>6
    <3>3. N[i] \in Nat
      BY <3>1, <3>2, NextNumber
    <3> QED
      BY <3>1, <3>3
  <2> HIDE DEF T
  <2>3. \A i \in 0..n : i \in T
    BY <1>1, <2>1, <2>2, UpTo
  <2> QED
    BY <2>3 DEF T
<1> QED
  BY <1>6, <1>7 DEF N

(* The comparison: what the loop makes of one pair of bytes. *)
AndNot(a, b) == IF b = 1 THEN 0 ELSE a

Or(a, b) == IF a = 1 THEN 1 ELSE b

Compared(acc, a, b) ==
    LET xLarger == Or(acc.x, AndNot(Bit(b - a), acc.y))
    IN  [x |-> xLarger, y |-> Or(acc.y, AndNot(Bit(a - b), xLarger))]

Larger(x, y) ==
    CHOOSE f : f = [i \in 0..Len(x) |-> IF i = 0 THEN [x |-> 0, y |-> 0]
                                        ELSE Compared(f[i - 1], x[i], y[i])]

LEMMA CompareIsLast ==
    ASSUME NEW x, NEW y
    PROVE  ConstantTimeByteCompare(x, y) = Larger(x, y)[Len(x)].x - Larger(x, y)[Len(x)].y
  BY DEF ConstantTimeByteCompare, Larger, Compared, AndNot, Or

(* The sign bit of a difference of bytes. *)
LEMMA SignBit == ASSUME NEW a \in Byte, NEW b \in Byte PROVE Bit(a - b) = IF a < b THEN 1 ELSE 0
  BY DEF Byte, Bit

Flags == [x : {0, 1}, y : {0, 1}]

LEMMA ComparedFlags ==
    ASSUME NEW acc \in Flags, NEW a \in Byte, NEW b \in Byte
    PROVE  Compared(acc, a, b) \in Flags
<1>1. Bit(a - b) \in {0, 1} /\ Bit(b - a) \in {0, 1}
  BY SignBit
<1> QED
  BY <1>1 DEF Compared, AndNot, Or, Flags

LEMMA FlagsRecursion ==
    ASSUME NEW n \in Nat, NEW v0 \in Flags, NEW G \in [1..n -> [Flags -> Flags]]
    PROVE  \E f \in [0..n -> Flags] : f[0] = v0 /\ \A i \in 1..n : f[i] = G[i][f[i - 1]]
<1>1. Steps(G, 0, n, Flags)
  BY DEF Steps
<1>2. \E f : Recurs(f, 0, n, Flags, v0, G)
  BY <1>1, RecursionFromZero
<1> QED
  BY <1>2 DEF Recurs

LEMMA LargerStep ==
    ASSUME NEW x \in Seq(Byte), NEW y \in Seq(Byte), Len(y) = Len(x)
    PROVE  /\ Larger(x, y)[0] = [x |-> 0, y |-> 0]
           /\ \A i \in 1..Len(x) : Larger(x, y)[i] = Compared(Larger(x, y)[i - 1], x[i], y[i])
<1> DEFINE n == Len(x)
           v0 == [x |-> 0, y |-> 0]
           G == [i \in 1..n |-> [v \in Flags |-> Compared(v, x[i], y[i])]]
           Def(f) == [i \in 0..n |-> IF i = 0 THEN v0 ELSE Compared(f[i - 1], x[i], y[i])]
<1>1. n \in Nat /\ \A i \in 1..n : x[i] \in Byte /\ y[i] \in Byte
  OBVIOUS
<1>2. G \in [1..n -> [Flags -> Flags]]
  <2>1. \A i \in 1..n, v \in Flags : Compared(v, x[i], y[i]) \in Flags
    BY <1>1, ComparedFlags
  <2> QED
    BY <2>1
<1>3. v0 \in Flags
  BY DEF Flags
<1> HIDE DEF G, n, v0, Def
<1>4. PICK f \in [0..n -> Flags] : f[0] = v0 /\ \A i \in 1..n : f[i] = G[i][f[i - 1]]
  <2>1. n \in Nat
    BY <1>1
  <2> QED
    BY <2>1, <1>2, <1>3, FlagsRecursion
<1> USE DEF G, n, v0, Def
<1>5. f = Def(f)
  <2>1. ASSUME NEW i \in 1..n PROVE f[i] = Compared(f[i - 1], x[i], y[i])
    <3>1. i - 1 \in 0..n /\ f[i - 1] \in Flags
      BY <1>1, <2>1
    <3> QED
      BY <1>4, <3>1
  <2> HIDE DEF v0
  <2>2. ASSUME NEW i \in 0..n
        PROVE  f[i] = IF i = 0 THEN v0 ELSE Compared(f[i - 1], x[i], y[i])
    BY <1>1, <1>4, <2>1
  <2> HIDE DEF G, n
  <2> QED
    BY <2>2
<1>6. Larger(x, y) = Def(Larger(x, y))
  BY <1>5 DEF Larger
<1> HIDE DEF v0
<1>7. /\ Larger(x, y)[0] = v0
      /\ \A i \in 1..n : Larger(x, y)[i] = Compared(Larger(x, y)[i - 1], x[i], y[i])
  <2> DEFINE L == Larger(x, y)
  <2>1. L = Def(L)
    BY <1>6
  <2> HIDE DEF L
  <2>2. L[0] = v0 /\ \A i \in 1..n : L[i] = Compared(L[i - 1], x[i], y[i])
    BY <1>1, <2>1
  <2> QED
    BY <2>2 DEF L
<1> QED
  BY <1>7 DEF v0

(* A difference in an earlier byte outweighs what follows. *)
LEMMA ComparedNumbers ==
    ASSUME NEW n \in Nat, NEW m \in Nat, NEW a \in Byte, NEW b \in Byte,
           NEW acc \in Flags,
           acc.x = IF n > m THEN 1 ELSE 0, acc.y = IF n < m THEN 1 ELSE 0
    PROVE  LET r == Compared(acc, a, b)
           IN  /\ r.x = IF 256 * n + a > 256 * m + b THEN 1 ELSE 0
               /\ r.y = IF 256 * n + a < 256 * m + b THEN 1 ELSE 0
<1>1. Bit(a - b) = (IF a < b THEN 1 ELSE 0) /\ Bit(b - a) = (IF b < a THEN 1 ELSE 0)
  BY SignBit
<1>2. /\ 256 * n + a > 256 * m + b <=> n > m \/ (n = m /\ a > b)
      /\ 256 * n + a < 256 * m + b <=> n < m \/ (n = m /\ a < b)
  BY DEF Byte
<1>3. a \in Int /\ b \in Int
  BY DEF Byte
<1>4. /\ Compared(acc, a, b).x = IF n > m \/ (n = m /\ a > b) THEN 1 ELSE 0
      /\ Compared(acc, a, b).y = IF n < m \/ (n = m /\ a < b) THEN 1 ELSE 0
  BY <1>1, <1>3 DEF Compared, AndNot, Or
<1> QED
  BY <1>2, <1>4

(* ConstantTimeByteCompare, which decides by sign bits and without a branch *)
(* on any byte, compares big-endian numbers, whatever their length.         *)
THEOREM CompareIsNumeric ==
    ASSUME NEW x \in Seq(Byte), NEW y \in Seq(Byte), Len(y) = Len(x)
    PROVE  ConstantTimeByteCompare(x, y) = -1 <=> Number(x) < Number(y)
<1> DEFINE n == Len(x)
           X == Numbers(x)
           Y == Numbers(y)
           L == Larger(x, y)
           T == {i \in 0..n : /\ L[i] \in Flags
                              /\ L[i].x = IF X[i] > Y[i] THEN 1 ELSE 0
                              /\ L[i].y = IF X[i] < Y[i] THEN 1 ELSE 0}
<1>1. n \in Nat /\ \A i \in 1..n : x[i] \in Byte /\ y[i] \in Byte
  OBVIOUS
<1>2. /\ X \in [0..n -> Nat] /\ Y \in [0..n -> Nat] /\ X[0] = 0 /\ Y[0] = 0
      /\ \A i \in 1..n : X[i] = 256 * X[i - 1] + x[i] /\ Y[i] = 256 * Y[i - 1] + y[i]
  BY NumbersStep
<1>3. L[0] = [x |-> 0, y |-> 0] /\ \A i \in 1..n : L[i] = Compared(L[i - 1], x[i], y[i])
  BY LargerStep
<1> HIDE DEF X, Y, L, n
<1>4. 0 \in T
  BY <1>1, <1>2, <1>3 DEF Flags
<1>5. ASSUME NEW i \in 1..n, i - 1 \in T PROVE i \in T
  <2>1. i - 1 \in 0..n /\ i \in 0..n /\ X[i - 1] \in Nat /\ Y[i - 1] \in Nat
    BY <1>1, <1>2
  <2>2. /\ L[i - 1] \in Flags
        /\ L[i - 1].x = IF X[i - 1] > Y[i - 1] THEN 1 ELSE 0
        /\ L[i - 1].y = IF X[i - 1] < Y[i - 1] THEN 1 ELSE 0
    BY <1>5
  <2>3. x[i] \in Byte /\ y[i] \in Byte
    BY <1>1
  <2>4. L[i] \in Flags
    BY <1>3, <2>2, <2>3, ComparedFlags
  <2>5. /\ L[i].x = IF 256 * X[i - 1] + x[i] > 256 * Y[i - 1] + y[i] THEN 1 ELSE 0
        /\ L[i].y = IF 256 * X[i - 1] + x[i] < 256 * Y[i - 1] + y[i] THEN 1 ELSE 0
    <3> DEFINE acc == L[i - 1]
               p == X[i - 1]
               q == Y[i - 1]
               r == Compared(acc, x[i], y[i])
    <3>1. L[i] = r
      BY <1>3
    <3>2. /\ acc \in Flags /\ p \in Nat /\ q \in Nat
          /\ acc.x = IF p > q THEN 1 ELSE 0
          /\ acc.y = IF p < q THEN 1 ELSE 0
      BY <2>1, <2>2
    <3> HIDE DEF acc, p, q
    <3>3. /\ r.x = IF 256 * p + x[i] > 256 * q + y[i] THEN 1 ELSE 0
          /\ r.y = IF 256 * p + x[i] < 256 * q + y[i] THEN 1 ELSE 0
      BY <2>3, <3>2, ComparedNumbers
    <3> QED
      BY <3>1, <3>3 DEF p, q
  <2> QED
    BY <1>2, <2>1, <2>4, <2>5
<1> HIDE DEF T
<1>6. n \in T
  <2>1. \A i \in 0..n : i \in T
    BY <1>1, <1>4, <1>5, UpTo
  <2> QED
    BY <1>1, <2>1
<1>7. ConstantTimeByteCompare(x, y) = L[n].x - L[n].y /\ Number(x) = X[n] /\ Number(y) = Y[n]
  BY CompareIsLast, NumberIsLast DEF L, n, X, Y
<1>8. X[n] \in Nat /\ Y[n] \in Nat
  BY <1>1, <1>2
<1>9. /\ L[n].x = IF X[n] > Y[n] THEN 1 ELSE 0
      /\ L[n].y = IF X[n] < Y[n] THEN 1 ELSE 0
  BY <1>6 DEF T
<1> QED
  BY <1>7, <1>8, <1>9

-----------------------------------------------------------------------------
(* The derived key. *)

Derivations == [cred : Creds, counter : Nat, d : {None} \cup 1..Number(Order)]

KeyInv == kdf \in {None} \cup Derivations

LEMMA NumberIsNatural == ASSUME NEW bytes \in Seq(Byte) PROVE Number(bytes) \in Nat
<1>1. Len(bytes) \in 0..Len(bytes)
  OBVIOUS
<1>2. Numbers(bytes)[Len(bytes)] \in Nat
  BY <1>1, NumbersStep
<1> QED
  BY <1>2, NumberIsLast

LEMMA DerivedKey ==
    ASSUME NEW candidate \in Candidates, KeyInv, DeriveKey(candidate)
    PROVE  KeyInv'
<1>1. candidate \in Seq(Byte) /\ Order \in Seq(Byte) /\ Len(Order) = Len(candidate)
  BY ByteAssumption
<1>2. Number(candidate) \in Nat /\ Number(Order) \in Nat
  BY <1>1, NumberIsNatural
<1>3. kdf \in Derivations
  BY DEF KeyInv, DeriveKey
<1>4. CASE ConstantTimeByteCompare(candidate, Order) = -1
  <2>1. Number(candidate) < Number(Order)
    BY <1>1, <1>4, CompareIsNumeric
  <2>2. Number(candidate) + 1 \in 1..Number(Order)
    BY <1>2, <2>1
  <2>3. kdf' = [kdf EXCEPT !.d = Number(candidate) + 1]
    BY <1>4 DEF DeriveKey
  <2> QED
    BY <1>3, <2>2, <2>3 DEF KeyInv, Derivations
<1>5. CASE ConstantTimeByteCompare(candidate, Order) # -1
  <2>1. kdf' = None \/ kdf' = [kdf EXCEPT !.counter = @ + 1]
    BY <1>5 DEF DeriveKey
  <2> QED
    BY <1>3, <2>1 DEF KeyInv, Derivations
<1> QED
  BY <1>4, <1>5

LEMMA Deriving == Spec => []KeyInv
<1>1. Init => KeyInv
  BY DEF Init, KeyInv
<1>2. KeyInv /\ [Next]_vars => KeyInv'
  <2> SUFFICES ASSUME KeyInv, [Next]_vars PROVE KeyInv'
    OBVIOUS
  <2>1. ASSUME NEW c \in Creds, RetrievePrivateKey(c) PROVE KeyInv'
    BY <2>1 DEF RetrievePrivateKey, KeyInv, Derivations
  <2>2. ASSUME NEW candidate \in Candidates, DeriveKey(candidate) PROVE KeyInv'
    BY <2>2, DerivedKey
  <2>3. CASE kdf' = None \/ UNCHANGED kdf
    BY <2>3 DEF KeyInv, Derivations
  <2>4. [Next]_vars => \/ \E c \in Creds : RetrievePrivateKey(c)
                       \/ \E candidate \in Candidates : DeriveKey(candidate)
                       \/ kdf' = None \/ UNCHANGED kdf
    BY DEF Next, vars, SignHTTP, SignV4a, NewRequest, AddHeader, PresignHTTP, Tick
  <2> QED
    BY <2>1, <2>2, <2>3, <2>4
<1> QED
  BY <1>1, <1>2, PTL DEF Spec

(* KeyInRange, whatever the candidates and the length of the order: a       *)
(* derived private key is at least one and at most the order less two.      *)
THEOREM DerivedKeyInRange == Spec => []KeyInRange
<1>1. KeyInv => KeyInRange
  BY DEF KeyInv, KeyInRange, Derivations
<1> QED
  BY <1>1, Deriving, PTL

-----------------------------------------------------------------------------
(* Trimming. *)

LEMMA MinIsLeast ==
    ASSUME NEW S \in SUBSET Nat, S # {}
    PROVE  Min(S) \in S /\ \A y \in S : Min(S) <= y
<1>1. \E x \in S : \A y \in S : x <= y
  BY LeastElement
<1> QED
  BY <1>1 DEF Min

LEMMA MaxIsGreatest ==
    ASSUME NEW n \in Nat, NEW S \in SUBSET (0..n), S # {}
    PROVE  Max(S) \in S /\ \A y \in S : Max(S) >= y
<1> DEFINE T == {n - x : x \in S}
<1>1. T \in SUBSET Nat
  OBVIOUS
<1>2. T # {}
  OBVIOUS
<1>3. PICK m \in T : \A y \in T : m <= y
  <2> HIDE DEF T
  <2> QED
    BY <1>1, <1>2, LeastElement
<1>4. PICK x \in S : m = n - x
  BY <1>3
<1>5. ASSUME NEW y \in S PROVE x >= y
  <2>1. n - x <= n - y
    BY <1>3, <1>4
  <2>2. x \in Int /\ y \in Int
    OBVIOUS
  <2> QED
    BY <2>1, <2>2
<1>6. \E z \in S : \A y \in S : z >= y
  BY <1>5
<1> QED
  BY <1>6 DEF Max

(* All but the positions from p to q are white, and these two are not. *)
Ends(s, p, q) ==
    /\ p \in 1..Len(s) /\ q \in 1..Len(s) /\ p <= q
    /\ s[p] \notin White /\ s[q] \notin White
    /\ \A i \in 1..Len(s) : i < p \/ i > q => s[i] \in White

AllWhite(s) == \A i \in 1..Len(s) : s[i] \in White

LEMMA TrimSpaceOfWhite ==
    ASSUME NEW s, AllWhite(s)
    PROVE  TrimSpace(s) = <<>>
  BY DEF AllWhite, TrimSpace

NonWhite(s) == {i \in 1..Len(s) : s[i] \notin White}

LEMMA NonWhiteBounds ==
    ASSUME NEW s \in Seq(STRING), NonWhite(s) # {}
    PROVE  /\ Min(NonWhite(s)) \in NonWhite(s) /\ Max(NonWhite(s)) \in NonWhite(s)
           /\ \A i \in NonWhite(s) : Min(NonWhite(s)) <= i /\ i <= Max(NonWhite(s))
<1>1. Len(s) \in Nat
  OBVIOUS
<1>2. NonWhite(s) \in SUBSET (0..Len(s))
  BY <1>1 DEF NonWhite
<1>3. NonWhite(s) \in SUBSET Nat
  BY <1>1, <1>2
<1>4. Min(NonWhite(s)) \in NonWhite(s) /\ \A i \in NonWhite(s) : Min(NonWhite(s)) <= i
  BY <1>3, MinIsLeast
<1>5. Max(NonWhite(s)) \in NonWhite(s) /\ \A i \in NonWhite(s) : Max(NonWhite(s)) >= i
  BY <1>1, <1>2, MaxIsGreatest
<1> QED
  BY <1>3, <1>4, <1>5

LEMMA TrimSpaceIs ==
    ASSUME NEW s \in Seq(STRING), NEW p, NEW q, Ends(s, p, q)
    PROVE  TrimSpace(s) = SubSeq(s, p, q)
<1>1. Len(s) \in Nat /\ p \in 1..Len(s) /\ q \in 1..Len(s)
  BY DEF Ends
<1>2. p \in NonWhite(s) /\ q \in NonWhite(s)
  BY DEF Ends, NonWhite
<1>3. ASSUME NEW i \in NonWhite(s) PROVE i \in Int /\ p <= i /\ i <= q
  BY <1>1, <1>3 DEF Ends, NonWhite
<1>4. TrimSpace(s) = SubSeq(s, Min(NonWhite(s)), Max(NonWhite(s)))
  BY <1>2 DEF TrimSpace, NonWhite
<1>5. Min(NonWhite(s)) = p /\ Max(NonWhite(s)) = q
  <2> DEFINE a == Min(NonWhite(s))
             b == Max(NonWhite(s))
  <2>1. a \in NonWhite(s) /\ b \in NonWhite(s) /\ a <= p /\ q <= b
    BY <1>2, NonWhiteBounds
  <2> HIDE DEF a, b
  <2>2. a \in Int /\ b \in Int /\ p <= a /\ b <= q
    BY <1>3, <2>1
  <2>3. a = p /\ b = q
    BY <1>1, <2>1, <2>2
  <2> QED
    BY <2>3 DEF a, b
<1> QED
  BY <1>4, <1>5

LEMMA WhiteOrEnds ==
    ASSUME NEW s \in Seq(STRING)
    PROVE  AllWhite(s) \/ \E p, q : Ends(s, p, q)
<1>1. CASE NonWhite(s) = {}
  BY <1>1 DEF NonWhite, AllWhite
<1>2. CASE NonWhite(s) # {}
  <2> DEFINE a == Min(NonWhite(s))
             b == Max(NonWhite(s))
  <2>1. /\ a \in NonWhite(s) /\ b \in NonWhite(s)
        /\ \A i \in NonWhite(s) : a <= i /\ i <= b
    BY <1>2, NonWhiteBounds
  <2> HIDE DEF a, b
  <2>2. a \in 1..Len(s) /\ b \in 1..Len(s) /\ a <= b /\ s[a] \notin White /\ s[b] \notin White
    BY <2>1 DEF NonWhite
  <2>3. ASSUME NEW i \in 1..Len(s), i < a \/ i > b PROVE s[i] \in White
    <3>1. i \notin NonWhite(s)
      BY <2>1, <2>2, <2>3
    <3> QED
      BY <3>1 DEF NonWhite
  <2>4. Ends(s, a, b)
    BY <2>2, <2>3 DEF Ends
  <2> QED
    BY <2>4
<1> QED
  BY <1>1, <1>2

(* Where the loop that skips leading spaces ends. *)
Stops(s, j, i) ==
    /\ i >= j \/ s[i] # Space
    /\ \A h \in 1..(i - 1) : h < j /\ s[h] = Space

LEMMA LoopStops ==
    ASSUME NEW s \in Seq(STRING), NEW j \in 0..Len(s)
    PROVE  \E i \in 1..(Len(s) + 1) : Stops(s, j, i)
<1> DEFINE K == {i \in 1..(Len(s) + 1) : i >= j \/ s[i] # Space}
<1>1. Len(s) \in Nat /\ j \in Nat
  OBVIOUS
<1>2. K \in SUBSET Nat
  BY <1>1
<1>3. Len(s) + 1 \in K
  BY <1>1
<1>4. PICK i \in K : \A y \in K : i <= y
  <2> HIDE DEF K
  <2> QED
    BY <1>2, <1>3, LeastElement
<1>5. i \in 1..(Len(s) + 1) /\ (i >= j \/ s[i] # Space)
  OBVIOUS
<1>6. \A h \in 1..(Len(s) + 1) : h \notin K => ~(h >= j) /\ s[h] = Space
  OBVIOUS
<1> HIDE DEF K
<1>7. ASSUME NEW h \in 1..(i - 1) PROVE h < j /\ s[h] = Space
  <2>1. h \in 1..(Len(s) + 1) /\ h \in Nat /\ ~(i <= h)
    BY <1>1, <1>5
  <2>2. h \notin K
    BY <1>4, <2>1
  <2> QED
    BY <1>1, <1>6, <2>1, <2>2
<1> QED
  BY <1>5, <1>7 DEF Stops

NonSpaces(s) == {0} \cup {i \in 1..Len(s) : s[i] # Space}

LEMMA LastNonSpace ==
    ASSUME NEW s \in Seq(STRING)
    PROVE  /\ Max(NonSpaces(s)) \in 0..Len(s)
           /\ \A i \in 1..Len(s) : i > Max(NonSpaces(s)) => s[i] = Space
<1>1. Len(s) \in Nat
  OBVIOUS
<1>2. NonSpaces(s) \in SUBSET (0..Len(s))
  BY <1>1 DEF NonSpaces
<1>3. 0 \in NonSpaces(s)
  BY DEF NonSpaces
<1>4. \A i \in 1..Len(s) : s[i] # Space => i \in NonSpaces(s)
  BY DEF NonSpaces
<1> DEFINE j == Max(NonSpaces(s))
<1>5. j \in NonSpaces(s) /\ \A y \in NonSpaces(s) : j >= y
  BY <1>1, <1>2, <1>3, MaxIsGreatest
<1> HIDE DEF j
<1>6. j \in 0..Len(s)
  BY <1>2, <1>5
<1>7. \A i \in 1..Len(s) : i > j => s[i] = Space
  BY <1>1, <1>4, <1>5, <1>6
<1> QED
  BY <1>6, <1>7 DEF j

(* StripExcessSpaces trims the spaces of both ends, and nothing else. *)
LEMMA TrimmedIs ==
    ASSUME NEW s \in Seq(STRING)
    PROVE  \E k \in 1..(Len(s) + 1), j \in 0..Len(s) :
              /\ Trimmed(s) = SubSeq(s, k, j)
              /\ \A i \in 1..Len(s) : i < k \/ i > j => s[i] = Space
<1> DEFINE j == Max(NonSpaces(s))
           k == CHOOSE i \in 1..(Len(s) + 1) : Stops(s, j, i)
<1>1. Trimmed(s) = SubSeq(s, k, j)
  BY DEF Trimmed, Stops, NonSpaces
<1>2. j \in 0..Len(s) /\ \A i \in 1..Len(s) : i > j => s[i] = Space
  BY LastNonSpace
<1> HIDE DEF j
<1>3. k \in 1..(Len(s) + 1) /\ Stops(s, j, k)
  BY <1>2, LoopStops
<1> HIDE DEF k
<1>4. Len(s) \in Nat
  OBVIOUS
<1>5. \A i \in 1..Len(s) : i < k => s[i] = Space
  BY <1>3, <1>4 DEF Stops
<1> QED
  BY <1>1, <1>2, <1>3, <1>5

LEMMA SpaceIsWhite == Space \in White
  BY Zenon DEF White

LEMMA SubSeqOfText ==
    ASSUME NEW s \in Seq(STRING), NEW i \in 1..Len(s), NEW j \in 1..Len(s),
           NEW m \in 1..(j - i + 1), NEW n \in 1..(j - i + 1)
    PROVE  SubSeq(SubSeq(s, i, j), m, n) = SubSeq(s, i + m - 1, i + n - 1)
  BY SubSeqOfSubSeq

LEMMA TrimSpaceOfTrimmed ==
    ASSUME NEW s \in Seq(STRING)
    PROVE  Trimmed(s) \in Seq(STRING) /\ TrimSpace(Trimmed(s)) = TrimSpace(s)
<1>1. PICK k \in 1..(Len(s) + 1), j \in 0..Len(s) :
              /\ Trimmed(s) = SubSeq(s, k, j)
              /\ \A i \in 1..Len(s) : i < k \/ i > j => s[i] = Space
  BY TrimmedIs
<1> DEFINE t == SubSeq(s, k, j)
<1>2. Len(s) \in Nat /\ \A i \in k..j : s[i] \in STRING
  OBVIOUS
<1>3. /\ t \in Seq(STRING)
      /\ Len(t) = IF k <= j THEN j - k + 1 ELSE 0
      /\ \A i \in 1..(j - k + 1) : t[i] = s[k + i - 1]
  BY <1>2, SubSeqProperties
<1> HIDE DEF t
<1>4. CASE AllWhite(s)
  <2>1. AllWhite(t)
    BY <1>2, <1>3, <1>4 DEF AllWhite
  <2> QED
    BY <1>1, <1>3, <1>4, <2>1, TrimSpaceOfWhite DEF t
<1>5. ASSUME NEW p, NEW q, Ends(s, p, q) PROVE TrimSpace(t) = TrimSpace(s)
  <2>1. p \in 1..Len(s) /\ q \in 1..Len(s) /\ p <= q /\ s[p] # Space /\ s[q] # Space
    BY <1>5, SpaceIsWhite DEF Ends
  <2>2. k <= p /\ q <= j
    BY <1>1, <1>2, <2>1
  <2> DEFINE a == p - k + 1
             b == q - k + 1
  <2>3. Len(t) = j - k + 1 /\ a \in 1..Len(t) /\ b \in 1..Len(t) /\ a <= b
    BY <1>2, <1>3, <2>1, <2>2
  <2>4. t[a] = s[p] /\ t[b] = s[q]
    <3>1. k + a - 1 = p /\ k + b - 1 = q
      BY <2>1
    <3> QED
      BY <1>3, <2>3, <3>1
  <2>5. ASSUME NEW i \in 1..Len(t), i < a \/ i > b PROVE t[i] \in White
    <3>1. t[i] = s[k + i - 1]
      BY <1>3, <2>3
    <3>2. k + i - 1 \in 1..Len(s) /\ (k + i - 1 < p \/ k + i - 1 > q)
      BY <1>2, <2>1, <2>3, <2>5
    <3> QED
      BY <1>5, <3>1, <3>2 DEF Ends
  <2> HIDE DEF a, b
  <2>6. Ends(t, a, b)
    BY <1>5, <2>3, <2>4, <2>5 DEF Ends
  <2>7. TrimSpace(t) = SubSeq(t, a, b)
    BY <1>3, <2>6, TrimSpaceIs
  <2>8. SubSeq(t, a, b) = SubSeq(s, p, q)
    <3>1. k + a - 1 = p /\ k + b - 1 = q /\ a \in 1..(j - k + 1) /\ b \in 1..(j - k + 1)
      BY <2>1, <2>3 DEF a, b
    <3>2. k \in 1..Len(s) /\ j \in 1..Len(s)
      BY <1>2, <2>1, <2>2
    <3> QED
      BY <3>1, <3>2, SubSeqOfText DEF t
  <2> QED
    BY <1>5, <2>7, <2>8, TrimSpaceIs
<1> QED
  BY <1>1, <1>3, <1>4, <1>5, WhiteOrEnds DEF t

-----------------------------------------------------------------------------
(* Runs of spaces. *)

Text == Seq(STRING)

(* What becomes of the text v before position i. *)
KeepStep(s, i, v) == IF i = 1 \/ s[i] # Space \/ s[i - 1] # Space THEN Append(v, s[i]) ELSE v

Keeps(s) ==
    CHOOSE kept : kept = [i \in 0..Len(s) |-> IF i = 0 THEN <<>> ELSE KeepStep(s, i, kept[i - 1])]

LEMMA CollapsedIsLast == ASSUME NEW s PROVE Collapsed(s) = Keeps(s)[Len(s)]
  BY DEF Collapsed, Keeps, KeepStep

LEMMA KeepStepIsText ==
    ASSUME NEW s \in Text, NEW i \in 1..Len(s), NEW v \in Text
    PROVE  KeepStep(s, i, v) \in Text
<1>1. s[i] \in STRING
  BY DEF Text
<1>2. Append(v, s[i]) \in Text
  BY <1>1 DEF Text
<1> QED
  BY <1>2 DEF KeepStep

LEMMA KeepsStep ==
    ASSUME NEW s \in Text
    PROVE  /\ Keeps(s) \in [0..Len(s) -> Text] /\ Keeps(s)[0] = <<>>
           /\ \A i \in 1..Len(s) : Keeps(s)[i] = KeepStep(s, i, Keeps(s)[i - 1])
<1> DEFINE n == Len(s)
           v0 == <<>>
           G == [i \in 1..n |-> [v \in Text |-> KeepStep(s, i, v)]]
           Def(f) == [i \in 0..n |-> IF i = 0 THEN v0 ELSE KeepStep(s, i, f[i - 1])]
<1>1. n \in Nat /\ v0 \in Text
  BY DEF Text
<1>2. \A i \in 1..n, v \in Text : KeepStep(s, i, v) \in Text
  BY KeepStepIsText
<1>3. Steps(G, 0, n, Text)
  BY <1>2 DEF Steps
<1> HIDE DEF v0
<1>4. PICK f : Recurs(f, 0, n, Text, v0, G)
  <2> HIDE DEF G, n, Def
  <2> QED
    BY <1>1, <1>3, RecursionFromZero
<1>5. f \in [0..n -> Text] /\ f[0] = v0 /\ \A i \in 1..n : f[i] = G[i][f[i - 1]]
  <2> HIDE DEF G, n, Def
  <2> QED
    BY <1>4 DEF Recurs
<1>6. f = Def(f)
  <2>1. ASSUME NEW i \in 1..n PROVE f[i] = KeepStep(s, i, f[i - 1])
    <3>1. i - 1 \in 0..n /\ f[i - 1] \in Text
      BY <1>1, <1>5
    <3> QED
      BY <1>5, <3>1
  <2>2. ASSUME NEW i \in 0..n PROVE f[i] = IF i = 0 THEN v0 ELSE KeepStep(s, i, f[i - 1])
    BY <1>1, <1>5, <2>1
  <2> HIDE DEF G, n
  <2> QED
    BY <1>5, <2>2
<1>7. Keeps(s) = Def(Keeps(s))
  BY <1>6 DEF Keeps, v0
<1> DEFINE K == Keeps(s)
<1>8. K = Def(K)
  BY <1>7
<1> HIDE DEF K
<1>9. /\ K[0] = v0 /\ K = [i \in 0..n |-> K[i]]
      /\ \A i \in 1..n : K[i] = KeepStep(s, i, K[i - 1])
  BY <1>1, <1>8
<1>10. \A i \in 0..n : K[i] \in Text
  <2> DEFINE T == {i \in 0..n : K[i] \in Text}
  <2>1. 0 \in T
    BY <1>1, <1>9
  <2>2. ASSUME NEW i \in 1..n, i - 1 \in T PROVE i \in T
    <3>1. K[i] = KeepStep(s, i, K[i - 1]) /\ K[i - 1] \in Text
      BY <1>9, <2>2
    <3>2. K[i] \in Text
      BY <1>2, <3>1
    <3> QED
      BY <3>2
  <2> HIDE DEF T
  <2>3. \A i \in 0..n : i \in T
    BY <1>1, <2>1, <2>2, UpTo
  <2> QED
    BY <2>3 DEF T
<1> QED
  BY <1>9, <1>10 DEF K, v0

LEMMA LongerPrefix ==
    ASSUME NEW t \in Text, NEW i \in 1..Len(t)
    PROVE  SubSeq(t, 1, i) = Append(SubSeq(t, 1, i - 1), t[i])
<1>1. t \in Seq(STRING) /\ Len(t) \in Nat /\ t[i] \in STRING
  BY DEF Text
<1>2. SubSeq(t, 1, i) = SubSeq(t, 1, i - 1) \o <<t[i]>>
  <2>1. 1 \in 1..Len(t) /\ i \in 1..Len(t)
    BY <1>1
  <2> QED
    BY <1>1, <2>1, SubSeqRecursiveSecond
<1>3. SubSeq(t, 1, i - 1) \in Seq(STRING)
  <2>1. \A h \in 1..(i - 1) : t[h] \in STRING
    BY <1>1
  <2>2. 1 \in Int /\ i - 1 \in Int
    OBVIOUS
  <2> QED
    BY <2>1, <2>2, SubSeqProperties
<1> QED
  BY <1>1, <1>2, <1>3, AppendIsConcat

(* Up to the first double space nothing is left out. *)
LEMMA KeepsPrefix ==
    ASSUME NEW t \in Text, NEW a \in 0..Len(t),
           \A i \in 2..a : t[i] # Space \/ t[i - 1] # Space
    PROVE  \A i \in 0..a : Keeps(t)[i] = SubSeq(t, 1, i)
<1> DEFINE T == {i \in 0..a : Keeps(t)[i] = SubSeq(t, 1, i)}
<1>1. Len(t) \in Nat /\ a \in Nat
  BY DEF Text
<1>2. 0 \in T
  <2>1. Keeps(t)[0] = <<>>
    BY KeepsStep
  <2>2. SubSeq(t, 1, 0) = <<>>
    BY SubSeqEmpty
  <2>3. 0 \in 0..a
    BY <1>1
  <2> QED
    BY <2>1, <2>2, <2>3
<1>3. ASSUME NEW i \in 1..a, i - 1 \in T PROVE i \in T
  <2>1. i \in 1..Len(t) /\ (i = 1 \/ i \in 2..a) /\ i \in 0..a
    BY <1>1
  <2>2. Keeps(t)[i] = KeepStep(t, i, Keeps(t)[i - 1])
    BY <2>1, KeepsStep
  <2>3. KeepStep(t, i, Keeps(t)[i - 1]) = Append(Keeps(t)[i - 1], t[i])
    BY <2>1 DEF KeepStep
  <2>4. Keeps(t)[i - 1] = SubSeq(t, 1, i - 1)
    BY <1>3
  <2>5. Keeps(t)[i] = SubSeq(t, 1, i)
    BY <2>1, <2>2, <2>3, <2>4, LongerPrefix
  <2> QED
    BY <2>1, <2>5
<1> HIDE DEF T
<1>4. \A i \in 0..a : i \in T
  BY <1>1, <1>2, <1>3, UpTo
<1> QED
  BY <1>4 DEF T

(* The loop of StripExcessSpaces, after the first a characters. *)
Copying == [buf : Text, spaces : Nat]

CopyStep(acc, ch) ==
    IF ch # Space THEN [buf |-> Append(acc.buf, ch), spaces |-> 0]
    ELSE [buf |-> IF acc.spaces = 0 THEN Append(acc.buf, ch) ELSE acc.buf,
          spaces |-> acc.spaces + 1]

Copies(t, a) ==
    CHOOSE copied : copied = [k \in a..Len(t) |->
        IF k = a THEN [buf |-> SubSeq(t, 1, k), spaces |-> 0] ELSE CopyStep(copied[k - 1], t[k])]

LEMMA StripsByCopying ==
    ASSUME NEW s, NEW t, t = Trimmed(s)
    PROVE  StripExcessSpaces(s) = IF DoubleSpaces(t) = {} THEN t
                                  ELSE Copies(t, Min(DoubleSpaces(t)) - 1)[Len(t)].buf
  BY DEF StripExcessSpaces, Copies, CopyStep

LEMMA CopyStepType ==
    ASSUME NEW acc \in Copying, NEW ch \in STRING
    PROVE  CopyStep(acc, ch) \in Copying
<1>1. acc.buf \in Text /\ acc.spaces \in Nat
  BY DEF Copying
<1>2. Append(acc.buf, ch) \in Text /\ acc.spaces + 1 \in Nat
  BY <1>1 DEF Text
<1> QED
  BY <1>1, <1>2 DEF CopyStep, Copying

LEMMA CopiesStep ==
    ASSUME NEW t \in Text, NEW a \in 0..Len(t)
    PROVE  /\ Copies(t, a)[a] = [buf |-> SubSeq(t, 1, a), spaces |-> 0]
           /\ \A k \in (a + 1)..Len(t) : Copies(t, a)[k] = CopyStep(Copies(t, a)[k - 1], t[k])
<1> DEFINE n == Len(t)
           v0 == [buf |-> SubSeq(t, 1, a), spaces |-> 0]
           G == [k \in (a + 1)..n |-> [v \in Copying |-> CopyStep(v, t[k])]]
           First(k) == [buf |-> SubSeq(t, 1, k), spaces |-> 0]
           Def(f) == [k \in a..n |-> IF k = a THEN First(k) ELSE CopyStep(f[k - 1], t[k])]
<1>1. n \in Nat /\ a \in Nat /\ a <= n /\ \A k \in (a + 1)..n : t[k] \in STRING
  BY DEF Text
<1>2. v0 \in Copying
  <2>1. SubSeq(t, 1, a) \in Text
    <3>1. \A i \in 1..a : t[i] \in STRING
      BY DEF Text
    <3> QED
      BY <1>1, <3>1, SubSeqProperties DEF Text
  <2> QED
    BY <2>1 DEF Copying
<1>3. \A k \in (a + 1)..n, v \in Copying : CopyStep(v, t[k]) \in Copying
  BY <1>1, CopyStepType
<1>4. Steps(G, a, n, Copying)
  BY <1>3 DEF Steps
<1>5. First(a) = v0
  OBVIOUS
<1> HIDE DEF v0, First
<1>6. PICK f : Recurs(f, a, n, Copying, v0, G)
  <2> HIDE DEF G, n, Def
  <2> QED
    BY <1>1, <1>2, <1>4, Recursion
<1>7. f \in [a..n -> Copying] /\ f[a] = v0 /\ \A k \in (a + 1)..n : f[k] = G[k][f[k - 1]]
  <2> HIDE DEF G, n, Def
  <2> QED
    BY <1>6 DEF Recurs
<1>8. f = Def(f)
  <2>1. ASSUME NEW k \in (a + 1)..n PROVE f[k] = CopyStep(f[k - 1], t[k])
    <3>1. k - 1 \in a..n /\ f[k - 1] \in Copying
      BY <1>1, <1>7
    <3> QED
      BY <1>7, <3>1
  <2>2. ASSUME NEW k \in a..n PROVE f[k] = IF k = a THEN First(k) ELSE CopyStep(f[k - 1], t[k])
    BY <1>1, <1>5, <1>7, <2>1
  <2> HIDE DEF G, n
  <2> QED
    BY <1>7, <2>2
<1>9. Copies(t, a) = Def(Copies(t, a))
  BY <1>8 DEF Copies, First
<1> DEFINE C == Copies(t, a)
<1>10. C = Def(C)
  BY <1>9
<1> HIDE DEF C
<1>11. C[a] = v0 /\ \A k \in (a + 1)..n : C[k] = CopyStep(C[k - 1], t[k])
  BY <1>1, <1>5, <1>10
<1> QED
  BY <1>11 DEF C, v0

(* The count of spaces tells whether the character before is a space. *)
LEMMA CopiedIsKept ==
    ASSUME NEW t \in Text, NEW k \in 1..Len(t), NEW acc,
           acc.buf = Keeps(t)[k - 1], acc.spaces \in Nat,
           acc.spaces = 0 <=> (k - 1 = 0 \/ t[k - 1] # Space)
    PROVE  LET new == CopyStep(acc, t[k])
           IN  /\ new.buf = Keeps(t)[k] /\ new.spaces \in Nat
               /\ new.spaces = 0 <=> (k = 0 \/ t[k] # Space)
<1>1. Keeps(t)[k] = KeepStep(t, k, acc.buf)
  BY KeepsStep
<1>2. k \in Nat /\ k # 0 /\ (k - 1 = 0 <=> k = 1)
  BY DEF Text
<1>3. CASE t[k] # Space
  BY <1>1, <1>2, <1>3 DEF CopyStep, KeepStep
<1>4. CASE t[k] = Space /\ acc.spaces = 0
  BY <1>1, <1>2, <1>4 DEF CopyStep, KeepStep
<1>5. CASE t[k] = Space /\ acc.spaces # 0
  BY <1>1, <1>2, <1>5 DEF CopyStep, KeepStep
<1> QED
  BY <1>3, <1>4, <1>5

LEMMA CopiesAreKept ==
    ASSUME NEW t \in Text, NEW a \in 0..Len(t), a = 0 \/ t[a] # Space,
           \A i \in 2..a : t[i] # Space \/ t[i - 1] # Space
    PROVE  Copies(t, a)[Len(t)].buf = Collapsed(t)
<1> DEFINE n == Len(t)
           C == Copies(t, a)
           T == {k \in a..n : /\ C[k].buf = Keeps(t)[k] /\ C[k].spaces \in Nat
                              /\ C[k].spaces = 0 <=> (k = 0 \/ t[k] # Space)}
<1>1. n \in Nat /\ a \in Nat /\ a <= n
  BY DEF Text
<1>2. C[a] = [buf |-> SubSeq(t, 1, a), spaces |-> 0]
  BY CopiesStep
<1>3. \A k \in (a + 1)..n : C[k] = CopyStep(C[k - 1], t[k])
  BY CopiesStep
<1> HIDE DEF C
<1>4. a \in T
  <2>1. Keeps(t)[a] = SubSeq(t, 1, a)
    BY <1>1, KeepsPrefix
  <2>2. a \in a..n
    BY <1>1
  <2> QED
    BY <1>2, <2>1, <2>2
<1>5. ASSUME NEW k \in (a + 1)..n, k - 1 \in T PROVE k \in T
  <2> DEFINE acc == C[k - 1]
             new == CopyStep(acc, t[k])
  <2>1. /\ acc.buf = Keeps(t)[k - 1] /\ acc.spaces \in Nat
        /\ acc.spaces = 0 <=> (k - 1 = 0 \/ t[k - 1] # Space)
    BY <1>5
  <2>2. k \in 1..Len(t) /\ k \in a..n
    BY <1>1
  <2>3. C[k] = new
    BY <1>3
  <2> HIDE DEF acc
  <2>4. /\ new.buf = Keeps(t)[k] /\ new.spaces \in Nat
        /\ new.spaces = 0 <=> (k = 0 \/ t[k] # Space)
    BY <2>1, <2>2, CopiedIsKept
  <2> HIDE DEF new
  <2> QED
    BY <2>2, <2>3, <2>4
<1> HIDE DEF T
<1>6. \A k \in a..n : k \in T
  BY <1>1, <1>4, <1>5, FromTo
<1>7. n \in T
  BY <1>1, <1>6
<1> QED
  BY <1>7, CollapsedIsLast DEF T, C

(* StripExcessSpaces makes one space of several, after trimming. *)
LEMMA StripIsCollapsed ==
    ASSUME NEW s \in Text
    PROVE  StripExcessSpaces(s) = Collapsed(Trimmed(s))
<1> DEFINE t == Trimmed(s)
           D == DoubleSpaces(t)
<1>1. t \in Text
  BY TrimSpaceOfTrimmed DEF Text
<1>2. StripExcessSpaces(s) = IF D = {} THEN t ELSE Copies(t, Min(D) - 1)[Len(t)].buf
  BY StripsByCopying
<1> HIDE DEF t
<1>3. Len(t) \in Nat
  BY <1>1 DEF Text
<1>4. CASE D = {}
  <2>1. ASSUME NEW i \in 2..Len(t) PROVE t[i] # Space \/ t[i - 1] # Space
    <3>1. i - 1 \in 1..(Len(t) - 1) /\ (i - 1) + 1 = i
      BY <1>3
    <3> QED
      BY <1>4, <3>1 DEF DoubleSpaces
  <2>2. Len(t) \in 0..Len(t)
    BY <1>3
  <2>3. Keeps(t)[Len(t)] = SubSeq(t, 1, Len(t))
    BY <1>1, <2>1, <2>2, KeepsPrefix
  <2>4. SubSeq(t, 1, Len(t)) = t
    BY <1>1, SubSeqFull DEF Text
  <2> QED
    BY <1>2, <1>4, <2>3, <2>4, CollapsedIsLast DEF t
<1>5. CASE D # {}
  <2> DEFINE j == Min(D)
             a == j - 1
  <2>1. D \in SUBSET Nat
    BY <1>3 DEF DoubleSpaces
  <2>2. j \in D /\ \A i \in D : j <= i
    <3> HIDE DEF D
    <3> QED
      BY <1>5, <2>1, MinIsLeast
  <2>3. j \in 1..(Len(t) - 1) /\ t[j] = Space
    BY <2>2 DEF DoubleSpaces
  <2>4. a \in 0..Len(t) /\ a + 1 = j
    BY <1>3, <2>3
  <2>5. ASSUME NEW i \in 1..(Len(t) - 1), t[i] = Space, t[i + 1] = Space PROVE j <= i
    <3>1. i \in D
      BY <2>5 DEF DoubleSpaces
    <3> QED
      BY <2>2, <3>1
  <2> HIDE DEF j, D
  <2>6. a = 0 \/ t[a] # Space
    <3> SUFFICES ASSUME a # 0, t[a] = Space PROVE FALSE
      OBVIOUS
    <3>1. a \in 1..(Len(t) - 1) /\ ~(j <= a) /\ t[a + 1] = Space
      BY <1>3, <2>3, <2>4
    <3> QED
      BY <2>5, <3>1
  <2>7. ASSUME NEW i \in 2..a PROVE t[i] # Space \/ t[i - 1] # Space
    <3> SUFFICES ASSUME t[i] = Space, t[i - 1] = Space PROVE FALSE
      OBVIOUS
    <3>1. i - 1 \in 1..(Len(t) - 1) /\ (i - 1) + 1 = i /\ ~(j <= i - 1)
      BY <1>3, <2>3, <2>4
    <3> QED
      BY <2>5, <3>1
  <2>8. Copies(t, a)[Len(t)].buf = Collapsed(t)
    <3> HIDE DEF a
    <3> QED
      BY <1>1, <2>4, <2>6, <2>7, CopiesAreKept
  <2> QED
    BY <1>2, <1>5, <2>8 DEF j, t
<1> QED
  BY <1>4, <1>5

-----------------------------------------------------------------------------
(* Trimming and making one space of several, in either order. *)

LEMMA AppendedText ==
    ASSUME NEW v \in Text, NEW ch \in STRING
    PROVE  /\ Len(v) \in Nat /\ Len(Append(v, ch)) = Len(v) + 1
           /\ \A i \in 1..Len(v) : Append(v, ch)[i] = v[i]
           /\ Append(v, ch)[Len(v) + 1] = ch
<1>1. v \in Seq(STRING)
  BY DEF Text
<1>2. Len(v) \in Nat /\ Len(Append(v, ch)) = Len(v) + 1
  BY <1>1, AppendProperties
<1>3. \A i \in 1..Len(v) : Append(v, ch)[i] = v[i]
  BY <1>1, AppendProperties
<1>4. Append(v, ch)[Len(v) + 1] = ch
  BY <1>1, AppendProperties
<1> QED
  BY <1>2, <1>3, <1>4

LEMMA WhiteAppend ==
    ASSUME NEW v \in Text, AllWhite(v), NEW ch \in STRING, ch \in White
    PROVE  AllWhite(Append(v, ch))
<1>1. /\ Len(v) \in Nat /\ Len(Append(v, ch)) = Len(v) + 1
      /\ \A i \in 1..Len(v) : Append(v, ch)[i] = v[i]
      /\ Append(v, ch)[Len(v) + 1] = ch
  BY AppendedText
<1>2. ASSUME NEW i \in 1..Len(Append(v, ch)) PROVE Append(v, ch)[i] \in White
  <2>1. i \in 1..Len(v) \/ i = Len(v) + 1
    BY <1>1
  <2> QED
    BY <1>1, <2>1 DEF AllWhite
<1> QED
  BY <1>2 DEF AllWhite

LEMMA WhiteStep ==
    ASSUME NEW t \in Text, NEW i \in 1..Len(t), t[i] \in White, NEW v \in Text, AllWhite(v)
    PROVE  AllWhite(KeepStep(t, i, v))
<1>1. t[i] \in STRING
  BY DEF Text
<1> QED
  BY <1>1, WhiteAppend DEF KeepStep

LEMMA WhitePrefix ==
    ASSUME NEW t \in Text, NEW b \in 0..Len(t), \A i \in 1..b : t[i] \in White
    PROVE  \A i \in 0..b : AllWhite(Keeps(t)[i])
<1> DEFINE T == {i \in 0..b : AllWhite(Keeps(t)[i])}
<1>1. Len(t) \in Nat /\ b \in Nat
  BY DEF Text
<1>2. 0 \in T
  <2>1. Keeps(t)[0] = <<>>
    BY KeepsStep
  <2>2. AllWhite(<<>>)
    BY DEF AllWhite
  <2> QED
    BY <1>1, <2>1, <2>2
<1>3. ASSUME NEW i \in 1..b, i - 1 \in T PROVE i \in T
  <2>1. i \in 1..Len(t) /\ i - 1 \in 0..Len(t) /\ i \in 0..b
    BY <1>1
  <2>2. Keeps(t)[i] = KeepStep(t, i, Keeps(t)[i - 1]) /\ Keeps(t)[i - 1] \in Text
    BY <2>1, KeepsStep
  <2>3. AllWhite(Keeps(t)[i - 1])
    BY <1>3
  <2>4. AllWhite(Keeps(t)[i])
    BY <2>1, <2>2, <2>3, WhiteStep
  <2> QED
    BY <2>1, <2>4
<1> HIDE DEF T
<1>4. \A i \in 0..b : i \in T
  BY <1>1, <1>2, <1>3, UpTo
<1> QED
  BY <1>4 DEF T

LEMMA Singleton == ASSUME NEW S, NEW e \in S PROVE <<e>> \in Seq(S)
  OBVIOUS

LEMMA AppendToConcat ==
    ASSUME NEW x \in Text, NEW v \in Text, NEW ch \in STRING
    PROVE  Append(x \o v, ch) = x \o Append(v, ch)
<1>1. x \in Seq(STRING) /\ v \in Seq(STRING)
  BY DEF Text
<1>2. <<ch>> \in Seq(STRING)
  BY Singleton
<1>3. x \o v \in Seq(STRING)
  BY <1>1, ConcatProperties
<1>4. Append(x \o v, ch) = (x \o v) \o <<ch>>
  BY <1>3, AppendIsConcat
<1>5. Append(v, ch) = v \o <<ch>>
  BY <1>1, AppendIsConcat
<1> QED
  BY <1>1, <1>2, <1>4, <1>5, ConcatAssociative

(* White characters after q add white characters. *)
LEMMA WhiteSuffix ==
    ASSUME NEW t \in Text, NEW q \in 0..Len(t), \A i \in (q + 1)..Len(t) : t[i] \in White
    PROVE  \A i \in q..Len(t) : \E v \in Text : AllWhite(v) /\ Keeps(t)[i] = Keeps(t)[q] \o v
<1> DEFINE K == Keeps(t)
           T == {i \in q..Len(t) : \E v \in Text : AllWhite(v) /\ K[i] = K[q] \o v}
<1>1. Len(t) \in Nat /\ q \in Nat /\ q <= Len(t)
  BY DEF Text
<1>2. K \in [0..Len(t) -> Text] /\ \A i \in 1..Len(t) : K[i] = KeepStep(t, i, K[i - 1])
  BY KeepsStep
<1> HIDE DEF K
<1>3. q \in T
  <2>1. K[q] \in Text
    BY <1>2
  <2>2. K[q] \o <<>> = K[q]
    BY <2>1, ConcatEmptySeq DEF Text
  <2>3. <<>> \in Text /\ AllWhite(<<>>)
    BY DEF Text, AllWhite
  <2>4. q \in q..Len(t)
    BY <1>1
  <2> QED
    BY <2>2, <2>3, <2>4
<1>4. ASSUME NEW i \in (q + 1)..Len(t), i - 1 \in T PROVE i \in T
  <2>1. PICK v \in Text : AllWhite(v) /\ K[i - 1] = K[q] \o v
    BY <1>4
  <2>2. i \in 1..Len(t) /\ i \in q..Len(t) /\ t[i] \in White
    BY <1>1
  <2>3. t[i] \in STRING
    BY <2>2 DEF Text
  <2>4. K[i] = KeepStep(t, i, K[q] \o v)
    BY <1>2, <2>1, <2>2
  <2>5. CASE K[i] = K[q] \o v
    BY <2>1, <2>2, <2>5
  <2>6. CASE K[i] = Append(K[q] \o v, t[i])
    <3> DEFINE x == K[q]
               ch == t[i]
               u == Append(v, ch)
    <3>1. x \in Seq(STRING) /\ v \in Seq(STRING) /\ ch \in STRING
      BY <1>2, <2>3 DEF Text
    <3>2. u \in Text /\ AllWhite(u)
      BY <2>1, <2>2, <2>3, <3>1, AppendProperties, WhiteAppend DEF Text
    <3> HIDE DEF x, ch
    <3>3. Append(x \o v, ch) = x \o Append(v, ch)
      BY <3>1, AppendToConcat DEF Text
    <3>4. K[i] = K[q] \o u
      BY <2>6, <3>3 DEF x, ch
    <3> HIDE DEF u
    <3> QED
      BY <2>2, <3>2, <3>4
  <2> QED
    BY <2>4, <2>5, <2>6 DEF KeepStep
<1> HIDE DEF T
<1>5. \A i \in q..Len(t) : i \in T
  BY <1>1, <1>3, <1>4, FromTo
<1> QED
  BY <1>5 DEF T, K

LEMMA TrimSpaceOfConcat ==
    ASSUME NEW w \in Text, NEW x \in Text, NEW v \in Text, AllWhite(w), AllWhite(v),
           Len(x) > 0, x[1] \notin White, x[Len(x)] \notin White
    PROVE  TrimSpace((w \o x) \o v) = x
<1> DEFINE u == (w \o x) \o v
           p == Len(w) + 1
           q == Len(w) + Len(x)
<1>1. Len(w) \in Nat /\ Len(x) \in Nat /\ Len(v) \in Nat
  BY DEF Text
<1>2. /\ w \o x \in Seq(STRING) /\ Len(w \o x) = q
      /\ \A i \in 1..q : (w \o x)[i] = IF i <= Len(w) THEN w[i] ELSE x[i - Len(w)]
  BY ConcatProperties DEF Text
<1>3. /\ u \in Seq(STRING) /\ Len(u) = q + Len(v)
      /\ \A i \in 1..(q + Len(v)) : u[i] = IF i <= q THEN (w \o x)[i] ELSE v[i - q]
  BY <1>2, ConcatProperties DEF Text
<1> HIDE DEF u
<1>4. p \in 1..Len(u) /\ q \in 1..Len(u) /\ p <= q
  BY <1>1, <1>3
<1>5. \A i \in 1..Len(u) : /\ i < p => u[i] = w[i] /\ i \in 1..Len(w)
                           /\ i > q => u[i] = v[i - q] /\ i - q \in 1..Len(v)
                           /\ p <= i /\ i <= q => u[i] = x[i - Len(w)]
  BY <1>1, <1>2, <1>3
<1>6. \A i \in 1..Len(u) : i < p \/ i > q => u[i] \in White
  BY <1>5 DEF AllWhite
<1>7. u[p] = x[1] /\ u[q] = x[Len(x)]
  <2>1. p - Len(w) = 1 /\ q - Len(w) = Len(x)
    BY <1>1
  <2> QED
    BY <1>1, <1>4, <1>5, <2>1
<1>8. TrimSpace(u) = SubSeq(u, p, q)
  <2>1. Ends(u, p, q)
    BY <1>4, <1>6, <1>7 DEF Ends
  <2> HIDE DEF p, q
  <2> QED
    BY <1>3, <2>1, TrimSpaceIs
<1>9. SubSeq(u, p, q) = x
  <2>1. \A i \in p..q : u[i] \in STRING
    BY <1>1, <1>3, <1>4
  <2>2. /\ SubSeq(u, p, q) \in Seq(STRING)
        /\ Len(SubSeq(u, p, q)) = IF p <= q THEN q - p + 1 ELSE 0
        /\ \A i \in 1..(q - p + 1) : SubSeq(u, p, q)[i] = u[p + i - 1]
    <3>1. p \in Int /\ q \in Int
      BY <1>1
    <3> HIDE DEF p, q
    <3> QED
      BY <2>1, <3>1, SubSeqProperties
  <2>3. Len(SubSeq(u, p, q)) = Len(x)
    BY <1>1, <1>4, <2>2
  <2>4. ASSUME NEW i \in 1..Len(x) PROVE SubSeq(u, p, q)[i] = x[i]
    <3>1. i \in 1..(q - p + 1) /\ p + i - 1 \in 1..Len(u) /\ (p + i - 1) - Len(w) = i
          /\ p <= p + i - 1 /\ p + i - 1 <= q
      BY <1>1, <1>3
    <3> QED
      BY <1>5, <2>2, <3>1
  <2> QED
    BY <2>2, <2>3, <2>4, SeqEqual DEF Text
<1> QED
  BY <1>8, <1>9 DEF u

(* Between p and q, what is kept of t is what is kept of that part alone. *)
LEMMA KeptInside ==
    ASSUME NEW t \in Text, NEW p \in 1..Len(t), NEW q \in p..Len(t), NEW z \in Text,
           Len(z) = q - p + 1, \A i \in 1..Len(z) : z[i] = t[p + i - 1], z[1] # Space
    PROVE  \A i \in 0..Len(z) : Keeps(t)[p - 1 + i] = Keeps(t)[p - 1] \o Keeps(z)[i]
<1> DEFINE K == Keeps(t)
           Z == Keeps(z)
           w == K[p - 1]
           m == Len(z)
           T == {i \in 0..m : K[p - 1 + i] = w \o Z[i]}
<1>1. Len(t) \in Nat /\ p \in Nat /\ q \in Nat /\ m \in Nat /\ p + m - 1 <= Len(t)
  BY DEF Text
<1>2. K \in [0..Len(t) -> Text] /\ \A i \in 1..Len(t) : K[i] = KeepStep(t, i, K[i - 1])
  BY KeepsStep
<1>3. Z \in [0..m -> Text] /\ Z[0] = <<>> /\ \A i \in 1..m : Z[i] = KeepStep(z, i, Z[i - 1])
  BY KeepsStep
<1> HIDE DEF K, Z, m
<1>4. w \in Text
  BY <1>1, <1>2
<1>5. 0 \in T
  <2>1. w \o <<>> = w
    BY <1>4, ConcatEmptySeq DEF Text
  <2>2. p - 1 + 0 = p - 1 /\ 0 \in 0..m
    BY <1>1
  <2> QED
    BY <1>3, <2>1, <2>2
<1>6. ASSUME NEW i \in 1..m, i - 1 \in T PROVE i \in T
  <2> DEFINE h == p - 1 + i
  <2>1. h \in 1..Len(t) /\ i - 1 \in 0..m /\ i \in 0..m /\ h - 1 = p - 1 + (i - 1) /\ h = p + i - 1
    BY <1>1
  <2>2. K[h - 1] = w \o Z[i - 1]
    BY <1>6, <2>1
  <2>3. K[h] = KeepStep(t, h, w \o Z[i - 1]) /\ Z[i] = KeepStep(z, i, Z[i - 1])
    BY <1>2, <1>3, <2>1, <2>2
  <2>4. Z[i - 1] \in Text /\ z[i] \in STRING
    <3>1. z \in Seq(STRING) /\ i \in 1..Len(z)
      BY DEF Text, m
    <3>2. z[i] \in STRING
      BY <3>1, ElementOfSeq
    <3> QED
      BY <1>3, <2>1, <3>2
  <2>5. t[h] = z[i]
    BY <2>1 DEF m
  <2>6. (h = 1 \/ t[h] # Space \/ t[h - 1] # Space) <=> (i = 1 \/ z[i] # Space \/ z[i - 1] # Space)
    <3>1. CASE i = 1
      BY <2>5, <3>1
    <3>2. CASE i # 1
      <4>1. i - 1 \in 1..Len(z) /\ p + (i - 1) - 1 = h - 1 /\ h # 1
        BY <1>1, <3>2 DEF m
      <4>2. z[i - 1] = t[h - 1]
        BY <4>1
      <4> QED
        BY <2>5, <3>2, <4>1, <4>2
    <3> QED
      BY <3>1, <3>2
  <2> HIDE DEF h, w
  <2>7. Append(w \o Z[i - 1], z[i]) = w \o Append(Z[i - 1], z[i])
    BY <1>4, <2>4, AppendToConcat
  <2>8. K[h] = w \o Z[i]
    BY <2>3, <2>5, <2>6, <2>7 DEF KeepStep
  <2> QED
    BY <2>1, <2>8 DEF h
<1> HIDE DEF T
<1>7. \A i \in 0..m : i \in T
  BY <1>1, <1>5, <1>6, UpTo
<1> QED
  BY <1>7 DEF T, m, K, Z

LEMMA FirstIsKept ==
    ASSUME NEW z \in Text, Len(z) > 0
    PROVE  Len(Collapsed(z)) > 0 /\ Collapsed(z)[1] = z[1]
<1> DEFINE Z == Keeps(z)
           m == Len(z)
           T == {i \in 1..m : Len(Z[i]) > 0 /\ Z[i][1] = z[1]}
<1>1. m \in Nat /\ m > 0 /\ \A i \in 1..m : z[i] \in STRING
  BY DEF Text
<1>2. Z \in [0..m -> Text] /\ Z[0] = <<>> /\ \A i \in 1..m : Z[i] = KeepStep(z, i, Z[i - 1])
  BY KeepsStep
<1> HIDE DEF Z, m
<1>3. 1 \in T
  <2>1. 1 \in 1..m /\ 1 - 1 = 0
    BY <1>1
  <2>2. Z[1] = KeepStep(z, 1, Z[0])
    BY <1>2, <2>1
  <2>3. Z[1] = Append(<<>>, z[1])
    BY <1>2, <2>2 DEF KeepStep
  <2>4. Len(Append(<<>>, z[1])) = 1 /\ Append(<<>>, z[1])[1] = z[1]
    OBVIOUS
  <2> QED
    BY <2>1, <2>3, <2>4
<1>4. ASSUME NEW i \in (1 + 1)..m, i - 1 \in T PROVE i \in T
  <2> DEFINE v == Z[i - 1]
  <2>1. i \in 1..m /\ i - 1 \in 0..m
    BY <1>1
  <2>2. v \in Seq(STRING) /\ Len(v) > 0 /\ v[1] = z[1] /\ z[i] \in STRING
    BY <1>1, <1>2, <1>4, <2>1 DEF Text
  <2>3. Z[i] = v \/ Z[i] = Append(v, z[i])
    BY <1>2, <2>1 DEF KeepStep
  <2> HIDE DEF v
  <2>4. Len(Append(v, z[i])) > 0 /\ Append(v, z[i])[1] = v[1]
    <3>1. /\ Len(v) \in Nat /\ Len(Append(v, z[i])) = Len(v) + 1
          /\ \A h \in 1..Len(v) : Append(v, z[i])[h] = v[h]
      BY <2>2, AppendedText DEF Text
    <3> QED
      BY <2>2, <3>1
  <2>5. Len(Z[i]) > 0 /\ Z[i][1] = z[1]
    BY <2>2, <2>3, <2>4
  <2> QED
    BY <2>1, <2>5
<1> HIDE DEF T
<1>5. \A i \in 1..m : i \in T
  <2> DEFINE a == 1
  <2>1. a \in Nat /\ a \in T /\ \A i \in (a + 1)..m : i - 1 \in T => i \in T
    BY <1>3, <1>4
  <2> HIDE DEF a
  <2>2. \A i \in a..m : i \in T
    BY <1>1, <2>1, FromTo
  <2> QED
    BY <2>2 DEF a
<1>6. m \in T
  BY <1>1, <1>5
<1> QED
  BY <1>6, CollapsedIsLast DEF T, Z, m

LEMMA LastIsKept ==
    ASSUME NEW z \in Text, Len(z) > 0, z[Len(z)] # Space
    PROVE  Collapsed(z) \in Text /\ Collapsed(z)[Len(Collapsed(z))] = z[Len(z)]
<1> DEFINE m == Len(z)
           v == Keeps(z)[m - 1]
<1>1. m \in Nat /\ m \in 1..m /\ m - 1 \in 0..m /\ m \in 0..m /\ z[m] \in STRING
  BY DEF Text
<1>2. Keeps(z)[m] \in Text /\ v \in Text /\ Keeps(z)[m] = KeepStep(z, m, v)
  BY <1>1, KeepsStep
<1>3. Collapsed(z) = Append(v, z[m])
  BY <1>2, CollapsedIsLast DEF KeepStep
<1> HIDE DEF v, m
<1>4. Len(Append(v, z[m])) = Len(v) + 1 /\ Append(v, z[m])[Len(v) + 1] = z[m]
  BY <1>1, <1>2, AppendedText
<1> QED
  BY <1>2, <1>3, <1>4, CollapsedIsLast DEF m

LEMMA CollapsedOfEmpty == Collapsed(<<>>) = <<>>
<1>1. <<>> \in Text /\ Len(<<>>) = 0
  BY EmptySeq DEF Text
<1>2. Keeps(<<>>)[0] = <<>>
  BY <1>1, KeepsStep
<1> QED
  BY <1>1, <1>2, CollapsedIsLast

LEMMA TrimSpaceOfCollapsed ==
    ASSUME NEW t \in Text
    PROVE  TrimSpace(Collapsed(t)) = Collapsed(TrimSpace(t))
<1>1. Len(t) \in Nat /\ Len(t) \in 0..Len(t) /\ t \in Seq(STRING)
  BY DEF Text
<1>2. CASE AllWhite(t)
  <2>1. AllWhite(Keeps(t)[Len(t)])
    BY <1>1, <1>2, WhitePrefix DEF AllWhite
  <2>2. TrimSpace(Collapsed(t)) = <<>>
    BY <2>1, CollapsedIsLast, TrimSpaceOfWhite
  <2>3. TrimSpace(t) = <<>>
    BY <1>2, TrimSpaceOfWhite
  <2> QED
    BY <2>2, <2>3, CollapsedOfEmpty
<1>3. ASSUME NEW p, NEW q, Ends(t, p, q) PROVE TrimSpace(Collapsed(t)) = Collapsed(TrimSpace(t))
  <2> DEFINE z == SubSeq(t, p, q)
             w == Keeps(t)[p - 1]
             x == Collapsed(z)
  <2>1. p \in 1..Len(t) /\ q \in p..Len(t) /\ p \in Nat /\ q \in Nat
    BY <1>1, <1>3 DEF Ends
  <2>2. TrimSpace(t) = z
    BY <1>1, <1>3, TrimSpaceIs
  <2>3. /\ z \in Seq(STRING) /\ Len(z) = q - p + 1 /\ Len(z) > 0
        /\ \A i \in 1..Len(z) : z[i] = t[p + i - 1]
    <3>1. \A i \in p..q : t[i] \in STRING
      BY <1>1, <2>1
    <3>2. /\ z \in Seq(STRING) /\ Len(z) = IF p <= q THEN q - p + 1 ELSE 0
          /\ \A i \in 1..(q - p + 1) : z[i] = t[p + i - 1]
      BY <2>1, <3>1, SubSeqProperties
    <3> HIDE DEF z
    <3> QED
      BY <2>1, <3>2
  <2> HIDE DEF z
  <2>4. z \in Text
    BY <2>3 DEF Text
  <2>5. z[1] \notin White /\ z[Len(z)] \notin White
    <3>1. z[1] = t[p] /\ z[Len(z)] = t[q]
      <4>1. 1 \in 1..Len(z) /\ p + 1 - 1 = p /\ Len(z) \in 1..Len(z) /\ p + Len(z) - 1 = q
        BY <2>1, <2>3
      <4> QED
        BY <2>3, <4>1
    <3> QED
      BY <1>3, <3>1 DEF Ends
  <2>6. z[1] # Space /\ z[Len(z)] # Space
    BY <2>5, SpaceIsWhite
  <2>7. Keeps(t)[q] = w \o x
    <3>1. Keeps(t)[p - 1 + Len(z)] = w \o Keeps(z)[Len(z)]
      <4>1. Len(z) \in 0..Len(z)
        BY <2>1, <2>3
      <4>2. \A i \in 0..Len(z) : Keeps(t)[p - 1 + i] = Keeps(t)[p - 1] \o Keeps(z)[i]
        BY <2>1, <2>3, <2>4, <2>6, KeptInside
      <4> QED
        BY <4>1, <4>2
    <3>2. p - 1 + Len(z) = q
      BY <2>1, <2>3
    <3> QED
      BY <3>1, <3>2, CollapsedIsLast
  <2>8. AllWhite(w) /\ w \in Text
    <3>1. p - 1 \in 0..Len(t) /\ p - 1 \in 0..(p - 1) /\ \A i \in 1..(p - 1) : i \in 1..Len(t) /\ i < p
      BY <1>1, <2>1
    <3>2. \A i \in 1..(p - 1) : t[i] \in White
      BY <1>3, <3>1 DEF Ends
    <3> QED
      BY <3>1, <3>2, WhitePrefix, KeepsStep
  <2>9. PICK v \in Text : AllWhite(v) /\ Keeps(t)[Len(t)] = Keeps(t)[q] \o v
    <3>1. q \in 0..Len(t) /\ Len(t) \in q..Len(t) /\ \A i \in (q + 1)..Len(t) : i \in 1..Len(t) /\ i > q
      BY <1>1, <2>1
    <3>2. \A i \in (q + 1)..Len(t) : t[i] \in White
      BY <1>3, <3>1 DEF Ends
    <3> QED
      BY <3>1, <3>2, WhiteSuffix
  <2>10. /\ x \in Text /\ Len(x) > 0
         /\ x[1] \notin White /\ x[Len(x)] \notin White
    BY <2>3, <2>4, <2>5, <2>6, FirstIsKept, LastIsKept
  <2>11. Collapsed(t) = (w \o x) \o v
    BY <2>7, <2>9, CollapsedIsLast
  <2> HIDE DEF w, x
  <2>12. TrimSpace(Collapsed(t)) = x
    BY <2>8, <2>9, <2>10, <2>11, TrimSpaceOfConcat
  <2> QED
    BY <2>2, <2>12 DEF x
<1> QED
  BY <1>1, <1>2, <1>3, WhiteOrEnds

(* What StripExcessSpaces leaves of a header value, trimmed as              *)
(* buildCanonicalHeaders trims it, is what a verifier makes of the value    *)
(* that the transport has trimmed, for texts of any length.                 *)
THEOREM CanonicalValue ==
    ASSUME NEW s \in Text
    PROVE  TrimSpace(StripExcessSpaces(s)) = Collapsed(TrimSpace(s))
<1>1. Trimmed(s) \in Text /\ TrimSpace(Trimmed(s)) = TrimSpace(s)
  BY TrimSpaceOfTrimmed DEF Text
<1> QED
  BY <1>1, StripIsCollapsed, TrimSpaceOfCollapsed

-----------------------------------------------------------------------------
(* Hosts. *)

(* What UrlAssumption says of the host of a URL, or of a request. *)
Alphabet(u) == {u.name[i] : i \in DOMAIN u.name} \cup {Colon, Open, Close, u.port}

UrlOK(u) ==
    /\ u.name \in Seq(Alphabet(u)) /\ u.name # <<>> /\ u.v6 \in BOOLEAN
    /\ At(Open, u.name) = {} /\ At(Close, u.name) = {}
    /\ IF u.v6 THEN \E i, j \in At(Colon, u.name) : i < j ELSE At(Colon, u.name) = {}
    /\ u.port \notin {Colon, Open, Close}

LEMMA AlphabetIs ==
    ASSUME NEW u, NEW S, u.name \in Seq(S)
    PROVE  u.name \in Seq(Alphabet(u))
<1>1. Len(u.name) \in Nat /\ u.name \in [1..Len(u.name) -> S] /\ DOMAIN u.name = 1..Len(u.name)
  BY LenProperties
<1>2. u.name \in [1..Len(u.name) -> Alphabet(u)]
  BY <1>1 DEF Alphabet
<1> QED
  BY <1>1, <1>2

LEMMA Symbols ==
    /\ Colon # Open /\ Colon # Close /\ Open # Close /\ Colon # "80" /\ Colon # "443"
  BY DEF Colon, Open, Close

LEMMA WellKnownPorts == "80" # Empty /\ "443" # Empty
  BY Zenon DEF Empty

(* w is the name in brackets if it is a literal, and the port if there is one. *)
IsWritten(w, u) ==
    LET n == Len(u.name)
        b == IF u.v6 THEN 1 ELSE 0
    IN  /\ w \in Seq(Alphabet(u)) /\ Len(w) = n + 2 * b + (IF u.port = Empty THEN 0 ELSE 2)
        /\ \A i \in 1..n : w[i + b] = u.name[i]
        /\ u.v6 => w[1] = Open /\ w[n + 2] = Close
        /\ u.port # Empty => w[n + 2 * b + 1] = Colon /\ w[n + 2 * b + 2] = u.port

LEMMA InBrackets ==
    ASSUME NEW S, NEW s \in Seq(S), Open \in S, Close \in S
    PROVE  LET w == <<Open>> \o s \o <<Close>>
           IN  /\ w \in Seq(S) /\ Len(w) = Len(s) + 2 /\ w[1] = Open /\ w[Len(s) + 2] = Close
               /\ \A i \in 1..Len(s) : w[i + 1] = s[i]
<1> DEFINE x == <<Open>> \o s
           w == x \o <<Close>>
<1>1. s \in Seq(S) /\ Len(s) \in Nat
  OBVIOUS
<1>2. <<Open>> \in Seq(S) /\ Len(<<Open>>) = 1 /\ <<Open>>[1] = Open
  OBVIOUS
<1>3. <<Close>> \in Seq(S) /\ Len(<<Close>>) = 1 /\ <<Close>>[1] = Close
  OBVIOUS
<1>4. x \in Seq(S) /\ Len(x) = 1 + Len(s) /\ x[1] = Open /\ \A i \in 1..Len(s) : x[i + 1] = s[i]
  <2>1. /\ x \in Seq(S) /\ Len(x) = Len(<<Open>>) + Len(s)
        /\ \A i \in 1..(Len(<<Open>>) + Len(s)) :
              x[i] = IF i <= Len(<<Open>>) THEN <<Open>>[i] ELSE s[i - Len(<<Open>>)]
    BY <1>1, <1>2, ConcatProperties
  <2> HIDE DEF x
  <2>2. x[1] = Open
    BY <1>1, <1>2, <2>1
  <2>3. ASSUME NEW i \in 1..Len(s) PROVE x[i + 1] = s[i]
    BY <1>1, <1>2, <2>1
  <2> QED
    BY <1>2, <2>1, <2>2, <2>3
<1> HIDE DEF x
<1>5. /\ w \in Seq(S) /\ Len(w) = Len(x) + Len(<<Close>>)
      /\ \A i \in 1..(Len(x) + Len(<<Close>>)) : w[i] = IF i <= Len(x) THEN x[i] ELSE <<Close>>[i - Len(x)]
  BY <1>3, <1>4, ConcatProperties
<1> HIDE DEF w
<1>6. w[1] = Open /\ w[Len(s) + 2] = Close
  BY <1>1, <1>3, <1>4, <1>5
<1>7. ASSUME NEW i \in 1..Len(s) PROVE w[i + 1] = s[i]
  BY <1>1, <1>3, <1>4, <1>5
<1>8. w \in Seq(S) /\ Len(w) = Len(s) + 2
  BY <1>1, <1>3, <1>4, <1>5
<1>9. /\ w \in Seq(S) /\ Len(w) = Len(s) + 2 /\ w[1] = Open /\ w[Len(s) + 2] = Close
      /\ \A i \in 1..Len(s) : w[i + 1] = s[i]
  BY <1>6, <1>7, <1>8
<1> QED
  BY <1>9 DEF w, x

LEMMA WrittenIs == ASSUME NEW u, UrlOK(u) PROVE IsWritten(Written(u), u)
<1> DEFINE A == Alphabet(u)
           n == Len(u.name)
           b == IF u.v6 THEN 1 ELSE 0
           x == IF u.v6 THEN <<Open>> \o u.name \o <<Close>> ELSE u.name
           y == IF u.port = Empty THEN <<>> ELSE <<Colon, u.port>>
           w == x \o y
<1>1. w = Written(u)
  BY DEF Written
<1>2. n \in Nat /\ u.v6 \in BOOLEAN
  BY DEF UrlOK
<1>3. /\ x \in Seq(A) /\ Len(x) = n + 2 * b
      /\ \A i \in 1..n : x[i + b] = u.name[i]
      /\ u.v6 => x[1] = Open /\ x[n + 2] = Close
  <2>1. CASE u.v6
    <3> DEFINE z == <<Open>> \o u.name \o <<Close>>
    <3>1. /\ z \in Seq(A) /\ Len(z) = n + 2 /\ z[1] = Open /\ z[n + 2] = Close
          /\ \A i \in 1..n : z[i + 1] = u.name[i]
      <4>1. u.name \in Seq(A) /\ Open \in A /\ Close \in A
        BY DEF UrlOK, Alphabet
      <4> HIDE DEF A
      <4> QED
        BY <4>1, InBrackets
    <3>2. x = z /\ b = 1
      BY <2>1
    <3> HIDE DEF x, z, b, n
    <3> QED
      BY <3>1, <3>2, <1>2
  <2>2. CASE ~u.v6
    <3>1. x = u.name /\ b = 0
      BY <2>2
    <3>2. u.name \in Seq(A)
      BY DEF UrlOK
    <3> HIDE DEF x, b
    <3>3. \A i \in 1..n : i + b = i
      BY <1>2, <3>1
    <3> QED
      BY <1>2, <2>2, <3>1, <3>2, <3>3
  <2> QED
    BY <1>2, <2>1, <2>2
<1>4. y \in Seq(A) /\ Len(y) = (IF u.port = Empty THEN 0 ELSE 2) /\ (u.port # Empty => y[1] = Colon /\ y[2] = u.port)
  <2>1. Colon \in A /\ u.port \in A
    BY DEF Alphabet
  <2> HIDE DEF A
  <2> QED
    BY <2>1
<1> HIDE DEF x, y
<1>5. /\ w \in Seq(A) /\ Len(w) = Len(x) + Len(y)
      /\ \A i \in 1..(Len(x) + Len(y)) : w[i] = IF i <= Len(x) THEN x[i] ELSE y[i - Len(x)]
  BY <1>3, <1>4, ConcatProperties
<1> HIDE DEF w
<1>6. b \in {0, 1} /\ (u.v6 => b = 1)
  BY <1>2
<1> HIDE DEF b, n
<1>7. ASSUME NEW i \in 1..n PROVE w[i + b] = u.name[i]
  <2>1. i + b \in 1..Len(x) /\ Len(y) \in Nat
    BY <1>2, <1>3, <1>4, <1>6
  <2> QED
    BY <1>3, <1>5, <2>1
<1>8. u.v6 => w[1] = Open /\ w[n + 2] = Close
  BY <1>2, <1>3, <1>4, <1>5, <1>6
<1>9. u.port # Empty => w[n + 2 * b + 1] = Colon /\ w[n + 2 * b + 2] = u.port
  BY <1>2, <1>3, <1>4, <1>5, <1>6
<1>10. w \in Seq(A) /\ Len(w) = n + 2 * b + (IF u.port = Empty THEN 0 ELSE 2)
  BY <1>2, <1>3, <1>4, <1>5, <1>6
<1>11. IsWritten(w, u)
  BY <1>7, <1>8, <1>9, <1>10 DEF IsWritten, n, b
<1> QED
  BY <1>1, <1>11

(* A part of a text that has the symbols of another is the other. *)
LEMMA PartOfText ==
    ASSUME NEW S, NEW w \in Seq(S), NEW s \in Seq(S), NEW k \in Nat, k + Len(s) <= Len(w),
           \A i \in 1..Len(s) : w[i + k] = s[i]
    PROVE  SubSeq(w, k + 1, k + Len(s)) = s
<1> DEFINE x == SubSeq(w, k + 1, k + Len(s))
<1>1. w \in Seq(S) /\ s \in Seq(S) /\ Len(s) \in Nat /\ Len(w) \in Nat
  OBVIOUS
<1>2. \A i \in (k + 1)..(k + Len(s)) : w[i] \in S
  BY <1>1, ElementOfSeq
<1>3. /\ x \in Seq(S) /\ Len(x) = IF k + 1 <= k + Len(s) THEN k + Len(s) - (k + 1) + 1 ELSE 0
      /\ \A i \in 1..(k + Len(s) - (k + 1) + 1) : x[i] = w[k + 1 + i - 1]
  BY <1>1, <1>2, SubSeqProperties
<1> HIDE DEF x
<1>4. Len(x) = Len(s)
  BY <1>1, <1>3
<1>5. ASSUME NEW i \in 1..Len(x) PROVE x[i] = s[i]
  <2>1. i \in 1..(k + Len(s) - (k + 1) + 1) /\ k + 1 + i - 1 = i + k /\ i \in 1..Len(s)
    BY <1>1, <1>4
  <2> QED
    BY <1>3, <2>1
<1>6. x = s
  BY <1>1, <1>3, <1>4, <1>5, SeqEqual
<1> QED
  BY <1>6 DEF x

LEMMA OnlyElement == ASSUME NEW x \in Nat PROVE Min({x}) = x
<1>1. {x} \in SUBSET Nat /\ {x} # {}
  OBVIOUS
<1>2. Min({x}) \in {x}
  BY <1>1, MinIsLeast
<1> QED
  BY <1>2

(* The port that is found, and what is left without it. *)
LEMMA PortOfName ==
    ASSUME NEW u, UrlOK(u), ~u.v6, u.port # Empty
    PROVE  portOnly(Written(u)) = <<u.port>> /\ stripPort(Written(u)) = u.name
<1> DEFINE A == Alphabet(u)
           w == Written(u)
           n == Len(u.name)
<1>1. /\ w \in Seq(A) /\ Len(w) = n + 2 /\ \A i \in 1..n : w[i] = u.name[i]
      /\ w[n + 1] = Colon /\ w[n + 2] = u.port /\ n \in Nat
  <2>1. IsWritten(w, u) /\ n \in Nat
    BY WrittenIs DEF UrlOK
  <2> HIDE DEF w, n
  <2>2. \A i \in 1..n : i + 0 = i
    BY <2>1
  <2> QED
    BY <2>1, <2>2 DEF IsWritten, n
<1> HIDE DEF w
<1>2. /\ \A i \in 1..n : u.name[i] # Colon /\ u.name[i] # Close
      /\ u.port # Colon /\ u.port # Close /\ u.port \in A /\ u.name \in Seq(A)
  BY DEF UrlOK, At, Alphabet
<1> HIDE DEF n
<1>3. At(Colon, w) = {n + 1}
  <2>1. \A i \in 1..(n + 2) : i \in 1..n \/ i = n + 1 \/ i = n + 2
    BY <1>1
  <2> QED
    BY <1>1, <1>2, <2>1 DEF At
<1>4. At(Close, w) = {}
  <2>1. \A i \in 1..(n + 2) : i \in 1..n \/ i = n + 1 \/ i = n + 2
    BY <1>1
  <2> QED
    BY <1>1, <1>2, <2>1, Symbols DEF At
<1>5. Min(At(Colon, w)) = n + 1
  BY <1>1, <1>3, OnlyElement
<1>6. portOnly(w) = SubSeq(w, n + 1 + 1, n + 2)
  BY <1>1, <1>3, <1>4, <1>5 DEF portOnly
<1>7. stripPort(w) = SubSeq(w, 1, n)
  <2>1. At(Colon, w) # {}
    BY <1>3
  <2>2. stripPort(w) = SubSeq(w, 1, Min(At(Colon, w)) - 1)
    BY <1>4, <2>1 DEF stripPort
  <2>3. Min(At(Colon, w)) - 1 = n
    BY <1>1, <1>5
  <2> QED
    BY <2>2, <2>3
<1>8. SubSeq(w, n + 2, n + 2) = <<u.port>>
  <2> DEFINE s == <<u.port>>
  <2>1. s \in Seq(A) /\ Len(s) = 1 /\ s[1] = u.port
    BY <1>2
  <2> HIDE DEF s, A
  <2>2. \A i \in 1..Len(s) : w[i + (n + 1)] = s[i]
    BY <1>1, <2>1
  <2>3. n + 1 \in Nat /\ n + 1 + Len(s) <= Len(w) /\ w \in Seq(A)
    BY <1>1, <2>1
  <2>4. SubSeq(w, n + 1 + 1, n + 1 + Len(s)) = s
    BY ONLY <2>1, <2>2, <2>3, PartOfText
  <2> QED
    BY <1>1, <2>1, <2>4 DEF s
<1>9. SubSeq(w, 1, n) = u.name
  <2>1. \A i \in 1..n : w[i + 0] = u.name[i]
    BY <1>1
  <2>2. SubSeq(w, 0 + 1, 0 + n) = u.name
    BY <1>1, <1>2, <2>1, PartOfText DEF n
  <2> QED
    BY <1>1, <2>2
<1> QED
  BY <1>1, <1>6, <1>7, <1>8, <1>9 DEF w

LEMMA PortOfLiteral ==
    ASSUME NEW u, UrlOK(u), u.v6, u.port # Empty
    PROVE  portOnly(Written(u)) = <<u.port>> /\ stripPort(Written(u)) = u.name
<1> DEFINE A == Alphabet(u)
           w == Written(u)
           n == Len(u.name)
           ends == {i \in At(Close, w) : i + 1 \in At(Colon, w)}
<1>1. /\ w \in Seq(A) /\ Len(w) = n + 4 /\ \A i \in 1..n : w[i + 1] = u.name[i]
      /\ w[1] = Open /\ w[n + 2] = Close /\ w[n + 3] = Colon /\ w[n + 4] = u.port /\ n \in Nat
  <2>1. n \in Nat
    BY DEF UrlOK
  <2>2. IsWritten(w, u)
    BY WrittenIs
  <2> HIDE DEF w, n
  <2> QED
    BY <2>1, <2>2 DEF IsWritten, n
<1> HIDE DEF w
<1>2. /\ \A i \in 1..n : u.name[i] # Close
      /\ u.port # Colon /\ u.port # Close /\ u.port \in A /\ u.name \in Seq(A)
  BY DEF UrlOK, At, Alphabet
<1> HIDE DEF n
<1>3. At(Close, w) = {n + 2} /\ n + 3 \in At(Colon, w)
  <2>1. \A i \in 1..(n + 4) : i \in {1, n + 2, n + 3, n + 4} \/ i - 1 \in 1..n
    BY <1>1
  <2>2. ASSUME NEW i \in 1..(n + 4), w[i] = Close PROVE i = n + 2
    <3>1. i \notin {1, n + 3, n + 4}
      BY <1>1, <1>2, <2>2, Symbols
    <3>2. i - 1 \notin 1..n
      <4> SUFFICES ASSUME i - 1 \in 1..n PROVE FALSE
        OBVIOUS
      <4>1. w[i - 1 + 1] = u.name[i - 1] /\ i - 1 + 1 = i
        BY <1>1
      <4> QED
        BY <1>2, <2>2, <4>1
    <3> QED
      BY <2>1, <3>1, <3>2
  <2> QED
    BY <1>1, <2>2 DEF At
<1>4. ends = {n + 2}
  <2>1. n + 2 + 1 = n + 3
    BY <1>1
  <2> QED
    BY <1>3, <2>1
<1>5. Min(At(Close, w)) = n + 2 /\ Min(ends) = n + 2
  <2> HIDE DEF ends
  <2> QED
    BY <1>1, <1>3, <1>4, OnlyElement
<1>6. portOnly(w) = SubSeq(w, n + 2 + 2, n + 4)
  BY <1>1, <1>3, <1>4, <1>5 DEF portOnly
<1>7. stripPort(w) = SubSeq(w, 2, n + 1)
  <2>1. At(Colon, w) # {} /\ At(Close, w) # {} /\ w[1] = Open
    BY <1>1, <1>3
  <2>2. stripPort(w) = SubSeq(w, 2, Min(At(Close, w)) - 1)
    BY <2>1 DEF stripPort
  <2>3. Min(At(Close, w)) - 1 = n + 1
    BY <1>1, <1>5
  <2> QED
    BY <2>2, <2>3
<1> HIDE DEF ends
<1>8. SubSeq(w, n + 4, n + 4) = <<u.port>>
  <2> DEFINE s == <<u.port>>
  <2>1. s \in Seq(A) /\ Len(s) = 1 /\ s[1] = u.port
    BY <1>2
  <2> HIDE DEF s
  <2>2. \A i \in 1..Len(s) : w[i + (n + 3)] = s[i]
    BY <1>1, <2>1
  <2>3. SubSeq(w, n + 3 + 1, n + 3 + Len(s)) = s
    BY <1>1, <2>1, <2>2, PartOfText
  <2> QED
    BY <1>1, <2>1, <2>3 DEF s
<1>9. SubSeq(w, 2, n + 1) = u.name
  <2>1. SubSeq(w, 1 + 1, 1 + n) = u.name
    BY <1>1, <1>2, PartOfText DEF n
  <2> QED
    BY <1>1, <2>1
<1> QED
  BY <1>1, <1>6, <1>7, <1>8, <1>9 DEF w

LEMMA NoPort ==
    ASSUME NEW u, UrlOK(u), u.port = Empty
    PROVE  portOnly(Written(u)) = <<>>
<1> DEFINE A == Alphabet(u)
           w == Written(u)
           n == Len(u.name)
           ends == {i \in At(Close, w) : i + 1 \in At(Colon, w)}
<1>1. IsWritten(w, u) /\ n \in Nat
  BY WrittenIs DEF UrlOK
<1>2. /\ \A i \in 1..n : u.name[i] # Close
      /\ ~u.v6 => \A i \in 1..n : u.name[i] # Colon
      /\ u.v6 \in BOOLEAN
  BY DEF UrlOK, At, Alphabet
<1> HIDE DEF w
<1>3. CASE u.v6
  <2>1. /\ Len(w) = n + 2 /\ \A i \in 1..n : w[i + 1] = u.name[i]
        /\ w[1] = Open /\ w[n + 2] = Close
    BY <1>1, <1>3 DEF IsWritten
  <2> HIDE DEF n
  <2>2. \A i \in At(Close, w) : i = n + 2
    <3>1. ASSUME NEW i \in 1..(n + 2), w[i] = Close PROVE i = n + 2
      <4>1. i \in {1, n + 2} \/ i - 1 \in 1..n
        BY <1>1
      <4>2. i - 1 \notin 1..n
        <5> SUFFICES ASSUME i - 1 \in 1..n PROVE FALSE
          OBVIOUS
        <5>1. w[i - 1 + 1] = u.name[i - 1] /\ i - 1 + 1 = i
          BY <2>1
        <5> QED
          BY <1>2, <3>1, <5>1
      <4> QED
        BY <2>1, <3>1, <4>1, <4>2, Symbols
    <3> QED
      BY <2>1, <3>1 DEF At
  <2>3. n + 2 \in At(Close, w) /\ n + 2 + 1 \notin At(Colon, w)
    BY <1>1, <2>1 DEF At
  <2>4. ends = {}
    BY <2>2, <2>3
  <2> QED
    BY <2>3, <2>4 DEF portOnly, w
<1>4. CASE ~u.v6
  <2>1. Len(w) = n /\ \A i \in 1..n : w[i] = u.name[i]
    <3>1. \A i \in 1..n : i + 0 = i
      BY <1>1
    <3> QED
      BY <1>1, <1>4, <3>1 DEF IsWritten
  <2>2. At(Colon, w) = {}
    BY <1>2, <1>4, <2>1 DEF At
  <2> QED
    BY <2>2 DEF portOnly, w
<1> QED
  BY <1>2, <1>3, <1>4

(* Of a host that was stripped no port is left that could be stripped: the  *)
(* rest of an IPv6 literal after its first colon has another one.           *)
LEMMA NoPortOfStripped ==
    ASSUME NEW u, UrlOK(u), NEW scheme
    PROVE  portOnly(u.name) = <<>> \/ ~isDefaultPort(scheme, portOnly(u.name))
<1> DEFINE A == Alphabet(u)
           s == u.name
           C == At(Colon, s)
           k == Min(C)
           p == SubSeq(s, k + 1, Len(s))
<1>1. s \in Seq(A) /\ Len(s) \in Nat /\ At(Close, s) = {} /\ u.v6 \in BOOLEAN
  BY DEF UrlOK
<1>2. CASE C = {}
  BY <1>2 DEF portOnly
<1>3. CASE C # {}
  <2>1. portOnly(s) = p
    BY <1>1, <1>3 DEF portOnly
  <2>2. PICK i \in C, j \in C : i < j
    BY <1>3 DEF UrlOK
  <2>3. C \in SUBSET Nat /\ i \in Nat /\ j \in Nat /\ j <= Len(s) /\ s[j] = Colon
    BY <1>1, <2>2 DEF At
  <2>4. k \in Nat /\ k <= i
    <3> HIDE DEF C
    <3> QED
      BY <1>3, <2>2, <2>3, MinIsLeast
  <2> HIDE DEF C, k
  <2>5. \A x \in (k + 1)..Len(s) : s[x] \in A
    BY <1>1, <2>4, ElementOfSeq
  <2>6. /\ p \in Seq(A) /\ Len(p) = IF k + 1 <= Len(s) THEN Len(s) - (k + 1) + 1 ELSE 0
        /\ \A x \in 1..(Len(s) - (k + 1) + 1) : p[x] = s[k + 1 + x - 1]
    <3> HIDE DEF s
    <3>1. k + 1 \in Int /\ Len(s) \in Int
      BY <1>1, <2>4
    <3> QED
      BY <2>5, <3>1, SubSeqProperties
  <2> HIDE DEF s, p
  <2>7. j - k \in 1..Len(p) /\ p[j - k] = Colon
    <3>1. j - k \in 1..(Len(s) - (k + 1) + 1) /\ k + 1 + (j - k) - 1 = j
      BY <1>1, <2>2, <2>3, <2>4
    <3> QED
      BY <1>1, <2>3, <2>4, <2>6, <3>1
  <2>8. ASSUME NEW v, v # Colon PROVE p # <<v>>
    <3> SUFFICES ASSUME p = <<v>> PROVE FALSE
      OBVIOUS
    <3>1. Len(p) = 1 /\ p[1] = v
      OBVIOUS
    <3>2. j - k = 1
      BY <2>7, <3>1
    <3> QED
      BY <2>7, <2>8, <3>1, <3>2
  <2>9. p # <<"80">> /\ p # <<"443">>
    BY <2>8, Symbols
  <2>10. p = <<>> \/ ~isDefaultPort(scheme, p)
    BY <2>9 DEF isDefaultPort
  <2> QED
    BY <2>1, <2>10 DEF s
<1> QED
  BY <1>2, <1>3

-----------------------------------------------------------------------------
(* Requests and maps. *)

Shape(r) ==
    r = [method |-> r.method, scheme |-> r.scheme, name |-> r.name, v6 |-> r.v6, port |-> r.port,
         host |-> r.host, path |-> r.path, length |-> r.length, query |-> r.query, headers |-> r.headers]

SameTarget(x, r) ==
    /\ x.method = r.method /\ x.scheme = r.scheme /\ x.name = r.name /\ x.v6 = r.v6
    /\ x.port = r.port /\ x.path = r.path /\ x.length = r.length

Map(m) == m = [k \in DOMAIN m |-> m[k]]

(* Callers' headers have texts as values, the others have one value; the    *)
(* length is no header of the map.                                          *)
HeadersOK(m) ==
    /\ \A h \in DOMAIN m \cap CallerHeaders : m[h] \in Seq(Text)
    /\ \A h \in DOMAIN m \ CallerHeaders : \E v : m[h] = <<v>>
    /\ "Content-Length" \notin DOMAIN m

(* The host is the URL's; it has lost a port that is well known, if         *)
(* SanitizeHostForHeader has seen it.                                       *)
HostOK(r) == r.host = Written(r) \/ (IsWellKnown(r) /\ r.host = r.name)

HostSanitary(r) == r.host = IF IsWellKnown(r) THEN r.name ELSE Written(r)

ReqOK(r) == Shape(r) /\ Map(r.query) /\ HeadersOK(r.headers) /\ UrlOK(r) /\ HostOK(r)

LEMMA SameTargetHost ==
    ASSUME NEW x, NEW r, SameTarget(x, r)
    PROVE  /\ Written(x) = Written(r) /\ (IsWellKnown(x) <=> IsWellKnown(r))
           /\ UrlOK(r) => UrlOK(x)
<1>1. Alphabet(x) = Alphabet(r)
  BY DEF SameTarget, Alphabet
<1> QED
  BY <1>1 DEF SameTarget, Written, IsWellKnown, UrlOK

LEMMA WellKnownIs ==
    ASSUME NEW u
    PROVE  IsWellKnown(u) <=> \/ u.scheme = "http" /\ u.port = "80"
                              \/ u.scheme = "https" /\ u.port = "443"
  BY DEF IsWellKnown, WellKnown

LEMMA DefaultIsWellKnown ==
    ASSUME NEW u
    PROVE  isDefaultPort(u.scheme, <<u.port>>) <=> IsWellKnown(u)
<1>1. <<u.port>> # <<>>
  OBVIOUS
<1>2. /\ <<u.port>> = <<"80">> <=> u.port = "80"
      /\ <<u.port>> = <<"443">> <=> u.port = "443"
  OBVIOUS
<1> QED
  BY <1>1, <1>2, WellKnownIs DEF isDefaultPort

(* Once, and as often as it is called. *)
LEMMA HostIsSanitary ==
    ASSUME NEW r, UrlOK(r), HostOK(r)
    PROVE  LET port == portOnly(r.host)
           IN  (IF port # <<>> /\ isDefaultPort(r.scheme, port) THEN stripPort(r.host) ELSE r.host)
                  = IF IsWellKnown(r) THEN r.name ELSE Written(r)
<1> DEFINE port == portOnly(r.host)
           h == IF port # <<>> /\ isDefaultPort(r.scheme, port) THEN stripPort(r.host) ELSE r.host
<1>1. r.v6 \in BOOLEAN
  BY DEF UrlOK
<1>2. IsWellKnown(r) => r.port # Empty
  BY WellKnownIs, WellKnownPorts
<1>3. CASE r.host = Written(r) /\ r.port # Empty
  <2>1. port = <<r.port>> /\ stripPort(r.host) = r.name
    BY <1>1, <1>3, PortOfName, PortOfLiteral
  <2>2. <<r.port>> # <<>>
    OBVIOUS
  <2> HIDE DEF port
  <2>3. h = IF IsWellKnown(r) THEN r.name ELSE Written(r)
    BY <1>3, <2>1, <2>2, DefaultIsWellKnown
  <2> QED
    BY <2>3 DEF port
<1>4. CASE r.host = Written(r) /\ r.port = Empty
  <2>1. port = <<>>
    BY <1>4, NoPort
  <2> HIDE DEF port
  <2>2. h = IF IsWellKnown(r) THEN r.name ELSE Written(r)
    BY <1>2, <1>4, <2>1
  <2> QED
    BY <2>2 DEF port
<1>5. CASE IsWellKnown(r) /\ r.host = r.name
  <2>1. port = <<>> \/ ~isDefaultPort(r.scheme, port)
    BY <1>5, NoPortOfStripped
  <2> HIDE DEF port
  <2>2. h = IF IsWellKnown(r) THEN r.name ELSE Written(r)
    BY <1>5, <2>1
  <2> QED
    BY <2>2 DEF port
<1> QED
  BY <1>3, <1>4, <1>5 DEF HostOK

LEMMA HostReplaced ==
    ASSUME NEW r, Shape(r), NEW h
    PROVE  LET x == [r EXCEPT !.host = h]
           IN  Shape(x) /\ SameTarget(x, r) /\ x.host = h /\ x.query = r.query /\ x.headers = r.headers
  BY DEF Shape, SameTarget

LEMMA HeadersReplaced ==
    ASSUME NEW r, Shape(r), NEW m
    PROVE  LET x == [r EXCEPT !.headers = m]
           IN  Shape(x) /\ SameTarget(x, r) /\ x.host = r.host /\ x.query = r.query /\ x.headers = m
  BY DEF Shape, SameTarget

LEMMA QueryReplaced ==
    ASSUME NEW r, Shape(r), NEW q
    PROVE  LET x == [r EXCEPT !.query = q]
           IN  Shape(x) /\ SameTarget(x, r) /\ x.host = r.host /\ x.query = q /\ x.headers = r.headers
  BY DEF Shape, SameTarget

LEMMA HostSanitized ==
    ASSUME NEW r, Shape(r), UrlOK(r), HostOK(r)
    PROVE  LET x == SanitizeHostForHeader(r)
           IN  /\ Shape(x) /\ SameTarget(x, r) /\ x.headers = r.headers /\ x.query = r.query
               /\ UrlOK(x) /\ HostSanitary(x)
<1> DEFINE port == portOnly(r.host)
           h == IF port # <<>> /\ isDefaultPort(r.scheme, port) THEN stripPort(r.host) ELSE r.host
           y == [r EXCEPT !.host = h]
           x == SanitizeHostForHeader(r)
<1>1. h = IF IsWellKnown(r) THEN r.name ELSE Written(r)
  BY HostIsSanitary
<1>2. x = y
  <2>1. CASE port # <<>> /\ isDefaultPort(r.scheme, port)
    BY <2>1 DEF SanitizeHostForHeader
  <2>2. CASE ~(port # <<>> /\ isDefaultPort(r.scheme, port))
    <3>1. x = r /\ h = r.host
      BY <2>2 DEF SanitizeHostForHeader
    <3> HIDE DEF x, h
    <3>2. [r EXCEPT !.host = r.host] = r
      BY DEF Shape
    <3> QED
      BY <3>1, <3>2
  <2> QED
    BY <2>1, <2>2
<1> HIDE DEF h, x
<1>3. Shape(y) /\ SameTarget(y, r) /\ y.host = h /\ y.query = r.query /\ y.headers = r.headers
  BY HostReplaced
<1> HIDE DEF y
<1>4. Written(y) = Written(r) /\ (IsWellKnown(y) <=> IsWellKnown(r)) /\ UrlOK(y) /\ y.name = r.name
  BY <1>3, SameTargetHost DEF SameTarget
<1>5. HostSanitary(y)
  BY <1>1, <1>3, <1>4 DEF HostSanitary
<1> QED
  BY <1>2, <1>3, <1>4, <1>5 DEF x

LEMMA SanitaryIsOK == ASSUME NEW r, HostSanitary(r) PROVE HostOK(r)
  BY DEF HostSanitary, HostOK

LEMMA KeepsHost ==
    ASSUME NEW x, NEW r, SameTarget(x, r), x.host = r.host
    PROVE  (HostOK(r) => HostOK(x)) /\ (HostSanitary(r) => HostSanitary(x)) /\ (UrlOK(r) => UrlOK(x))
<1>1. Written(x) = Written(r) /\ (IsWellKnown(x) <=> IsWellKnown(r)) /\ x.name = r.name
      /\ (UrlOK(r) => UrlOK(x))
  BY SameTargetHost DEF SameTarget
<1> QED
  BY <1>1 DEF HostOK, HostSanitary

(* SameAuthority, of a request that arrives. *)
AuthorityOK(t) ==
    LET host == t.headers["Host"][1]
    IN  (\/ host = Written(t)
         \/ IsWellKnown(t) /\ host = Written([t EXCEPT !.port = Empty]))
        <=> ~(t.v6 /\ IsWellKnown(t))

LEMMA SanitaryAuthority ==
    ASSUME NEW t, Shape(t), UrlOK(t), NEW h, t.headers["Host"] = <<h>>,
           h = IF IsWellKnown(t) THEN t.name ELSE Written(t)
    PROVE  AuthorityOK(t)
<1> DEFINE e == [t EXCEPT !.port = Empty]
           n == Len(t.name)
<1>1. t.headers["Host"][1] = h
  OBVIOUS
<1>2. e.name = t.name /\ e.v6 = t.v6 /\ e.port = Empty
  BY DEF Shape
<1>3. n \in Nat /\ n # 0 /\ t.v6 \in BOOLEAN /\ t.name \in Seq(Alphabet(t))
  BY EmptySeq DEF UrlOK
<1> HIDE DEF n
<1>4. CASE ~IsWellKnown(t)
  BY <1>1, <1>3, <1>4 DEF AuthorityOK
<1>5. CASE IsWellKnown(t) /\ ~t.v6
  <2>1. Written(e) = t.name \o <<>>
    <3> HIDE DEF e
    <3> QED
      BY <1>2, <1>5 DEF Written
  <2>2. t.name \o <<>> = t.name
    BY <1>3, ConcatEmptySeq
  <2> QED
    BY <1>1, <1>5, <2>1, <2>2 DEF AuthorityOK
<1>6. CASE IsWellKnown(t) /\ t.v6
  <2>1. t.name[1] # Open
    <3>1. 1 \in 1..Len(t.name) /\ At(Open, t.name) = {}
      BY <1>3 DEF UrlOK, n
    <3> QED
      BY <3>1 DEF At
  <2>2. Written(t) # t.name
    <3>1. IsWritten(Written(t), t)
      BY WrittenIs
    <3>2. Written(t)[1] = Open
      BY <1>6, <3>1 DEF IsWritten
    <3> QED
      BY <2>1, <3>2
  <2>3. Written(e) # t.name
    <3> DEFINE w == <<Open>> \o t.name \o <<Close>>
    <3>1. w[1] = Open /\ w \in Seq(Alphabet(t))
      <4>1. Open \in Alphabet(t) /\ Close \in Alphabet(t)
        BY DEF Alphabet
      <4> QED
        BY <1>3, <4>1, InBrackets
    <3> HIDE DEF w, e
    <3>2. Written(e) = w \o <<>>
      BY <1>2, <1>6 DEF Written, w
    <3>3. w \o <<>> = w
      BY <3>1, ConcatEmptySeq
    <3> QED
      BY <2>1, <3>1, <3>2, <3>3
  <2> HIDE DEF e
  <2>4. h = t.name
    BY <1>6
  <2> QED
    BY <1>1, <1>6, <2>2, <2>3, <2>4 DEF AuthorityOK, e
<1> QED
  BY <1>3, <1>4, <1>5, <1>6

(* x is m with k set to v. *)
IsSet(x, m, k, v) ==
    /\ DOMAIN x = DOMAIN m \cup {k} /\ Map(x) /\ x[k] = <<v>>
    /\ \A h \in DOMAIN m : h # k => x[h] = m[h]

LEMMA SetIs == ASSUME NEW m, NEW k, NEW v PROVE IsSet(Set(m, k, v), m, k, v)
  BY DEF Set, IsSet, Map

IsAdded(x, m, k, v) ==
    /\ DOMAIN x = DOMAIN m \cup {k} /\ Map(x)
    /\ x[k] = IF k \in DOMAIN m THEN Append(m[k], v) ELSE <<v>>
    /\ \A h \in DOMAIN m : h # k => x[h] = m[h]

LEMMA AddIs == ASSUME NEW m, NEW k, NEW v PROVE IsAdded(Add(m, k, v), m, k, v)
  BY DEF Add, IsAdded, Map

LEMMA SetHeaders ==
    ASSUME NEW m, HeadersOK(m), NEW k, k \notin CallerHeaders \cup {"Content-Length"}, NEW v
    PROVE  HeadersOK(Set(m, k, v))
<1> DEFINE x == Set(m, k, v)
<1>1. IsSet(x, m, k, v)
  BY SetIs
<1> HIDE DEF x
<1>2. HeadersOK(x)
  BY <1>1 DEF HeadersOK, IsSet
<1> QED
  BY <1>2 DEF x

TokenField(c) == IF SessionToken[c] = None THEN {} ELSE {"X-Amz-Security-Token"}

LEMMA SigningFieldsSet ==
    ASSUME NEW m, NEW c
    PROVE  LET x == setRequiredSigningFields(m, c)
           IN  /\ DOMAIN x = DOMAIN m \cup {"X-Amz-Region-Set", "X-Amz-Date"} \cup TokenField(c)
               /\ Map(x) /\ x["X-Amz-Date"] = <<now>>
               /\ SessionToken[c] # None => x["X-Amz-Security-Token"] = <<SessionToken[c]>>
               /\ \A h \in DOMAIN m \ ({"X-Amz-Region-Set", "X-Amz-Date"} \cup TokenField(c)) : x[h] = m[h]
<1> DEFINE m1 == Set(m, "X-Amz-Region-Set", "*")
           m2 == Set(m1, "X-Amz-Date", now)
           m3 == Set(m2, "X-Amz-Security-Token", SessionToken[c])
           x == setRequiredSigningFields(m, c)
<1>1. IsSet(m1, m, "X-Amz-Region-Set", "*")
  BY SetIs
<1>2. x = IF SessionToken[c] = None THEN m2 ELSE m3
  BY DEF setRequiredSigningFields
<1> HIDE DEF m1, x
<1>3. IsSet(m2, m1, "X-Amz-Date", now)
  BY SetIs
<1> HIDE DEF m2
<1>4. IsSet(m3, m2, "X-Amz-Security-Token", SessionToken[c])
  BY SetIs
<1> HIDE DEF m3
<1>5. /\ DOMAIN m2 = DOMAIN m \cup {"X-Amz-Region-Set", "X-Amz-Date"}
      /\ Map(m2) /\ m2["X-Amz-Date"] = <<now>>
      /\ \A h \in DOMAIN m \ {"X-Amz-Region-Set", "X-Amz-Date"} : m2[h] = m[h]
  BY <1>1, <1>3 DEF IsSet
<1>6. CASE SessionToken[c] = None
  BY <1>2, <1>5, <1>6 DEF TokenField, x
<1>7. CASE SessionToken[c] # None
  <2>1. x = m3 /\ TokenField(c) = {"X-Amz-Security-Token"}
    BY <1>2, <1>7 DEF TokenField
  <2>2. Map(m3) /\ m3["X-Amz-Date"] = <<now>> /\ m3["X-Amz-Security-Token"] = <<SessionToken[c]>>
    BY <1>4, <1>5 DEF IsSet
  <2>3. DOMAIN m3 = DOMAIN m \cup {"X-Amz-Region-Set", "X-Amz-Date"} \cup TokenField(c)
    BY <1>4, <1>5, <2>1 DEF IsSet
  <2>4. \A h \in DOMAIN m \ ({"X-Amz-Region-Set", "X-Amz-Date"} \cup TokenField(c)) : m3[h] = m[h]
    BY <1>4, <1>5, <2>1 DEF IsSet
  <2> QED
    BY <2>1, <2>2, <2>3, <2>4 DEF x
<1> QED
  BY <1>6, <1>7

LEMMA SigningFieldsHeaders ==
    ASSUME NEW m, HeadersOK(m), NEW c
    PROVE  HeadersOK(setRequiredSigningFields(m, c))
<1> DEFINE m1 == Set(m, "X-Amz-Region-Set", "*")
           m2 == Set(m1, "X-Amz-Date", now)
<1>1. /\ "X-Amz-Region-Set" \notin CallerHeaders \cup {"Content-Length"}
      /\ "X-Amz-Date" \notin CallerHeaders \cup {"Content-Length"}
      /\ "X-Amz-Security-Token" \notin CallerHeaders \cup {"Content-Length"}
  BY DEF CallerHeaders
<1>2. HeadersOK(m1)
  BY <1>1, SetHeaders
<1>3. HeadersOK(m2)
  BY <1>1, <1>2, SetHeaders
<1>4. HeadersOK(Set(m2, "X-Amz-Security-Token", SessionToken[c]))
  BY <1>1, <1>3, SetHeaders
<1> QED
  BY <1>3, <1>4 DEF setRequiredSigningFields

ContentLength(r) == IF r.length > 0 THEN {"Content-Length"} ELSE {}

(* What arrives of a header h that is set to x. *)
Arrives(h, x) == IF h \in CallerHeaders THEN [i \in 1..Len(x) |-> TrimSpace(x[i])] ELSE x

LEMMA SentIs ==
    ASSUME NEW r, Shape(r)
    PROVE  LET t == Sent(r)
           IN  /\ Shape(t) /\ t.method = r.method /\ t.scheme = r.scheme /\ t.name = r.name
               /\ t.v6 = r.v6 /\ t.port = r.port /\ t.host = r.host /\ t.query = r.query
               /\ t.path = GetURIPath(r)
               /\ DOMAIN t.headers = DOMAIN r.headers \cup {"Host"} \cup ContentLength(r)
               /\ t.headers["Host"] = <<r.host>>
               /\ r.length > 0 => t.headers["Content-Length"] = <<r.length>>
               /\ \A h \in DOMAIN r.headers \ {"Host", "Content-Length"} :
                     t.headers[h] = Arrives(h, r.headers[h])
<1> DEFINE names == DOMAIN r.headers \cup {"Host"} \cup ContentLength(r)
           Sends(h) == CASE h = "Host" -> <<r.host>>
                         [] h = "Content-Length" -> <<r.length>>
                         [] h \in CallerHeaders -> [i \in 1..Len(r.headers[h]) |-> TrimSpace(r.headers[h][i])]
                         [] OTHER -> r.headers[h]
           H == [h \in names |-> Sends(h)]
           t == Sent(r)
<1>1. t = [r EXCEPT !.headers = H, !.path = IF @ = Empty THEN "/" ELSE @]
  BY DEF Sent, ContentLength
<1>2. /\ DOMAIN H = names /\ H["Host"] = <<r.host>>
      /\ r.length > 0 => H["Content-Length"] = <<r.length>>
  <2>1. "Host" \in names /\ (r.length > 0 => "Content-Length" \in names)
    BY DEF ContentLength
  <2>2. "Content-Length" # "Host" /\ "Host" \notin CallerHeaders /\ "Content-Length" \notin CallerHeaders
    BY DEF CallerHeaders
  <2>3. Sends("Host") = <<r.host>>
    BY <2>2, Zenon
  <2>4. Sends("Content-Length") = <<r.length>>
    BY <2>2, Zenon
  <2> HIDE DEF names, Sends
  <2> QED
    BY <2>1, <2>3, <2>4
<1>3. ASSUME NEW h \in DOMAIN r.headers \ {"Host", "Content-Length"}
      PROVE  H[h] = Arrives(h, r.headers[h])
  <2>1. H[h] = Sends(h)
    OBVIOUS
  <2>2. Sends(h) = IF h \in CallerHeaders THEN [i \in 1..Len(r.headers[h]) |-> TrimSpace(r.headers[h][i])]
                   ELSE r.headers[h]
    BY Zenon
  <2> QED
    BY <2>1, <2>2 DEF Arrives
<1> HIDE DEF H, t
<1>4. /\ Shape(t) /\ t.method = r.method /\ t.scheme = r.scheme /\ t.name = r.name
      /\ t.v6 = r.v6 /\ t.port = r.port /\ t.host = r.host /\ t.query = r.query
      /\ t.path = GetURIPath(r) /\ t.headers = H
  BY <1>1 DEF Shape, GetURIPath
<1> QED
  BY <1>2, <1>3, <1>4 DEF t

LEMMA HostArrives ==
    ASSUME NEW o, Shape(o), UrlOK(o), HostSanitary(o)
    PROVE  AuthorityOK(Sent(o))
<1> DEFINE t == Sent(o)
<1>1. /\ Shape(t) /\ t.method = o.method /\ t.scheme = o.scheme /\ t.name = o.name
      /\ t.v6 = o.v6 /\ t.port = o.port /\ t.headers["Host"] = <<o.host>>
  BY SentIs
<1> HIDE DEF t
<1>2. Written(t) = Written(o) /\ (IsWellKnown(t) <=> IsWellKnown(o))
  BY <1>1 DEF Written, IsWellKnown
<1>3. UrlOK(t)
  <2>1. Alphabet(t) = Alphabet(o)
    BY <1>1 DEF Alphabet
  <2> QED
    BY <1>1, <2>1 DEF UrlOK
<1>4. o.host = IF IsWellKnown(t) THEN t.name ELSE Written(t)
  BY <1>1, <1>2 DEF HostSanitary
<1>5. AuthorityOK(t)
  BY <1>1, <1>3, <1>4, SanitaryAuthority
<1> QED
  BY <1>5 DEF t

-----------------------------------------------------------------------------
(* Verification. *)

LEMMA TrimSpaceIsText == ASSUME NEW s \in Text PROVE TrimSpace(s) \in Text
<1>1. s \in Seq(STRING) /\ Len(s) \in Nat
  BY DEF Text
<1>2. CASE AllWhite(s)
  <2>1. <<>> \in Seq(STRING)
    BY EmptySeq
  <2> QED
    BY <1>2, <2>1, TrimSpaceOfWhite DEF Text
<1>3. ASSUME NEW p, NEW q, Ends(s, p, q) PROVE TrimSpace(s) \in Text
  <2>1. p \in Int /\ q \in Int /\ \A i \in p..q : i \in 1..Len(s)
    BY <1>1, <1>3 DEF Ends
  <2>2. \A i \in p..q : s[i] \in STRING
    BY <1>1, <2>1, ElementOfSeq
  <2>3. SubSeq(s, p, q) \in Seq(STRING)
    BY <2>1, <2>2, SubSeqProperties
  <2> QED
    BY <1>1, <1>3, <2>3, TrimSpaceIs DEF Text
<1> QED
  BY <1>1, <1>2, <1>3, WhiteOrEnds

(* What the verifier makes of the value x of h. *)
Recanonical(h, x) == IF h \in CallerHeaders THEN [i \in 1..Len(x) |-> Collapsed(x[i])] ELSE x

LEMMA CallerValueAgrees ==
    ASSUME NEW x \in Seq(Text)
    PROVE  LET y == [i \in 1..Len(x) |-> TrimSpace(x[i])]
           IN  [i \in 1..Len(x) |-> TrimSpace(StripExcessSpaces(x[i]))] = [i \in 1..Len(y) |-> Collapsed(y[i])]
<1> DEFINE n == Len(x)
           y == [i \in 1..n |-> TrimSpace(x[i])]
<1>1. n \in Nat /\ \A i \in 1..n : x[i] \in Text
  OBVIOUS
<1>2. \A i \in 1..n : TrimSpace(x[i]) \in Text
  BY <1>1, TrimSpaceIsText
<1>3. \A i \in 1..n : TrimSpace(StripExcessSpaces(x[i])) = Collapsed(TrimSpace(x[i]))
  BY <1>1, CanonicalValue
<1> HIDE DEF n
<1>4. y \in [1..n -> Text] /\ \A i \in 1..n : y[i] = TrimSpace(x[i])
  BY <1>2
<1> HIDE DEF y
<1>5. Len(y) = n
  <2>1. y \in Seq(Text)
    BY <1>1, <1>4
  <2>2. DOMAIN y = 1..n /\ DOMAIN y = 1..Len(y) /\ Len(y) \in Nat
    BY <1>4, <2>1, LenProperties
  <2> QED
    BY <1>1, <2>2
<1>6. [i \in 1..n |-> TrimSpace(StripExcessSpaces(x[i]))] = [i \in 1..n |-> Collapsed(y[i])]
  BY <1>3, <1>4
<1> QED
  BY <1>5, <1>6 DEF n, y

LEMMA OtherValueAgrees ==
    ASSUME NEW x, NEW v, x = <<v>>
    PROVE  [i \in 1..Len(x) |-> x[i]] = x
  OBVIOUS

LEMMA ValueAgrees ==
    ASSUME NEW m, HeadersOK(m), NEW h \in DOMAIN m
    PROVE  [i \in 1..Len(m[h]) |-> Clean(h, m[h][i])] = Recanonical(h, Arrives(h, m[h]))
<1> DEFINE x == m[h]
           y == [i \in 1..Len(x) |-> TrimSpace(x[i])]
<1>1. CASE h \in CallerHeaders
  <2>1. x \in Seq(Text)
    BY <1>1 DEF HeadersOK
  <2> HIDE DEF x
  <2>2. [i \in 1..Len(x) |-> Clean(h, x[i])] = [i \in 1..Len(x) |-> TrimSpace(StripExcessSpaces(x[i]))]
    BY <1>1 DEF Clean
  <2>3. Recanonical(h, Arrives(h, x)) = [i \in 1..Len(y) |-> Collapsed(y[i])]
    <3>1. Arrives(h, x) = y
      BY <1>1 DEF Arrives
    <3> HIDE DEF y
    <3>2. Recanonical(h, y) = [i \in 1..Len(y) |-> Collapsed(y[i])]
      BY <1>1 DEF Recanonical
    <3> QED
      BY <3>1, <3>2, Zenon
  <2>4. [i \in 1..Len(x) |-> TrimSpace(StripExcessSpaces(x[i]))] = [i \in 1..Len(y) |-> Collapsed(y[i])]
    BY <2>1, CallerValueAgrees
  <2>5. [i \in 1..Len(x) |-> Clean(h, x[i])] = Recanonical(h, Arrives(h, x))
    BY <2>2, <2>3, <2>4, Zenon
  <2> QED
    BY <2>5 DEF x
<1>2. CASE h \notin CallerHeaders
  <2>1. \E v : x = <<v>>
    BY <1>2 DEF HeadersOK
  <2> HIDE DEF x
  <2>2. [i \in 1..Len(x) |-> Clean(h, x[i])] = [i \in 1..Len(x) |-> x[i]]
    BY <1>2 DEF Clean
  <2>3. Recanonical(h, Arrives(h, x)) = x
    BY <1>2, Zenon DEF Recanonical, Arrives
  <2>4. [i \in 1..Len(x) |-> x[i]] = x
    BY <2>1, OtherValueAgrees
  <2>5. [i \in 1..Len(x) |-> Clean(h, x[i])] = Recanonical(h, Arrives(h, x))
    BY <2>2, <2>3, <2>4, Zenon
  <2> QED
    BY <2>5 DEF x
<1> QED
  BY <1>1, <1>2

(* ch is the canonical form of the headers hs of the request b. *)
IsCanonical(ch, b, hs) ==
    /\ DOMAIN ch = (DOMAIN hs \ IgnoredHeaders) \cup ContentLength(b) /\ Map(ch)
    /\ "Host" \in DOMAIN ch => ch["Host"] = <<b.host>>
    /\ "Content-Length" \in DOMAIN ch => ch["Content-Length"] = <<b.length>>
    /\ \A h \in DOMAIN ch \ {"Host", "Content-Length"} :
          h \in DOMAIN hs /\ ch[h] = Recanonical(h, Arrives(h, hs[h]))

LEMMA CanonicalHeadersAre ==
    ASSUME NEW b, NEW hs, HeadersOK(hs)
    PROVE  IsCanonical(buildCanonicalHeaders(b, hs), b, hs)
<1> DEFINE names == (DOMAIN hs \ IgnoredHeaders) \cup ContentLength(b)
           Value(h) == CASE h = "Host" -> <<b.host>>
                         [] h = "Content-Length" -> <<b.length>>
                         [] OTHER -> [i \in 1..Len(hs[h]) |-> Clean(h, hs[h][i])]
           ch == buildCanonicalHeaders(b, hs)
<1>1. ch = [h \in names |-> Value(h)]
  BY DEF buildCanonicalHeaders, ContentLength
<1>2. "Content-Length" # "Host"
  OBVIOUS
<1>3. Value("Host") = <<b.host>> /\ Value("Content-Length") = <<b.length>>
  BY <1>2, Zenon
<1>4. ASSUME NEW h \in names \ {"Host", "Content-Length"}
      PROVE  h \in DOMAIN hs /\ Value(h) = Recanonical(h, Arrives(h, hs[h]))
  <2>1. h \in DOMAIN hs /\ h # "Host" /\ h # "Content-Length"
    BY <1>4 DEF ContentLength
  <2>2. Value(h) = [i \in 1..Len(hs[h]) |-> Clean(h, hs[h][i])]
    BY <2>1, Zenon
  <2>3. [i \in 1..Len(hs[h]) |-> Clean(h, hs[h][i])] = Recanonical(h, Arrives(h, hs[h]))
    BY <2>1, ValueAgrees
  <2> QED
    BY <2>1, <2>2, <2>3, Zenon
<1> HIDE DEF names, Value, ch
<1>5. DOMAIN ch = names /\ Map(ch) /\ \A h \in names : ch[h] = Value(h)
  BY <1>1 DEF Map
<1> QED
  BY <1>3, <1>4, <1>5 DEF names, ch, IsCanonical

(* SignaturesVerify and the others, of a request that arrives. *)
Verifies(t) ==
    LET a == AuthorizationOf(t)
    IN  /\ {"Host"} \cup (DOMAIN t.headers \cap AmzHeaders) \subseteq a.signedHeaders
        /\ a.signedHeaders \subseteq DOMAIN t.headers
        /\ a.signature = Recomputed(t)
        /\ a.scope = Day(a.signature.time)

(* o is sent with the authorization a, which c has made of p and of the     *)
(* canonical form of the headers hs.                                        *)
Signs(o, a, c, p, hs) ==
    /\ a = Authorization(p, c, buildCanonicalHeaders(p, hs))
    /\ Shape(o) /\ HeadersOK(hs) /\ "Host" \in DOMAIN hs
    /\ p.host = o.host /\ p.length = o.length /\ p.method = o.method /\ p.path = o.path
    /\ p.query = [k \in DOMAIN o.query \ {"X-Amz-Signature"} |-> o.query[k]]
    /\ \A h \in DOMAIN hs \ IgnoredHeaders :
          h = "Host" \/ (h \in DOMAIN o.headers /\ o.headers[h] = hs[h])
    /\ DOMAIN o.headers \cap AmzHeaders \subseteq DOMAIN hs
    /\ AuthorizationOf(Sent(o)) = a
    /\ SigningFields(Sent(o))["X-Amz-Date"] = <<now>>

LEMMA CanonicalHeadersAgree ==
    ASSUME NEW o, NEW a, NEW c, NEW p, NEW hs, Signs(o, a, c, p, hs)
    PROVE  LET ch == buildCanonicalHeaders(p, hs)
               t == Sent(o)
           IN  /\ {"Host"} \cup (DOMAIN t.headers \cap AmzHeaders) \subseteq DOMAIN ch
               /\ DOMAIN ch \subseteq DOMAIN t.headers
               /\ ch = [h \in DOMAIN ch |-> Recanonical(h, t.headers[h])]
<1> DEFINE ch == buildCanonicalHeaders(p, hs)
           t == Sent(o)
<1>1. IsCanonical(ch, p, hs)
  BY CanonicalHeadersAre DEF Signs
<1>2. /\ DOMAIN t.headers = DOMAIN o.headers \cup {"Host"} \cup ContentLength(o)
      /\ t.headers["Host"] = <<o.host>>
      /\ o.length > 0 => t.headers["Content-Length"] = <<o.length>>
      /\ \A h \in DOMAIN o.headers \ {"Host", "Content-Length"} :
            t.headers[h] = Arrives(h, o.headers[h])
  BY SentIs DEF Signs
<1> HIDE DEF ch, t
<1>3. ContentLength(p) = ContentLength(o) /\ p.host = o.host /\ p.length = o.length
  BY DEF Signs, ContentLength
<1>4. DOMAIN ch \subseteq DOMAIN t.headers
  BY <1>1, <1>2, <1>3 DEF Signs, IsCanonical
<1>5. {"Host"} \cup (DOMAIN t.headers \cap AmzHeaders) \subseteq DOMAIN ch
  <2>1. "Host" \notin IgnoredHeaders /\ "Host" \notin AmzHeaders /\ AmzHeaders \cap IgnoredHeaders = {}
        /\ "Content-Length" \notin AmzHeaders
    BY DEF IgnoredHeaders, AmzHeaders, SigningHeaders
  <2>2. "Host" \in DOMAIN hs /\ DOMAIN o.headers \cap AmzHeaders \subseteq DOMAIN hs
    BY DEF Signs
  <2>3. ContentLength(o) \subseteq {"Content-Length"}
    BY DEF ContentLength
  <2> QED
    BY <1>1, <1>2, <2>1, <2>2, <2>3 DEF IsCanonical
<1>6. ASSUME NEW h \in DOMAIN ch PROVE ch[h] = Recanonical(h, t.headers[h])
  <2>1. "Host" \notin CallerHeaders /\ "Content-Length" \notin CallerHeaders
    BY DEF CallerHeaders
  <2>2. CASE h = "Host"
    BY <1>1, <1>2, <1>3, <2>1, <2>2 DEF Recanonical, IsCanonical
  <2>3. CASE h = "Content-Length"
    <3>1. ch[h] = <<p.length>>
      BY <1>1, <2>3 DEF IsCanonical
    <3>2. t.headers[h] = <<o.length>>
      <4>1. h \in ContentLength(p)
        BY <1>1, <2>3 DEF IsCanonical, Signs, HeadersOK
      <4> QED
        BY <1>2, <1>3, <2>3, <4>1 DEF ContentLength
    <3> QED
      BY <1>3, <2>1, <2>3, <3>1, <3>2 DEF Recanonical
  <2>4. CASE h # "Host" /\ h # "Content-Length"
    <3>1. h \in DOMAIN hs \ IgnoredHeaders /\ ch[h] = Recanonical(h, Arrives(h, hs[h]))
      BY <1>1, <2>4 DEF ContentLength, IsCanonical
    <3>2. h \in DOMAIN o.headers /\ o.headers[h] = hs[h]
      BY <2>4, <3>1 DEF Signs
    <3>3. t.headers[h] = Arrives(h, hs[h])
      BY <1>2, <2>4, <3>2
    <3> QED
      BY <3>1, <3>3
  <2> QED
    BY <2>2, <2>3, <2>4
<1>7. ch = [h \in DOMAIN ch |-> Recanonical(h, t.headers[h])]
  BY <1>1, <1>6 DEF Map, IsCanonical
<1> QED
  BY <1>4, <1>5, <1>7 DEF ch, t

LEMMA SignedVerifies ==
    ASSUME NEW o, NEW a, NEW c, NEW p, NEW hs, Signs(o, a, c, p, hs)
    PROVE  Verifies(Sent(o))
<1> DEFINE ch == buildCanonicalHeaders(p, hs)
           t == Sent(o)
           q == [k \in DOMAIN t.query \ {"X-Amz-Signature"} |-> t.query[k]]
           H == [h \in DOMAIN ch |-> Recanonical(h, t.headers[h])]
<1>1. /\ {"Host"} \cup (DOMAIN t.headers \cap AmzHeaders) \subseteq DOMAIN ch
      /\ DOMAIN ch \subseteq DOMAIN t.headers
      /\ ch = H
  BY CanonicalHeadersAgree
<1>2. t.method = o.method /\ t.query = o.query /\ t.path = GetURIPath(o)
  BY SentIs DEF Signs
<1>3. AuthorizationOf(t) = a /\ SigningFields(t)["X-Amz-Date"][1] = now
  BY DEF Signs
<1>4. a = Authorization(p, c, ch)
  BY DEF Signs
<1>5. p.method = t.method /\ GetURIPath(p) = t.path /\ p.query = q
  BY <1>2 DEF Signs, GetURIPath
<1>6. /\ a.cred = c /\ a.scope = Day(now) /\ a.signedHeaders = DOMAIN ch
      /\ a.signature = [key |-> c, time |-> now, scope |-> Day(now), method |-> t.method,
                        path |-> t.path, query |-> q, headers |-> ch]
  <2> HIDE DEF ch, q, t
  <2> QED
    BY <1>4, <1>5 DEF Authorization, Signature
<1>7. Recomputed(t) = [key |-> a.cred, time |-> SigningFields(t)["X-Amz-Date"][1], scope |-> a.scope,
                       method |-> t.method, path |-> t.path, query |-> q,
                       headers |-> [h \in a.signedHeaders |-> Recanonical(h, t.headers[h])]]
  <2> HIDE DEF t
  <2> QED
    BY <1>3, Zenon DEF Recomputed, Recanonical
<1>8. [h \in a.signedHeaders |-> Recanonical(h, t.headers[h])] = ch
  <2>1. a.signedHeaders = DOMAIN ch
    BY <1>6
  <2>2. [h \in a.signedHeaders |-> Recanonical(h, t.headers[h])] = H
    <3> HIDE DEF ch, t
    <3> QED
      BY <2>1
  <2> QED
    BY <1>1, <2>2, Zenon
<1> HIDE DEF ch, q, t, H
<1>9. a.signature = Recomputed(t)
  BY <1>3, <1>6, <1>7, <1>8
<1>10. a.scope = Day(a.signature.time)
  BY <1>6
<1>11. Verifies(t)
  BY <1>1, <1>3, <1>6, <1>9, <1>10 DEF Verifies
<1> QED
  BY <1>11 DEF t

-----------------------------------------------------------------------------
(* The calls that have signed a request. *)

Calls == [presign : BOOLEAN, hoist : BOOLEAN, cred : Creds, time : Nat]

AnyPresigned(cs) == \E i \in 1..Len(cs) : cs[i].presign

(* The calls of those who have a session token, and the token of the last. *)
Signers(cs) == {i \in 1..Len(cs) : SessionToken[cs[i].cred] # None}

LatestToken(cs) == SessionToken[cs[Max(Signers(cs))].cred]

LEMMA CallAppended ==
    ASSUME NEW cs \in Seq(Calls), NEW call \in Calls
    PROVE  LET d == Append(cs, call)
           IN  /\ d \in Seq(Calls) /\ d # <<>> /\ Len(d) = Len(cs) + 1 /\ Len(cs) \in Nat
               /\ d[Len(cs) + 1] = call /\ Last(d) = call /\ \A i \in 1..Len(cs) : d[i] = cs[i]
<1> DEFINE d == Append(cs, call)
<1>1. /\ d \in Seq(Calls) /\ d # <<>> /\ Len(d) = Len(cs) + 1
      /\ \A i \in 1..Len(cs) : d[i] = cs[i]
      /\ d[Len(cs) + 1] = call
  BY AppendProperties
<1>2. Len(cs) \in Nat
  OBVIOUS
<1> HIDE DEF d
<1>3. Last(d) = call
  BY <1>1 DEF Last
<1> QED
  BY <1>1, <1>2, <1>3 DEF d

LEMMA PresignedOf ==
    ASSUME NEW cs \in Seq(Calls), NEW call \in Calls
    PROVE  LET d == Append(cs, call)
           IN  /\ PresignedBefore(d) <=> AnyPresigned(cs)
               /\ AnyPresigned(d) <=> AnyPresigned(cs) \/ call.presign
<1> DEFINE d == Append(cs, call)
<1>1. /\ Len(d) = Len(cs) + 1 /\ Len(cs) \in Nat /\ d[Len(cs) + 1] = call
      /\ \A i \in 1..Len(cs) : d[i] = cs[i]
  BY CallAppended
<1> HIDE DEF d
<1>2. Len(d) - 1 = Len(cs) /\ \A i \in 1..Len(d) : i \in 1..Len(cs) \/ i = Len(cs) + 1
  BY <1>1
<1>3. PresignedBefore(d) <=> AnyPresigned(cs)
  BY <1>1, <1>2 DEF PresignedBefore, AnyPresigned
<1>4. AnyPresigned(d) <=> AnyPresigned(cs) \/ call.presign
  <2>1. ASSUME AnyPresigned(d) PROVE AnyPresigned(cs) \/ call.presign
    BY <1>1, <1>2, <2>1 DEF AnyPresigned
  <2>2. ASSUME AnyPresigned(cs) PROVE AnyPresigned(d)
    BY <1>1, <2>2 DEF AnyPresigned
  <2>3. ASSUME call.presign PROVE AnyPresigned(d)
    <3>1. Len(cs) + 1 \in 1..Len(d)
      BY <1>1
    <3> QED
      BY <1>1, <2>3, <3>1 DEF AnyPresigned
  <2> QED
    BY <2>1, <2>2, <2>3
<1> QED
  BY <1>3, <1>4 DEF d

LEMMA SpoiledOf ==
    ASSUME NEW cs \in Seq(Calls), NEW call \in Calls
    PROVE  Spoiled(Append(cs, call)) <=>
              AnyPresigned(cs) \/ (call.hoist /\ cs # <<>> /\ Last(cs).time # call.time)
<1> DEFINE d == Append(cs, call)
<1>1. PresignedBefore(d) <=> AnyPresigned(cs)
  BY PresignedOf
<1>2. /\ Len(d) = Len(cs) + 1 /\ Len(cs) \in Nat /\ Last(d) = call
      /\ \A i \in 1..Len(cs) : d[i] = cs[i]
  BY CallAppended
<1>3. cs # <<>> <=> Len(cs) > 0
  OBVIOUS
<1> HIDE DEF d
<1>4. Len(d) > 1 <=> cs # <<>>
  BY <1>2, <1>3
<1>5. cs # <<>> => d[Len(d) - 1] = Last(cs)
  <2> SUFFICES ASSUME cs # <<>> PROVE d[Len(d) - 1] = Last(cs)
    OBVIOUS
  <2>1. Len(d) - 1 = Len(cs) /\ Len(cs) \in 1..Len(cs)
    BY <1>2, <1>3
  <2> QED
    BY <1>2, <2>1 DEF Last
<1>6. Spoiled(d) <=> AnyPresigned(cs) \/ (call.hoist /\ cs # <<>> /\ Last(cs).time # call.time)
  BY <1>1, <1>2, <1>4, <1>5 DEF Spoiled
<1> QED
  BY <1>6 DEF d

LEMMA LatestSigner ==
    ASSUME NEW cs \in Seq(Calls), Signers(cs) # {}
    PROVE  Max(Signers(cs)) \in Signers(cs) /\ \A i \in Signers(cs) : Max(Signers(cs)) >= i
<1>1. Len(cs) \in Nat
  OBVIOUS
<1>2. Signers(cs) \in SUBSET (0..Len(cs))
  BY <1>1 DEF Signers
<1> QED
  BY <1>1, <1>2, MaxIsGreatest

LEMMA MaxIs ==
    ASSUME NEW n \in Nat, NEW S \in SUBSET (0..n), NEW m \in S, \A i \in S : m >= i
    PROVE  Max(S) = m
<1> DEFINE y == Max(S)
<1>1. y \in S /\ y >= m
  BY MaxIsGreatest
<1>2. \A i \in S : i \in Nat
  OBVIOUS
<1> HIDE DEF y
<1>3. y = m
  BY <1>1, <1>2
<1> QED
  BY <1>3 DEF y

LEMMA SignersOf ==
    ASSUME NEW cs \in Seq(Calls), NEW call \in Calls
    PROVE  LET d == Append(cs, call)
           IN  IF SessionToken[call.cred] # None
               THEN Signers(d) # {} /\ LatestToken(d) = SessionToken[call.cred]
               ELSE Signers(d) = Signers(cs) /\ (Signers(cs) # {} => LatestToken(d) = LatestToken(cs))
<1> DEFINE d == Append(cs, call)
           k == Len(cs) + 1
<1>1. /\ Len(d) = k /\ Len(cs) \in Nat /\ d[k] = call
      /\ \A i \in 1..Len(cs) : d[i] = cs[i]
  BY CallAppended
<1> HIDE DEF d
<1>2. k \in Nat /\ k \in 1..k /\ \A i \in 1..k : i \in 1..Len(cs) \/ i = k
  BY <1>1
<1>3. CASE SessionToken[call.cred] # None
  <2>1. k \in Signers(d)
    BY <1>1, <1>2, <1>3 DEF Signers
  <2>2. Signers(d) \in SUBSET (0..k) /\ \A i \in Signers(d) : k >= i
    BY <1>1, <1>2 DEF Signers
  <2> HIDE DEF k
  <2>3. Max(Signers(d)) = k
    BY <1>2, <2>1, <2>2, MaxIs
  <2> QED
    BY <1>1, <1>3, <2>1, <2>3 DEF LatestToken, d
<1>4. CASE SessionToken[call.cred] = None
  <2>1. Signers(d) = Signers(cs)
    <3>1. k \notin 1..Len(cs)
      BY <1>1
    <3> QED
      BY <1>1, <1>2, <1>4, <3>1 DEF Signers
  <2>2. ASSUME Signers(cs) # {} PROVE LatestToken(d) = LatestToken(cs)
    <3>1. Max(Signers(cs)) \in 1..Len(cs)
      BY <2>2, LatestSigner DEF Signers
    <3> QED
      BY <1>1, <2>1, <3>1 DEF LatestToken
  <2> QED
    BY <1>4, <2>1, <2>2 DEF d
<1> QED
  BY <1>3, <1>4

TokenArrives(f, t) == "X-Amz-Security-Token" \in DOMAIN f /\ f["X-Amz-Security-Token"] = <<t>>

(* The headers hold the token of the last signer who has one. *)
TokenHeld(f, cs) ==
    IF Signers(cs) = {} THEN "X-Amz-Security-Token" \notin DOMAIN f ELSE TokenArrives(f, LatestToken(cs))

(* TokenOfSigner, of a request that arrives. *)
TokenOK(t, cs) ==
    ~PresignedBefore(cs) =>
        LET last   == Last(cs)
            own    == SessionToken[last.cred]
            before == {i \in 1..(Len(cs) - 1) : SessionToken[cs[i].cred] # None}
            f      == SigningFields(t)
            Arrived(x) == "X-Amz-Security-Token" \in DOMAIN f /\ f["X-Amz-Security-Token"] = <<x>>
        IN  IF own # None /\ ~(last.hoist /\ before # {}) THEN Arrived(own)
            ELSE IF before # {} /\ (last.hoist \/ ~last.presign)
                 THEN Arrived(SessionToken[cs[Max(before)].cred])
                 ELSE "X-Amz-Security-Token" \notin DOMAIN f

LEMMA TokenIsOK ==
    ASSUME NEW cs \in Seq(Calls), NEW call \in Calls, NEW t,
           LET own == SessionToken[call.cred]
               f   == SigningFields(t)
           IN  IF own # None /\ ~(call.hoist /\ Signers(cs) # {}) THEN TokenArrives(f, own)
               ELSE IF Signers(cs) # {} /\ (call.hoist \/ ~call.presign)
                    THEN TokenArrives(f, LatestToken(cs))
                    ELSE "X-Amz-Security-Token" \notin DOMAIN f
    PROVE  TokenOK(t, Append(cs, call))
<1> DEFINE d == Append(cs, call)
           before == {i \in 1..(Len(d) - 1) : SessionToken[d[i].cred] # None}
<1>1. /\ Len(d) = Len(cs) + 1 /\ Len(cs) \in Nat /\ Last(d) = call
      /\ \A i \in 1..Len(cs) : d[i] = cs[i]
  BY CallAppended
<1> HIDE DEF d
<1>2. before = Signers(cs)
  <2>1. Len(d) - 1 = Len(cs)
    BY <1>1
  <2> QED
    BY <1>1, <2>1 DEF Signers
<1> HIDE DEF before
<1>3. Signers(cs) # {} => SessionToken[d[Max(before)].cred] = LatestToken(cs)
  <2> SUFFICES ASSUME Signers(cs) # {} PROVE SessionToken[d[Max(before)].cred] = LatestToken(cs)
    OBVIOUS
  <2>1. Max(Signers(cs)) \in 1..Len(cs)
    BY LatestSigner DEF Signers
  <2> QED
    BY <1>1, <1>2, <2>1 DEF LatestToken
<1>4. TokenOK(t, d)
  BY <1>1, <1>2, <1>3, Zenon DEF TokenOK, TokenArrives, before
<1> QED
  BY <1>4 DEF d

(* Signing the headers leaves the signer's token in them, or the one that   *)
(* was there.                                                               *)
LEMMA TokenHeldOf ==
    ASSUME NEW cs \in Seq(Calls), NEW call \in Calls, NEW m, TokenHeld(m, cs), NEW f,
           SessionToken[call.cred] # None => TokenArrives(f, SessionToken[call.cred]),
           SessionToken[call.cred] = None =>
               /\ "X-Amz-Security-Token" \in DOMAIN f <=> "X-Amz-Security-Token" \in DOMAIN m
               /\ "X-Amz-Security-Token" \in DOMAIN m =>
                      f["X-Amz-Security-Token"] = m["X-Amz-Security-Token"]
    PROVE  TokenHeld(f, Append(cs, call))
<1> DEFINE d == Append(cs, call)
<1>1. IF SessionToken[call.cred] # None
      THEN Signers(d) # {} /\ LatestToken(d) = SessionToken[call.cred]
      ELSE Signers(d) = Signers(cs) /\ (Signers(cs) # {} => LatestToken(d) = LatestToken(cs))
  BY SignersOf
<1> HIDE DEF d
<1>2. TokenHeld(f, d)
  <2>1. CASE SessionToken[call.cred] # None
    BY <1>1, <2>1 DEF TokenHeld
  <2>2. CASE SessionToken[call.cred] = None
    BY <1>1, <2>2 DEF TokenHeld, TokenArrives
  <2> QED
    BY <2>1, <2>2
<1> QED
  BY <1>2 DEF d

-----------------------------------------------------------------------------
(* Signing the headers. *)

LEMMA VerifiedIs ==
    ASSUME NEW t
    PROVE  Verified(t) <=>
              /\ Verifies(t)
              /\ Presigned(t) => /\ Len(t.query["X-Amz-Signature"]) = 1
                                 /\ "Authorization" \notin DOMAIN t.headers
  BY DEF Verified, Verifies

(* The request s and the headers hs that SignHeaders signs. *)
FieldsOf(r, c) == setRequiredSigningFields(Set(r.headers, "Host", Written(r)), c)

Hosted(r, c) == SanitizeHostForHeader([r EXCEPT !.headers = FieldsOf(r, c)])

HeaderAuthorization(r, c) ==
    Authorization(Hosted(r, c), c, buildCanonicalHeaders(Hosted(r, c), FieldsOf(r, c)))

LEMMA SignHeadersIs ==
    ASSUME NEW r, NEW c
    PROVE  SignHeaders(r, c) =
              [Hosted(r, c) EXCEPT !.headers = Set(FieldsOf(r, c), "Authorization", HeaderAuthorization(r, c))]
  BY DEF SignHeaders, Hosted, FieldsOf, HeaderAuthorization

LEMMA FieldsAre ==
    ASSUME NEW r, ReqOK(r), NEW c
    PROVE  LET hs == FieldsOf(r, c)
           IN  /\ HeadersOK(hs)
               /\ DOMAIN hs = DOMAIN r.headers \cup {"Host", "X-Amz-Region-Set", "X-Amz-Date"} \cup TokenField(c)
               /\ hs["X-Amz-Date"] = <<now>>
               /\ SessionToken[c] # None => hs["X-Amz-Security-Token"] = <<SessionToken[c]>>
               /\ SessionToken[c] = None /\ "X-Amz-Security-Token" \in DOMAIN r.headers =>
                     hs["X-Amz-Security-Token"] = r.headers["X-Amz-Security-Token"]
<1> DEFINE m == Set(r.headers, "Host", Written(r))
           hs == FieldsOf(r, c)
<1>1. "Host" \notin CallerHeaders \cup {"Content-Length"}
  BY DEF CallerHeaders
<1>2. HeadersOK(m)
  BY <1>1, SetHeaders DEF ReqOK
<1>3. IsSet(m, r.headers, "Host", Written(r))
  BY SetIs
<1> HIDE DEF m
<1>4. hs = setRequiredSigningFields(m, c)
  BY DEF FieldsOf, m
<1> HIDE DEF hs
<1>5. HeadersOK(hs)
  BY <1>2, <1>4, SigningFieldsHeaders
<1>6. /\ DOMAIN hs = DOMAIN m \cup {"X-Amz-Region-Set", "X-Amz-Date"} \cup TokenField(c)
      /\ hs["X-Amz-Date"] = <<now>>
      /\ SessionToken[c] # None => hs["X-Amz-Security-Token"] = <<SessionToken[c]>>
      /\ \A h \in DOMAIN m \ ({"X-Amz-Region-Set", "X-Amz-Date"} \cup TokenField(c)) : hs[h] = m[h]
  BY <1>4, SigningFieldsSet
<1>7. DOMAIN m = DOMAIN r.headers \cup {"Host"}
  BY <1>3 DEF IsSet
<1>8. DOMAIN hs = DOMAIN r.headers \cup {"Host", "X-Amz-Region-Set", "X-Amz-Date"} \cup TokenField(c)
  BY <1>6, <1>7
<1>9. SessionToken[c] = None /\ "X-Amz-Security-Token" \in DOMAIN r.headers =>
         hs["X-Amz-Security-Token"] = r.headers["X-Amz-Security-Token"]
  BY <1>3, <1>6 DEF IsSet, TokenField
<1> QED
  BY <1>5, <1>6, <1>8, <1>9 DEF hs

LEMMA HostedIs ==
    ASSUME NEW r, ReqOK(r), NEW c
    PROVE  LET s == Hosted(r, c)
           IN  /\ Shape(s) /\ SameTarget(s, r) /\ s.query = r.query
               /\ UrlOK(s) /\ HostSanitary(s)
<1> DEFINE x == [r EXCEPT !.headers = FieldsOf(r, c)]
           s == Hosted(r, c)
<1>1. Shape(x) /\ SameTarget(x, r) /\ x.host = r.host /\ x.query = r.query
  BY HeadersReplaced DEF ReqOK
<1>2. s = SanitizeHostForHeader(x)
  BY DEF Hosted
<1> HIDE DEF x, s
<1>3. HostOK(x) /\ UrlOK(x)
  BY <1>1, KeepsHost DEF ReqOK
<1>4. Shape(s) /\ SameTarget(s, x) /\ s.query = x.query /\ UrlOK(s) /\ HostSanitary(s)
  BY <1>1, <1>2, <1>3, HostSanitized
<1>5. SameTarget(s, r)
  BY <1>1, <1>4 DEF SameTarget
<1> QED
  BY <1>1, <1>4, <1>5 DEF s

LEMMA SignHeadersResult ==
    ASSUME NEW r, ReqOK(r), NEW c
    PROVE  LET o == SignHeaders(r, c)
           IN  /\ ReqOK(o) /\ HostSanitary(o) /\ o.query = r.query
               /\ SameTarget(o, Hosted(r, c)) /\ o.host = Hosted(r, c).host
               /\ IsSet(o.headers, FieldsOf(r, c), "Authorization", HeaderAuthorization(r, c))
<1> DEFINE s == Hosted(r, c)
           hs == FieldsOf(r, c)
           a == HeaderAuthorization(r, c)
           m == Set(hs, "Authorization", a)
           o == SignHeaders(r, c)
<1>1. Shape(s) /\ s.query = r.query /\ UrlOK(s) /\ HostSanitary(s)
  BY HostedIs
<1>2. HeadersOK(hs)
  BY FieldsAre
<1>3. o = [s EXCEPT !.headers = m]
  BY SignHeadersIs
<1> HIDE DEF s, hs, a, o
<1>4. IsSet(m, hs, "Authorization", a)
  BY SetIs
<1>5. HeadersOK(m)
  <2>1. "Authorization" \notin CallerHeaders \cup {"Content-Length"}
    BY DEF CallerHeaders
  <2> QED
    BY <1>2, <2>1, SetHeaders
<1> HIDE DEF m
<1>6. Shape(o) /\ SameTarget(o, s) /\ o.host = s.host /\ o.query = s.query /\ o.headers = m
  BY <1>1, <1>3, HeadersReplaced
<1>7. UrlOK(o) /\ HostSanitary(o)
  BY <1>1, <1>6, KeepsHost
<1>8. ReqOK(o)
  BY <1>1, <1>5, <1>6, <1>7, SanitaryIsOK DEF ReqOK
<1> QED
  BY <1>1, <1>4, <1>6, <1>7, <1>8 DEF s, hs, a, o

(* o goes out for the request x: callers send x itself, the operator passes *)
(* it on without its Host header.                                           *)
GoesOutFor(o, x) ==
    /\ Shape(o) /\ SameTarget(o, x) /\ o.host = x.host /\ o.query = x.query
    /\ DOMAIN o.headers \subseteq DOMAIN x.headers
    /\ \A h \in DOMAIN x.headers \ {"Host"} : h \in DOMAIN o.headers /\ o.headers[h] = x.headers[h]

LEMMA HeadersArrive ==
    ASSUME NEW r, ReqOK(r), NEW c, NEW o, GoesOutFor(o, SignHeaders(r, c))
    PROVE  LET t == Sent(o)
               hs == FieldsOf(r, c)
           IN  /\ t.query = r.query /\ "Authorization" \in DOMAIN t.headers
               /\ t.headers["Authorization"] = <<HeaderAuthorization(r, c)>>
               /\ \A h \in SigningHeaders : /\ h \in DOMAIN t.headers <=> h \in DOMAIN hs
                                            /\ h \in DOMAIN hs => t.headers[h] = hs[h]
<1> DEFINE x == SignHeaders(r, c)
           hs == FieldsOf(r, c)
           a == HeaderAuthorization(r, c)
           t == Sent(o)
<1>1. x.query = r.query /\ IsSet(x.headers, hs, "Authorization", a)
  BY SignHeadersResult
<1>2. GoesOutFor(o, x)
  OBVIOUS
<1>3. /\ t.query = o.query
      /\ DOMAIN t.headers = DOMAIN o.headers \cup {"Host"} \cup ContentLength(o)
      /\ \A h \in DOMAIN o.headers \ {"Host", "Content-Length"} :
            t.headers[h] = Arrives(h, o.headers[h])
  BY SentIs DEF GoesOutFor
<1> HIDE DEF x, hs, a, t
<1>4. t.query = r.query
  BY <1>1, <1>2, <1>3 DEF GoesOutFor
<1>5. \A h \in DOMAIN x.headers : h \notin {"Host", "Content-Length"} \cup CallerHeaders =>
          h \in DOMAIN o.headers /\ t.headers[h] = x.headers[h]
  BY <1>2, <1>3 DEF GoesOutFor, Arrives
<1>6. "Authorization" \in DOMAIN t.headers /\ t.headers["Authorization"] = <<a>>
  <2>1. "Authorization" \notin {"Host", "Content-Length"} \cup CallerHeaders
    BY DEF CallerHeaders
  <2> QED
    BY <1>1, <1>3, <1>5, <2>1 DEF IsSet
<1>7. ASSUME NEW h \in SigningHeaders
      PROVE  (h \in DOMAIN t.headers <=> h \in DOMAIN hs) /\ (h \in DOMAIN hs => t.headers[h] = hs[h])
  <2>1. h \notin {"Host", "Content-Length", "Authorization"} \cup CallerHeaders
    BY DEF SigningHeaders, CallerHeaders
  <2>2. h \in DOMAIN x.headers <=> h \in DOMAIN hs
    BY <1>1, <2>1 DEF IsSet
  <2>3. h \in DOMAIN hs => x.headers[h] = hs[h]
    BY <1>1, <2>1 DEF IsSet
  <2>4. h \in DOMAIN t.headers <=> h \in DOMAIN x.headers
    BY <1>2, <1>3, <2>1 DEF GoesOutFor, ContentLength
  <2> QED
    BY <1>5, <2>1, <2>2, <2>3, <2>4
<1> QED
  BY <1>4, <1>6, <1>7 DEF t, hs, a

LEMMA HeadersSigned ==
    ASSUME NEW r, ReqOK(r), "X-Amz-Signature" \notin DOMAIN r.query, NEW c,
           NEW o, GoesOutFor(o, SignHeaders(r, c))
    PROVE  Verified(Sent(o))
<1> DEFINE x == SignHeaders(r, c)
           hs == FieldsOf(r, c)
           s == Hosted(r, c)
           a == HeaderAuthorization(r, c)
           t == Sent(o)
<1>1. /\ ReqOK(x) /\ x.query = r.query /\ IsSet(x.headers, hs, "Authorization", a)
      /\ x.host = s.host /\ SameTarget(x, s)
  BY SignHeadersResult
<1>2. s.query = r.query /\ Shape(s)
  BY HostedIs
<1>3. /\ HeadersOK(hs) /\ hs["X-Amz-Date"] = <<now>>
      /\ "Host" \in DOMAIN hs /\ "X-Amz-Date" \in DOMAIN hs
  BY FieldsAre
<1>4. a = Authorization(s, c, buildCanonicalHeaders(s, hs))
  BY DEF HeaderAuthorization
<1>5. /\ t.query = r.query /\ t.headers["Authorization"] = <<a>>
      /\ \A h \in SigningHeaders : h \in DOMAIN hs => t.headers[h] = hs[h]
  BY HeadersArrive
<1>6. GoesOutFor(o, x)
  OBVIOUS
<1> HIDE DEF x, hs, s, a, t
<1>7. ~Presigned(t) /\ AuthorizationOf(t) = a /\ SigningFields(t)["X-Amz-Date"] = <<now>>
  BY <1>3, <1>5 DEF Presigned, AuthorizationOf, SigningFields, SigningHeaders
<1>8. s.query = [k \in DOMAIN o.query \ {"X-Amz-Signature"} |-> o.query[k]]
  <2>1. o.query = r.query /\ Map(r.query)
    BY <1>1, <1>6 DEF GoesOutFor, ReqOK
  <2>2. DOMAIN r.query \ {"X-Amz-Signature"} = DOMAIN r.query
    OBVIOUS
  <2> QED
    BY <1>2, <2>1, <2>2 DEF Map
<1>9. \A h \in DOMAIN hs \ IgnoredHeaders : h = "Host" \/ (h \in DOMAIN o.headers /\ o.headers[h] = hs[h])
  BY <1>1, <1>6 DEF GoesOutFor, IsSet, IgnoredHeaders
<1>10. DOMAIN o.headers \cap AmzHeaders \subseteq DOMAIN hs
  BY <1>1, <1>6 DEF GoesOutFor, IsSet, AmzHeaders, SigningHeaders
<1>11. Signs(o, a, c, s, hs)
  BY <1>1, <1>3, <1>4, <1>6, <1>7, <1>8, <1>9, <1>10 DEF Signs, GoesOutFor, SameTarget, t
<1> QED
  BY <1>7, <1>11, SignedVerifies, VerifiedIs DEF t

(* A verifier finds the old signature, in the query, beside the new one. *)
LEMMA HeadersSpoiled ==
    ASSUME NEW r, ReqOK(r), "X-Amz-Signature" \in DOMAIN r.query, NEW c
    PROVE  ~Verified(Sent(SignHeaders(r, c)))
<1> DEFINE x == SignHeaders(r, c)
           t == Sent(x)
<1>1. GoesOutFor(x, x)
  BY SignHeadersResult DEF GoesOutFor, ReqOK, SameTarget
<1>2. t.query = r.query /\ "Authorization" \in DOMAIN t.headers
  BY <1>1, HeadersArrive
<1> HIDE DEF t
<1>3. Presigned(t)
  BY <1>2 DEF Presigned
<1> QED
  BY <1>2, <1>3, VerifiedIs DEF t

(* The token in the headers. *)
LEMMA TokenOfHeaders ==
    ASSUME NEW r, ReqOK(r), NEW c, NEW o, GoesOutFor(o, SignHeaders(r, c)), NEW f,
           f = SignHeaders(r, c).headers \/ f = Sent(o).headers
    PROVE  /\ SessionToken[c] # None => TokenArrives(f, SessionToken[c])
           /\ SessionToken[c] = None =>
                  /\ "X-Amz-Security-Token" \in DOMAIN f <=> "X-Amz-Security-Token" \in DOMAIN r.headers
                  /\ "X-Amz-Security-Token" \in DOMAIN r.headers =>
                        f["X-Amz-Security-Token"] = r.headers["X-Amz-Security-Token"]
<1> DEFINE hs == FieldsOf(r, c)
           x == SignHeaders(r, c)
           t == Sent(o)
<1>1. /\ DOMAIN hs = DOMAIN r.headers \cup {"Host", "X-Amz-Region-Set", "X-Amz-Date"} \cup TokenField(c)
      /\ SessionToken[c] # None => hs["X-Amz-Security-Token"] = <<SessionToken[c]>>
      /\ SessionToken[c] = None /\ "X-Amz-Security-Token" \in DOMAIN r.headers =>
            hs["X-Amz-Security-Token"] = r.headers["X-Amz-Security-Token"]
  BY FieldsAre
<1>2. \A h \in SigningHeaders : /\ h \in DOMAIN t.headers <=> h \in DOMAIN hs
                                /\ h \in DOMAIN hs => t.headers[h] = hs[h]
  BY HeadersArrive
<1>3. IsSet(x.headers, hs, "Authorization", HeaderAuthorization(r, c))
  BY SignHeadersResult
<1>4. f = x.headers \/ f = t.headers
  OBVIOUS
<1> HIDE DEF hs, t, x
<1>5. /\ "X-Amz-Security-Token" \in DOMAIN f <=> "X-Amz-Security-Token" \in DOMAIN hs
      /\ "X-Amz-Security-Token" \in DOMAIN hs => f["X-Amz-Security-Token"] = hs["X-Amz-Security-Token"]
  <2>1. "X-Amz-Security-Token" \in SigningHeaders /\ "X-Amz-Security-Token" # "Authorization"
    BY DEF SigningHeaders
  <2>2. CASE f = x.headers
    BY <1>3, <2>1, <2>2 DEF IsSet
  <2>3. CASE f = t.headers
    BY <1>2, <2>1, <2>3
  <2> QED
    BY <1>4, <2>2, <2>3
<1>6. CASE SessionToken[c] # None
  BY <1>1, <1>5, <1>6 DEF TokenField, TokenArrives
<1>7. CASE SessionToken[c] = None
  BY <1>1, <1>5, <1>7 DEF TokenField
<1> QED
  BY <1>6, <1>7

LEMMA GoesOutItself == ASSUME NEW x, ReqOK(x) PROVE GoesOutFor(x, x)
  BY DEF GoesOutFor, ReqOK, SameTarget

LEMMA SameAuthorityArrives ==
    ASSUME NEW x, ReqOK(x), HostSanitary(x), NEW o, GoesOutFor(o, x)
    PROVE  AuthorityOK(Sent(o))
<1>1. UrlOK(o) /\ HostSanitary(o)
  BY KeepsHost DEF GoesOutFor, ReqOK
<1> QED
  BY <1>1, HostArrives DEF GoesOutFor

(* No caller has added a header to the request of the operator. *)
LEMMA ForwardedGoesOut ==
    ASSUME NEW x, ReqOK(x), DOMAIN x.headers \cap CallerHeaders = {}
    PROVE  GoesOutFor(Forwarded(x), x)
<1> DEFINE m == [h \in DOMAIN x.headers \ {"Host"} |-> <<x.headers[h][1]>>]
           o == Forwarded(x)
<1>1. o = [x EXCEPT !.headers = m]
  BY DEF Forwarded
<1>2. DOMAIN m = DOMAIN x.headers \ {"Host"}
  OBVIOUS
<1>3. ASSUME NEW h \in DOMAIN x.headers \ {"Host"} PROVE m[h] = x.headers[h]
  <2>1. PICK v : x.headers[h] = <<v>>
    BY DEF ReqOK, HeadersOK
  <2>2. m[h] = <<x.headers[h][1]>>
    OBVIOUS
  <2> HIDE DEF m
  <2> QED
    BY <2>1, <2>2
<1> HIDE DEF m, o
<1>4. Shape(o) /\ SameTarget(o, x) /\ o.host = x.host /\ o.query = x.query /\ o.headers = m
  BY <1>1, HeadersReplaced DEF ReqOK
<1>5. GoesOutFor(o, x)
  BY <1>2, <1>3, <1>4 DEF GoesOutFor
<1> QED
  BY <1>5 DEF o

LEMMA NewRequestIsOK ==
    ASSUME NEW u, UrlOK(u)
    PROVE  /\ ReqOK(Request(u)) /\ DOMAIN Request(u).headers = {}
           /\ DOMAIN Request(u).query = {"Action"}
<1> DEFINE r == Request(u)
<1>1. /\ Shape(r) /\ r.headers = <<>> /\ r.host = Written(u)
      /\ r.scheme = u.scheme /\ r.name = u.name /\ r.v6 = u.v6 /\ r.port = u.port
      /\ r.query = [k \in {"Action"} |-> <<"GetCallerIdentity">>]
  BY DEF Request, Shape
<1> HIDE DEF r
<1>2. DOMAIN r.headers = {}
  BY <1>1
<1>3. DOMAIN r.query = {"Action"} /\ Map(r.query)
  BY <1>1 DEF Map
<1>4. Written(r) = Written(u) /\ UrlOK(r)
  <2>1. Alphabet(r) = Alphabet(u)
    BY <1>1 DEF Alphabet
  <2> QED
    BY <1>1, <2>1 DEF Written, UrlOK
<1>5. ReqOK(r)
  BY <1>1, <1>2, <1>3, <1>4 DEF ReqOK, HeadersOK, HostOK
<1> QED
  BY <1>2, <1>3, <1>5 DEF r

-----------------------------------------------------------------------------
(* Signing the query. *)

Hoisted(r, hoist) ==
    IF hoist THEN DOMAIN Set(r.headers, "Host", Written(r)) \cap AllowedQueryHoisting ELSE {}

HeadersLeft(r, hoist) ==
    [h \in DOMAIN Set(r.headers, "Host", Written(r)) \ Hoisted(r, hoist) |-> Set(r.headers, "Host", Written(r))[h]]

QueryHosted(r, hoist) == SanitizeHostForHeader([r EXCEPT !.headers = HeadersLeft(r, hoist)])

HoistedQuery(r, c, hoist) ==
    LET q1 == setRequiredSigningFields(r.query, c)
        hs == Set(r.headers, "Host", Written(r))
    IN  [k \in DOMAIN q1 \cup Hoisted(r, hoist) |-> IF k \in Hoisted(r, hoist) THEN hs[k] ELSE q1[k]]

SignedQuery(r, c, hoist) ==
    Set(Set(HoistedQuery(r, c, hoist), "X-Amz-Credential", c), "X-Amz-SignedHeaders",
        DOMAIN buildCanonicalHeaders(QueryHosted(r, hoist), QueryHosted(r, hoist).headers))

ToSign(r, c, hoist) ==
    LET s == QueryHosted(r, hoist)
    IN  [s EXCEPT !.query = SignedQuery(r, c, hoist),
                  !.headers = [h \in DOMAIN s.headers \ IgnoredHeaders |-> s.headers[h]]]

QueryAuthorization(r, c, hoist) ==
    Authorization(ToSign(r, c, hoist), c,
                  buildCanonicalHeaders(QueryHosted(r, hoist), QueryHosted(r, hoist).headers))

LEMMA SignQueryIs ==
    ASSUME NEW r, NEW c, NEW hoist
    PROVE  SignQuery(r, c, hoist) =
              [ToSign(r, c, hoist) EXCEPT
                  !.query = Add(SignedQuery(r, c, hoist), "X-Amz-Signature", QueryAuthorization(r, c, hoist))]
  BY DEF SignQuery, ToSign, SignedQuery, QueryAuthorization, HoistedQuery, QueryHosted, HeadersLeft, Hoisted

LEMMA HoistedAre ==
    ASSUME NEW r, NEW hoist \in BOOLEAN
    PROVE  /\ Hoisted(r, hoist) \subseteq DOMAIN r.headers \cap AllowedQueryHoisting
           /\ "Host" \notin Hoisted(r, hoist)
           /\ hoist => \A h \in SigningHeaders : h \in Hoisted(r, hoist) <=> h \in DOMAIN r.headers
           /\ ~hoist => Hoisted(r, hoist) = {}
<1>1. DOMAIN Set(r.headers, "Host", Written(r)) = DOMAIN r.headers \cup {"Host"}
  BY SetIs DEF IsSet
<1>2. "Host" \notin AllowedQueryHoisting /\ "Host" \notin SigningHeaders
  BY DEF AllowedQueryHoisting, AmzHeaders, SigningHeaders
<1>3. SigningHeaders \subseteq AllowedQueryHoisting
  BY DEF AllowedQueryHoisting, AmzHeaders, SigningHeaders, RequiredSignedHeaders
<1> QED
  BY <1>1, <1>2, <1>3 DEF Hoisted

LEMMA HeadersLeftAre ==
    ASSUME NEW r, ReqOK(r), NEW hoist \in BOOLEAN
    PROVE  HeadersOK(HeadersLeft(r, hoist)) /\ "Host" \in DOMAIN HeadersLeft(r, hoist)
<1> DEFINE m == Set(r.headers, "Host", Written(r))
           l == HeadersLeft(r, hoist)
           up == Hoisted(r, hoist)
<1>1. "Host" \in DOMAIN m /\ HeadersOK(m)
  <2>1. "Host" \notin CallerHeaders \cup {"Content-Length"}
    BY DEF CallerHeaders
  <2>2. HeadersOK(m)
    BY <2>1, SetHeaders DEF ReqOK
  <2>3. IsSet(m, r.headers, "Host", Written(r))
    BY SetIs
  <2>4. "Host" \in DOMAIN m
    <3> HIDE DEF m
    <3> QED
      BY <2>3 DEF IsSet
  <2> QED
    BY <2>2, <2>4
<1>2. l = [h \in DOMAIN m \ up |-> m[h]]
  BY DEF HeadersLeft
<1>3. "Host" \notin up
  BY HoistedAre
<1> HIDE DEF m, l, up
<1>4. DOMAIN l = DOMAIN m \ up /\ \A h \in DOMAIN l : l[h] = m[h]
  BY <1>2
<1>5. HeadersOK(l)
  BY <1>1, <1>4 DEF HeadersOK
<1> QED
  BY <1>1, <1>3, <1>4, <1>5 DEF l

LEMMA QueryHostedIs ==
    ASSUME NEW r, ReqOK(r), NEW hoist
    PROVE  LET s == QueryHosted(r, hoist)
           IN  Shape(s) /\ s.headers = HeadersLeft(r, hoist) /\ UrlOK(s) /\ HostSanitary(s)
<1> DEFINE x == [r EXCEPT !.headers = HeadersLeft(r, hoist)]
           s == QueryHosted(r, hoist)
<1>1. Shape(x) /\ SameTarget(x, r) /\ x.host = r.host /\ x.headers = HeadersLeft(r, hoist)
  BY HeadersReplaced DEF ReqOK
<1>2. s = SanitizeHostForHeader(x)
  BY DEF QueryHosted
<1> HIDE DEF x, s
<1>3. HostOK(x) /\ UrlOK(x)
  BY <1>1, KeepsHost DEF ReqOK
<1>4. Shape(s) /\ s.headers = x.headers /\ UrlOK(s) /\ HostSanitary(s)
  BY <1>1, <1>2, <1>3, HostSanitized
<1> QED
  BY <1>1, <1>4 DEF s

(* The query before the signature is added: what a header hoists over the   *)
(* date and the token, and an old signature.                                *)
LEMMA SignedQueryIs ==
    ASSUME NEW r, ReqOK(r), NEW c, NEW hoist \in BOOLEAN
    PROVE  LET q == SignedQuery(r, c, hoist)
           IN  /\ Map(q) /\ "X-Amz-Date" \in DOMAIN q
               /\ "X-Amz-Signature" \in DOMAIN q <=> "X-Amz-Signature" \in DOMAIN r.query
               /\ "X-Amz-Signature" \in DOMAIN q => q["X-Amz-Signature"] = r.query["X-Amz-Signature"]
               /\ q["X-Amz-Date"] = IF hoist /\ "X-Amz-Date" \in DOMAIN r.headers
                                    THEN r.headers["X-Amz-Date"] ELSE <<now>>
               /\ IF hoist /\ "X-Amz-Security-Token" \in DOMAIN r.headers
                  THEN /\ "X-Amz-Security-Token" \in DOMAIN q
                       /\ q["X-Amz-Security-Token"] = r.headers["X-Amz-Security-Token"]
                  ELSE IF SessionToken[c] # None THEN TokenArrives(q, SessionToken[c])
                  ELSE "X-Amz-Security-Token" \in DOMAIN q => "X-Amz-Security-Token" \in DOMAIN r.query
<1> DEFINE up == Hoisted(r, hoist)
           hs == Set(r.headers, "Host", Written(r))
           q1 == setRequiredSigningFields(r.query, c)
           q2 == HoistedQuery(r, c, hoist)
           q3 == Set(q2, "X-Amz-Credential", c)
           names == DOMAIN buildCanonicalHeaders(QueryHosted(r, hoist), QueryHosted(r, hoist).headers)
           q == SignedQuery(r, c, hoist)
<1>1. /\ up \subseteq DOMAIN r.headers \cap AllowedQueryHoisting
      /\ hoist => \A h \in SigningHeaders : h \in up <=> h \in DOMAIN r.headers
      /\ ~hoist => up = {}
  BY HoistedAre
<1>2. /\ DOMAIN q1 = DOMAIN r.query \cup {"X-Amz-Region-Set", "X-Amz-Date"} \cup TokenField(c)
      /\ q1["X-Amz-Date"] = <<now>>
      /\ SessionToken[c] # None => q1["X-Amz-Security-Token"] = <<SessionToken[c]>>
      /\ \A h \in DOMAIN r.query \ ({"X-Amz-Region-Set", "X-Amz-Date"} \cup TokenField(c)) : q1[h] = r.query[h]
  BY SigningFieldsSet
<1>3. q2 = [k \in DOMAIN q1 \cup up |-> IF k \in up THEN hs[k] ELSE q1[k]]
  BY DEF HoistedQuery
<1>4. IsSet(hs, r.headers, "Host", Written(r))
  BY SetIs
<1>5. IsSet(q3, q2, "X-Amz-Credential", c)
  BY SetIs
<1>6. IsSet(q, q3, "X-Amz-SignedHeaders", names)
  <2>1. q = Set(q3, "X-Amz-SignedHeaders", names)
    BY DEF SignedQuery
  <2> HIDE DEF q, q3, names
  <2> QED
    BY <2>1, SetIs
<1> HIDE DEF up, hs, q1, q2, q3, names, q
<1>7. /\ DOMAIN q2 = DOMAIN q1 \cup up /\ \A k \in DOMAIN q1 \ up : q2[k] = q1[k]
      /\ \A k \in up : q2[k] = hs[k]
  BY <1>3
<1>8. /\ DOMAIN q = DOMAIN q1 \cup up \cup {"X-Amz-Credential", "X-Amz-SignedHeaders"} /\ Map(q)
      /\ \A k \in (DOMAIN q1 \ up) \ {"X-Amz-Credential", "X-Amz-SignedHeaders"} : q[k] = q1[k]
      /\ \A k \in up \ {"X-Amz-Credential", "X-Amz-SignedHeaders"} : q[k] = hs[k]
  BY <1>5, <1>6, <1>7 DEF IsSet
<1>9. \A k \in SigningHeaders : k \in up => k \in DOMAIN q /\ q[k] = r.headers[k]
  <2>1. \A k \in SigningHeaders : k \notin {"Host", "X-Amz-Credential", "X-Amz-SignedHeaders"}
    BY DEF SigningHeaders
  <2> QED
    BY <1>1, <1>4, <1>8, <2>1 DEF IsSet
<1>10. "X-Amz-Date" \in SigningHeaders /\ "X-Amz-Security-Token" \in SigningHeaders
  BY DEF SigningHeaders
<1>11. /\ "X-Amz-Signature" \in DOMAIN q <=> "X-Amz-Signature" \in DOMAIN r.query
       /\ "X-Amz-Signature" \in DOMAIN q => q["X-Amz-Signature"] = r.query["X-Amz-Signature"]
  <2>1. "X-Amz-Signature" \notin up
    BY <1>1 DEF AllowedQueryHoisting, AmzHeaders, SigningHeaders
  <2>2. "X-Amz-Signature" \notin {"X-Amz-Region-Set", "X-Amz-Date"} \cup TokenField(c)
    BY DEF TokenField
  <2>3. "X-Amz-Signature" \notin {"X-Amz-Credential", "X-Amz-SignedHeaders"}
    OBVIOUS
  <2> QED
    BY <1>2, <1>8, <2>1, <2>2, <2>3
<1>12. /\ "X-Amz-Date" \in DOMAIN q
       /\ q["X-Amz-Date"] = IF hoist /\ "X-Amz-Date" \in DOMAIN r.headers
                            THEN r.headers["X-Amz-Date"] ELSE <<now>>
  <2>1. CASE hoist /\ "X-Amz-Date" \in DOMAIN r.headers
    BY <1>1, <1>9, <1>10, <2>1
  <2>2. CASE ~(hoist /\ "X-Amz-Date" \in DOMAIN r.headers)
    <3>1. "X-Amz-Date" \notin up
      BY <1>1, <2>2
    <3> QED
      BY <1>2, <1>8, <2>2, <3>1
  <2> QED
    BY <2>1, <2>2
<1>13. IF hoist /\ "X-Amz-Security-Token" \in DOMAIN r.headers
       THEN /\ "X-Amz-Security-Token" \in DOMAIN q
            /\ q["X-Amz-Security-Token"] = r.headers["X-Amz-Security-Token"]
       ELSE IF SessionToken[c] # None THEN TokenArrives(q, SessionToken[c])
       ELSE "X-Amz-Security-Token" \in DOMAIN q => "X-Amz-Security-Token" \in DOMAIN r.query
  <2>1. CASE hoist /\ "X-Amz-Security-Token" \in DOMAIN r.headers
    BY <1>1, <1>9, <1>10, <2>1
  <2>2. CASE ~(hoist /\ "X-Amz-Security-Token" \in DOMAIN r.headers)
    <3>1. "X-Amz-Security-Token" \notin up
      BY <1>1, <2>2
    <3>2. CASE SessionToken[c] # None
      BY <1>2, <1>8, <2>2, <3>1, <3>2 DEF TokenField, TokenArrives
    <3>3. CASE SessionToken[c] = None
      BY <1>2, <1>8, <2>2, <3>1, <3>3 DEF TokenField
    <3> QED
      BY <3>2, <3>3
  <2> QED
    BY <2>1, <2>2
<1> QED
  BY <1>8, <1>11, <1>12, <1>13 DEF q

LEMMA CanonicalOfHostAndLength ==
    ASSUME NEW p, NEW s, NEW m, p.host = s.host, p.length = s.length
    PROVE  buildCanonicalHeaders(s, m) = buildCanonicalHeaders(p, m)
  BY Zenon DEF buildCanonicalHeaders

LEMMA SignQueryResult ==
    ASSUME NEW r, ReqOK(r), NEW c, NEW hoist \in BOOLEAN
    PROVE  LET o == SignQuery(r, c, hoist)
               p == ToSign(r, c, hoist)
               m == HeadersLeft(r, hoist)
               a == QueryAuthorization(r, c, hoist)
           IN  /\ Shape(o) /\ UrlOK(o) /\ HostSanitary(o)
               /\ a = Authorization(p, c, buildCanonicalHeaders(p, m))
               /\ p.host = o.host /\ p.length = o.length /\ p.method = o.method /\ p.path = o.path
               /\ p.query = SignedQuery(r, c, hoist)
               /\ o.query = Add(p.query, "X-Amz-Signature", a)
               /\ DOMAIN o.headers = DOMAIN m \ IgnoredHeaders
               /\ \A h \in DOMAIN o.headers : o.headers[h] = m[h]
<1> DEFINE o == SignQuery(r, c, hoist)
           p == ToSign(r, c, hoist)
           s == QueryHosted(r, hoist)
           m == HeadersLeft(r, hoist)
           l == [h \in DOMAIN m \ IgnoredHeaders |-> m[h]]
           a == QueryAuthorization(r, c, hoist)
           q == SignedQuery(r, c, hoist)
           qs == Add(q, "X-Amz-Signature", a)
<1>1. Shape(s) /\ s.headers = m /\ UrlOK(s) /\ HostSanitary(s)
  BY QueryHostedIs
<1>2. p = [s EXCEPT !.query = q, !.headers = [h \in DOMAIN s.headers \ IgnoredHeaders |-> s.headers[h]]]
  BY DEF ToSign
<1>3. o = [p EXCEPT !.query = qs]
  BY SignQueryIs
<1>4. a = Authorization(p, c, buildCanonicalHeaders(s, s.headers))
  BY DEF QueryAuthorization
<1> HIDE DEF o, p, s, m, a, q
<1>5. DOMAIN l = DOMAIN m \ IgnoredHeaders /\ \A h \in DOMAIN l : l[h] = m[h]
  OBVIOUS
<1>6. p = [s EXCEPT !.query = q, !.headers = l]
  BY <1>1, <1>2
<1> HIDE DEF l, qs
<1>7. Shape(p) /\ SameTarget(p, s) /\ p.host = s.host /\ p.query = q /\ p.headers = l
  <2> DEFINE y == [s EXCEPT !.query = q]
  <2>1. Shape(y) /\ SameTarget(y, s) /\ y.host = s.host /\ y.query = q
    BY <1>1, QueryReplaced
  <2>2. p = [y EXCEPT !.headers = l]
    BY <1>6
  <2> HIDE DEF y
  <2>3. Shape(p) /\ SameTarget(p, y) /\ p.host = y.host /\ p.query = y.query /\ p.headers = l
    BY <2>1, <2>2, HeadersReplaced
  <2> QED
    BY <2>1, <2>3 DEF SameTarget
<1>8. Shape(o) /\ SameTarget(o, p) /\ o.host = p.host /\ o.query = qs /\ o.headers = p.headers
  BY <1>3, <1>7, QueryReplaced
<1>9. buildCanonicalHeaders(s, s.headers) = buildCanonicalHeaders(p, m)
  BY <1>1, <1>7, CanonicalOfHostAndLength DEF SameTarget
<1>10. UrlOK(o) /\ HostSanitary(o)
  <2>1. SameTarget(o, s) /\ o.host = s.host
    BY <1>7, <1>8 DEF SameTarget
  <2> QED
    BY <1>1, <2>1, KeepsHost
<1>11. p.host = o.host /\ p.length = o.length /\ p.method = o.method /\ p.path = o.path
  BY <1>8 DEF SameTarget
<1> QED
  BY <1>4, <1>5, <1>7, <1>8, <1>9, <1>10, <1>11 DEF o, p, m, a, q, qs

(* What arrives of a presigned request. *)
QueryOut(t, r, q, a) ==
    /\ Presigned(t) /\ SigningFields(t) = t.query /\ "Authorization" \notin DOMAIN t.headers
    /\ DOMAIN t.query = DOMAIN q \cup {"X-Amz-Signature"}
    /\ t.query["X-Amz-Signature"] = IF "X-Amz-Signature" \in DOMAIN r.query
                                    THEN Append(r.query["X-Amz-Signature"], a) ELSE <<a>>
    /\ \A k \in DOMAIN q : k # "X-Amz-Signature" => t.query[k] = q[k]

LEMMA QueryArrives ==
    ASSUME NEW r, ReqOK(r), NEW c, NEW hoist \in BOOLEAN
    PROVE  LET o == SignQuery(r, c, hoist)
           IN  /\ QueryOut(Sent(o), r, SignedQuery(r, c, hoist), QueryAuthorization(r, c, hoist))
               /\ AuthorityOK(Sent(o)) /\ Sent(o).query = o.query /\ Map(o.query)
<1> DEFINE o == SignQuery(r, c, hoist)
           q == SignedQuery(r, c, hoist)
           a == QueryAuthorization(r, c, hoist)
           m == HeadersLeft(r, hoist)
           t == Sent(o)
<1>1. /\ Shape(o) /\ UrlOK(o) /\ HostSanitary(o) /\ o.query = Add(q, "X-Amz-Signature", a)
      /\ DOMAIN o.headers = DOMAIN m \ IgnoredHeaders
  BY SignQueryResult
<1>2. /\ "X-Amz-Signature" \in DOMAIN q <=> "X-Amz-Signature" \in DOMAIN r.query
      /\ "X-Amz-Signature" \in DOMAIN q => q["X-Amz-Signature"] = r.query["X-Amz-Signature"]
  BY SignedQueryIs
<1> HIDE DEF o, q, a, m
<1>3. IsAdded(o.query, q, "X-Amz-Signature", a)
  BY <1>1, AddIs
<1>4. AuthorityOK(t)
  BY <1>1, HostArrives
<1>5. t.query = o.query /\ DOMAIN t.headers = DOMAIN o.headers \cup {"Host"} \cup ContentLength(o)
  BY <1>1, SentIs
<1> HIDE DEF t
<1>6. Presigned(t) /\ SigningFields(t) = t.query
  BY <1>3, <1>5 DEF Presigned, SigningFields, IsAdded
<1>7. "Authorization" \notin DOMAIN t.headers
  BY <1>1, <1>5 DEF IgnoredHeaders, ContentLength
<1>8. QueryOut(t, r, q, a) /\ Map(o.query)
  BY <1>2, <1>3, <1>5, <1>6, <1>7 DEF QueryOut, IsAdded
<1> QED
  BY <1>4, <1>5, <1>8 DEF o, q, a, t

LEMMA QueryVerified ==
    ASSUME NEW r, ReqOK(r), "X-Amz-Signature" \notin DOMAIN r.query, NEW c, NEW hoist \in BOOLEAN,
           SignedQuery(r, c, hoist)["X-Amz-Date"] = <<now>>
    PROVE  Verified(Sent(SignQuery(r, c, hoist)))
<1> DEFINE o == SignQuery(r, c, hoist)
           p == ToSign(r, c, hoist)
           m == HeadersLeft(r, hoist)
           a == QueryAuthorization(r, c, hoist)
           q == SignedQuery(r, c, hoist)
           t == Sent(o)
<1>1. /\ Shape(o)
      /\ a = Authorization(p, c, buildCanonicalHeaders(p, m))
      /\ p.host = o.host /\ p.length = o.length /\ p.method = o.method /\ p.path = o.path
      /\ p.query = q
      /\ DOMAIN o.headers = DOMAIN m \ IgnoredHeaders
      /\ \A h \in DOMAIN o.headers : o.headers[h] = m[h]
  BY SignQueryResult
<1>2. HeadersOK(m) /\ "Host" \in DOMAIN m
  BY HeadersLeftAre
<1>3. /\ Map(q) /\ "X-Amz-Signature" \notin DOMAIN q /\ "X-Amz-Date" \in DOMAIN q /\ q["X-Amz-Date"] = <<now>>
  BY SignedQueryIs
<1>4. QueryOut(t, r, q, a) /\ t.query = o.query
  BY QueryArrives
<1> HIDE DEF o, p, m, a, q, t
<1>5. AuthorizationOf(t) = a /\ t.query["X-Amz-Signature"] = <<a>>
  BY <1>4 DEF AuthorizationOf, QueryOut
<1>6. p.query = [k \in DOMAIN o.query \ {"X-Amz-Signature"} |-> o.query[k]]
  <2>1. DOMAIN o.query \ {"X-Amz-Signature"} = DOMAIN q
    BY <1>3, <1>4 DEF QueryOut
  <2>2. q = [k \in DOMAIN q |-> o.query[k]]
    BY <1>3, <1>4 DEF Map, QueryOut
  <2> QED
    BY <1>1, <2>1, <2>2
<1>7. SigningFields(t)["X-Amz-Date"] = <<now>>
  BY <1>3, <1>4 DEF QueryOut
<1>8. Signs(o, a, c, p, m)
  BY <1>1, <1>2, <1>5, <1>6, <1>7 DEF Signs, t
<1>9. Verifies(t)
  BY <1>8, SignedVerifies DEF t
<1>10. Len(t.query["X-Amz-Signature"]) = 1
  BY <1>5
<1> QED
  BY <1>4, <1>9, <1>10, VerifiedIs DEF QueryOut, t, o

(* The date that arrives is not the one that was signed. *)
LEMMA DateSpoiled ==
    ASSUME NEW r, ReqOK(r), "X-Amz-Signature" \notin DOMAIN r.query, NEW c, NEW hoist \in BOOLEAN,
           NEW time, SignedQuery(r, c, hoist)["X-Amz-Date"] = <<time>>, time # now
    PROVE  ~Verified(Sent(SignQuery(r, c, hoist)))
<1> DEFINE o == SignQuery(r, c, hoist)
           p == ToSign(r, c, hoist)
           m == HeadersLeft(r, hoist)
           a == QueryAuthorization(r, c, hoist)
           q == SignedQuery(r, c, hoist)
           t == Sent(o)
<1>1. a = Authorization(p, c, buildCanonicalHeaders(p, m))
  BY SignQueryResult
<1>2. "X-Amz-Date" \in DOMAIN q /\ q["X-Amz-Date"] = <<time>>
  BY SignedQueryIs
<1>3. QueryOut(t, r, q, a)
  BY QueryArrives
<1> HIDE DEF o, p, m, q, t, a
<1>4. AuthorizationOf(t) = a /\ SigningFields(t)["X-Amz-Date"][1] = time
  BY <1>2, <1>3 DEF AuthorizationOf, QueryOut
<1>5. a.signature.time = now
  BY <1>1 DEF Authorization, Signature
<1>6. Recomputed(t).time = SigningFields(t)["X-Amz-Date"][1]
  BY DEF Recomputed
<1>7. ~Verifies(t)
  BY <1>4, <1>5, <1>6 DEF Verifies
<1> QED
  BY <1>7, VerifiedIs DEF t, o

IsList(s) == \E S : s \in Seq(S) /\ s # <<>>

LEMMA Listed == ASSUME NEW a PROVE IsList(<<a>>)
<1>1. <<a>> \in Seq({a}) /\ <<a>> # <<>>
  BY Singleton
<1> QED
  BY <1>1 DEF IsList

LEMMA ListAppended ==
    ASSUME NEW s, IsList(s), NEW a
    PROVE  IsList(Append(s, a)) /\ Len(Append(s, a)) # 1
<1>1. PICK S : s \in Seq(S) /\ s # <<>>
  BY DEF IsList
<1>2. s \in Seq(S \cup {a})
  BY <1>1, SeqMonotonic
<1>3. Append(s, a) \in Seq(S \cup {a}) /\ Append(s, a) # <<>> /\ Len(Append(s, a)) = Len(s) + 1
  BY <1>2, AppendProperties
<1>4. Len(s) \in Nat \ {0}
  BY <1>1, EmptySeq
<1>5. IsList(Append(s, a))
  BY <1>3 DEF IsList
<1>6. Len(Append(s, a)) # 1
  BY <1>3, <1>4
<1> QED
  BY <1>5, <1>6

(* Two signatures in the query. *)
LEMMA QuerySpoiled ==
    ASSUME NEW r, ReqOK(r), "X-Amz-Signature" \in DOMAIN r.query, IsList(r.query["X-Amz-Signature"]),
           NEW c, NEW hoist \in BOOLEAN
    PROVE  ~Verified(Sent(SignQuery(r, c, hoist)))
<1> DEFINE o == SignQuery(r, c, hoist)
           q == SignedQuery(r, c, hoist)
           a == QueryAuthorization(r, c, hoist)
           t == Sent(o)
<1>1. QueryOut(t, r, q, a)
  BY QueryArrives
<1> HIDE DEF o, a, t, q
<1>2. Len(t.query["X-Amz-Signature"]) # 1
  BY <1>1, ListAppended DEF QueryOut
<1> QED
  BY <1>1, <1>2, VerifiedIs DEF QueryOut, t, o

-----------------------------------------------------------------------------
(* The invariant.  The request is well formed.  It has a signature in its   *)
(* query if it was presigned, and otherwise nothing but the action, while   *)
(* the headers hold the date of the last call and the token of the last     *)
(* signer who has one.  What has arrived is as the properties say.          *)

DateHeld(m, cs) ==
    IF cs = <<>> THEN "X-Amz-Date" \notin DOMAIN m
    ELSE "X-Amz-Date" \in DOMAIN m /\ m["X-Amz-Date"] = <<Last(cs).time>>

History(r, cs) ==
    /\ ReqOK(r)
    /\ AnyPresigned(cs) => "X-Amz-Signature" \in DOMAIN r.query /\ IsList(r.query["X-Amz-Signature"])
    /\ ~AnyPresigned(cs) => /\ DOMAIN r.query = {"Action"}
                            /\ DateHeld(r.headers, cs) /\ TokenHeld(r.headers, cs)

ArrivedOK(t, cs) == (Verified(t) <=> ~Spoiled(cs)) /\ TokenOK(t, cs) /\ AuthorityOK(t)

SigningInv ==
    /\ now \in Nat /\ calls \in Seq(Calls)
    /\ kdf # None => req = None
    /\ req = None \/ History(req, calls)
    /\ sent = None \/ ArrivedOK(sent, calls)

LEMMA CallIs ==
    ASSUME NEW presign \in BOOLEAN, NEW hoist \in BOOLEAN, NEW c \in Creds, now \in Nat
    PROVE  LET call == Call(presign, hoist, c)
           IN  /\ call \in Calls /\ call.presign = presign /\ call.hoist = hoist /\ call.cred = c
               /\ call.time = now
  BY DEF Call, Calls

LEMMA SignHTTPArrives ==
    ASSUME NEW r, NEW cs \in Seq(Calls), History(r, cs), NEW c \in Creds, now \in Nat,
           NEW o, GoesOutFor(o, SignHeaders(r, c)), AnyPresigned(cs) => o = SignHeaders(r, c)
    PROVE  LET d == Append(cs, Call(FALSE, FALSE, c))
           IN  History(SignHeaders(r, c), d) /\ ArrivedOK(Sent(o), d)
<1> DEFINE x == SignHeaders(r, c)
           call == Call(FALSE, FALSE, c)
           d == Append(cs, call)
           t == Sent(o)
           hs == FieldsOf(r, c)
<1>1. /\ call \in Calls /\ call.presign = FALSE /\ call.hoist = FALSE /\ call.cred = c /\ call.time = now
  BY CallIs
<1> HIDE DEF call
<1>2. ReqOK(r)
  BY DEF History
<1>3. /\ ReqOK(x) /\ HostSanitary(x) /\ x.query = r.query
      /\ IsSet(x.headers, hs, "Authorization", HeaderAuthorization(r, c))
  BY <1>2, SignHeadersResult
<1>4. AnyPresigned(d) <=> AnyPresigned(cs)
  BY <1>1, PresignedOf
<1>5. Spoiled(d) <=> AnyPresigned(cs)
  BY <1>1, SpoiledOf
<1>6. AuthorityOK(t)
  BY <1>3, SameAuthorityArrives
<1>7. CASE AnyPresigned(cs)
  <2>1. "X-Amz-Signature" \in DOMAIN r.query /\ IsList(r.query["X-Amz-Signature"])
    BY <1>7 DEF History
  <2>2. ~Verified(t)
    BY <1>2, <1>7, <2>1, HeadersSpoiled
  <2>3. PresignedBefore(d)
    BY <1>1, <1>7, PresignedOf
  <2> HIDE DEF x, t, d
  <2>4. TokenOK(t, d)
    BY <2>3 DEF TokenOK
  <2>5. History(x, d)
    BY <1>3, <1>4, <1>7, <2>1 DEF History
  <2> QED
    BY <1>5, <1>6, <1>7, <2>2, <2>4, <2>5 DEF ArrivedOK, x, t, d, call
<1>8. CASE ~AnyPresigned(cs)
  <2>1. DOMAIN r.query = {"Action"} /\ TokenHeld(r.headers, cs)
    BY <1>8 DEF History
  <2>2. "X-Amz-Signature" \notin DOMAIN r.query
    BY <2>1
  <2>3. Verified(t)
    BY <1>2, <2>2, HeadersSigned
  <2>4. /\ SessionToken[c] # None => TokenArrives(x.headers, SessionToken[c])
        /\ SessionToken[c] = None =>
              /\ "X-Amz-Security-Token" \in DOMAIN x.headers <=> "X-Amz-Security-Token" \in DOMAIN r.headers
              /\ "X-Amz-Security-Token" \in DOMAIN r.headers =>
                    x.headers["X-Amz-Security-Token"] = r.headers["X-Amz-Security-Token"]
    BY <1>2, TokenOfHeaders
  <2>5. /\ SessionToken[c] # None => TokenArrives(t.headers, SessionToken[c])
        /\ SessionToken[c] = None =>
              /\ "X-Amz-Security-Token" \in DOMAIN t.headers <=> "X-Amz-Security-Token" \in DOMAIN r.headers
              /\ "X-Amz-Security-Token" \in DOMAIN r.headers =>
                    t.headers["X-Amz-Security-Token"] = r.headers["X-Amz-Security-Token"]
    BY <1>2, TokenOfHeaders
  <2>6. SigningFields(t) = t.headers
    <3>1. t.query = r.query
      BY <1>2, HeadersArrive
    <3> HIDE DEF t
    <3> QED
      BY <2>2, <3>1 DEF SigningFields, Presigned
  <2>7. "X-Amz-Date" \in DOMAIN hs /\ hs["X-Amz-Date"] = <<now>>
    BY <1>2, FieldsAre
  <2>8. d # <<>> /\ Last(d) = call
    BY <1>1, CallAppended
  <2> HIDE DEF x, t, hs
  <2>9. TokenHeld(x.headers, d)
    BY <1>1, <2>1, <2>4, TokenHeldOf
  <2> HIDE DEF d
  <2>10. DateHeld(x.headers, d)
    <3>1. "X-Amz-Date" \in DOMAIN x.headers /\ x.headers["X-Amz-Date"] = <<now>>
      BY <1>3, <2>7 DEF IsSet
    <3> QED
      BY <1>1, <2>8, <3>1 DEF DateHeld
  <2>11. TokenOK(t, d)
    <3>1. CASE SessionToken[c] # None
      BY <1>1, <2>5, <2>6, <3>1, TokenIsOK DEF d
    <3>2. CASE SessionToken[c] = None /\ Signers(cs) # {}
      <4>1. TokenArrives(t.headers, LatestToken(cs))
        BY <2>1, <2>5, <3>2 DEF TokenHeld, TokenArrives
      <4> QED
        BY <1>1, <2>6, <3>2, <4>1, TokenIsOK DEF d
    <3>3. CASE SessionToken[c] = None /\ Signers(cs) = {}
      <4>1. "X-Amz-Security-Token" \notin DOMAIN t.headers
        BY <2>1, <2>5, <3>3 DEF TokenHeld
      <4> QED
        BY <1>1, <2>6, <3>3, <4>1, TokenIsOK DEF d
    <3> QED
      BY <3>1, <3>2, <3>3
  <2>12. History(x, d)
    BY <1>3, <1>4, <1>8, <2>1, <2>9, <2>10 DEF History
  <2> QED
    BY <1>5, <1>6, <1>8, <2>3, <2>11, <2>12 DEF ArrivedOK, x, t, d, call
<1> QED
  BY <1>7, <1>8

LEMMA PresignHTTPArrives ==
    ASSUME NEW r, NEW cs \in Seq(Calls), History(r, cs), NEW c \in Creds, NEW hoist \in BOOLEAN, now \in Nat
    PROVE  LET o == SignQuery(r, c, hoist)
               d == Append(cs, Call(TRUE, hoist, c))
           IN  History([SanitizeHostForHeader(r) EXCEPT !.query = o.query], d) /\ ArrivedOK(Sent(o), d)
<1> DEFINE o == SignQuery(r, c, hoist)
           call == Call(TRUE, hoist, c)
           d == Append(cs, call)
           t == Sent(o)
           q == SignedQuery(r, c, hoist)
           a == QueryAuthorization(r, c, hoist)
           y == SanitizeHostForHeader(r)
           x == [y EXCEPT !.query = o.query]
<1>1. /\ call \in Calls /\ call.presign = TRUE /\ call.hoist = hoist /\ call.cred = c /\ call.time = now
  BY CallIs
<1> HIDE DEF call
<1>2. ReqOK(r)
  BY DEF History
<1>3. QueryOut(t, r, q, a) /\ AuthorityOK(t) /\ t.query = o.query /\ Map(o.query)
  BY <1>2, QueryArrives
<1>4. AnyPresigned(d)
  BY <1>1, PresignedOf
<1>5. Spoiled(d) <=> AnyPresigned(cs) \/ (hoist /\ cs # <<>> /\ Last(cs).time # now)
  BY <1>1, SpoiledOf
<1>6. ReqOK(x) /\ x.query = o.query
  <2>1. /\ Shape(y) /\ SameTarget(y, r) /\ y.headers = r.headers /\ UrlOK(y) /\ HostSanitary(y)
    BY <1>2, HostSanitized DEF ReqOK
  <2> HIDE DEF y, o
  <2>2. Shape(x) /\ SameTarget(x, y) /\ x.host = y.host /\ x.query = o.query /\ x.headers = y.headers
    BY <2>1, QueryReplaced
  <2> HIDE DEF x
  <2>3. UrlOK(x) /\ HostOK(x)
    BY <2>1, <2>2, KeepsHost, SanitaryIsOK
  <2> QED
    BY <1>2, <1>3, <2>1, <2>2, <2>3 DEF ReqOK
<1>7. IsList(o.query["X-Amz-Signature"]) /\ "X-Amz-Signature" \in DOMAIN o.query
  <2> HIDE DEF o, t, q, a
  <2>1. CASE AnyPresigned(cs)
    <3>1. "X-Amz-Signature" \in DOMAIN r.query /\ IsList(r.query["X-Amz-Signature"])
      BY <2>1 DEF History
    <3>2. IsList(Append(r.query["X-Amz-Signature"], a))
      BY <3>1, ListAppended
    <3> QED
      BY <1>3, <3>1, <3>2 DEF QueryOut
  <2>2. CASE ~AnyPresigned(cs)
    <3>1. "X-Amz-Signature" \notin DOMAIN r.query
      BY <2>2 DEF History
    <3> QED
      BY <1>3, <3>1, Listed DEF QueryOut
  <2> QED
    BY <2>1, <2>2
<1>8. History(x, d)
  <2> HIDE DEF x, d, o
  <2> QED
    BY <1>4, <1>6, <1>7 DEF History
<1>9. CASE AnyPresigned(cs)
  <2>1. "X-Amz-Signature" \in DOMAIN r.query /\ IsList(r.query["X-Amz-Signature"])
    BY <1>9 DEF History
  <2>2. ~Verified(t)
    BY <1>2, <2>1, QuerySpoiled
  <2>3. PresignedBefore(d)
    BY <1>1, <1>9, PresignedOf
  <2> HIDE DEF x, t, d
  <2>4. TokenOK(t, d)
    BY <2>3 DEF TokenOK
  <2> QED
    BY <1>3, <1>5, <1>8, <1>9, <2>2, <2>4 DEF ArrivedOK, x, y, o, t, d, call
<1>10. CASE ~AnyPresigned(cs)
  <2>1. DOMAIN r.query = {"Action"} /\ TokenHeld(r.headers, cs) /\ DateHeld(r.headers, cs)
    BY <1>10 DEF History
  <2>2. "X-Amz-Signature" \notin DOMAIN r.query /\ "X-Amz-Security-Token" \notin DOMAIN r.query
    BY <2>1
  <2>3. /\ "X-Amz-Date" \in DOMAIN q
        /\ q["X-Amz-Date"] = IF hoist /\ "X-Amz-Date" \in DOMAIN r.headers
                             THEN r.headers["X-Amz-Date"] ELSE <<now>>
    BY <1>2, SignedQueryIs
  <2>4. IF hoist /\ "X-Amz-Security-Token" \in DOMAIN r.headers
        THEN /\ "X-Amz-Security-Token" \in DOMAIN q
             /\ q["X-Amz-Security-Token"] = r.headers["X-Amz-Security-Token"]
        ELSE IF SessionToken[c] # None THEN TokenArrives(q, SessionToken[c])
        ELSE "X-Amz-Security-Token" \in DOMAIN q => "X-Amz-Security-Token" \in DOMAIN r.query
    BY <1>2, SignedQueryIs
  <2>5. Verified(t) <=> ~Spoiled(d)
    <3>1. ASSUME hoist /\ cs # <<>> /\ Last(cs).time # now PROVE ~Verified(t)
      <4>1. q["X-Amz-Date"] = <<Last(cs).time>>
        <5> HIDE DEF q
        <5> QED
          BY <2>1, <2>3, <3>1 DEF DateHeld
      <4> QED
        BY <1>2, <2>2, <3>1, <4>1, DateSpoiled
    <3>2. ASSUME ~(hoist /\ cs # <<>> /\ Last(cs).time # now) PROVE Verified(t)
      <4>1. q["X-Amz-Date"] = <<now>>
        <5> HIDE DEF q
        <5> QED
          BY <2>1, <2>3, <3>2 DEF DateHeld
      <4> QED
        BY <1>2, <2>2, <4>1, QueryVerified
    <3> QED
      BY <1>5, <1>10, <3>1, <3>2
  <2> HIDE DEF x, t, q, a
  <2>6. /\ SigningFields(t) = t.query
        /\ "X-Amz-Security-Token" \in DOMAIN t.query <=> "X-Amz-Security-Token" \in DOMAIN q
        /\ "X-Amz-Security-Token" \in DOMAIN q => t.query["X-Amz-Security-Token"] = q["X-Amz-Security-Token"]
    BY <1>3 DEF QueryOut
  <2>7. TokenOK(t, d)
    <3>1. CASE hoist /\ Signers(cs) # {}
      <4>1. TokenArrives(t.query, LatestToken(cs))
        BY <2>1, <2>4, <2>6, <3>1 DEF TokenHeld, TokenArrives
      <4> QED
        BY <1>1, <2>6, <3>1, <4>1, TokenIsOK
    <3>2. CASE ~(hoist /\ Signers(cs) # {}) /\ SessionToken[c] # None
      <4>1. TokenArrives(t.query, SessionToken[c])
        BY <2>1, <2>4, <2>6, <3>2 DEF TokenHeld, TokenArrives
      <4> QED
        BY <1>1, <2>6, <3>2, <4>1, TokenIsOK
    <3>3. CASE ~(hoist /\ Signers(cs) # {}) /\ SessionToken[c] = None
      <4>1. "X-Amz-Security-Token" \notin DOMAIN t.query
        BY <2>1, <2>2, <2>4, <2>6, <3>3 DEF TokenHeld
      <4> QED
        BY <1>1, <2>6, <3>3, <4>1, TokenIsOK
    <3> QED
      BY <3>1, <3>2, <3>3
  <2> HIDE DEF d
  <2>8. ArrivedOK(t, d)
    BY <1>3, <2>5, <2>7 DEF ArrivedOK
  <2> QED
    BY <1>8, <2>8 DEF x, y, o, t, d, call
<1> QED
  BY <1>9, <1>10

LEMMA UrlsAreOK == ASSUME NEW u \in Urls PROVE UrlOK(u)
<1>1. u.name \in Seq(Alphabet(u))
  BY UrlAssumption, AlphabetIs
<1> QED
  BY <1>1, UrlAssumption DEF UrlOK

LEMMA NoCalls == Signers(<<>>) = {} /\ ~AnyPresigned(<<>>) /\ <<>> \in Seq(Calls)
<1>1. Len(<<>>) = 0 /\ \A i \in 1..0 : FALSE
  OBVIOUS
<1> QED
  BY <1>1, EmptySeq DEF Signers, AnyPresigned

LEMMA NewHistory == ASSUME NEW u, UrlOK(u) PROVE History(Request(u), <<>>)
<1> DEFINE r == Request(u)
<1>1. ReqOK(r) /\ DOMAIN r.headers = {} /\ DOMAIN r.query = {"Action"}
  BY NewRequestIsOK
<1> HIDE DEF r
<1>2. History(r, <<>>)
  BY <1>1, NoCalls DEF History, DateHeld, TokenHeld
<1> QED
  BY <1>2 DEF r

(* The operator's own request, which no caller has touched. *)
LEMMA SignV4aArrives ==
    ASSUME NEW u, UrlOK(u), NEW c \in Creds, now \in Nat
    PROVE  ArrivedOK(Sent(Forwarded(SignHeaders(Request(u), c))), <<Call(FALSE, FALSE, c)>>)
<1> DEFINE r == Request(u)
           x == SignHeaders(r, c)
           hs == FieldsOf(r, c)
           o == Forwarded(x)
           d == Append(<<>>, Call(FALSE, FALSE, c))
<1>1. ReqOK(r) /\ DOMAIN r.headers = {}
  BY NewRequestIsOK
<1>2. History(r, <<>>)
  BY NewHistory
<1> HIDE DEF r
<1>3. ReqOK(x) /\ IsSet(x.headers, hs, "Authorization", HeaderAuthorization(r, c))
  BY <1>1, SignHeadersResult
<1>4. DOMAIN hs = DOMAIN r.headers \cup {"Host", "X-Amz-Region-Set", "X-Amz-Date"} \cup TokenField(c)
  BY <1>1, FieldsAre
<1>5. DOMAIN x.headers \cap CallerHeaders = {}
  <2> HIDE DEF hs, x
  <2> QED
    BY <1>1, <1>3, <1>4 DEF IsSet, TokenField, CallerHeaders
<1>6. GoesOutFor(o, x)
  BY <1>3, <1>5, ForwardedGoesOut
<1> HIDE DEF o
<1>7. ArrivedOK(Sent(o), d)
  BY <1>2, <1>6, NoCalls, SignHTTPArrives
<1>8. d = <<Call(FALSE, FALSE, c)>>
  OBVIOUS
<1> QED
  BY <1>7, <1>8 DEF o, r

LEMMA HeaderAdded ==
    ASSUME NEW r, NEW cs, History(r, cs), NEW h \in CallerHeaders, NEW v \in Text,
           NEW x, x = [r EXCEPT !.headers = Add(@, h, v)]
    PROVE  History(x, cs)
<1> DEFINE m == Add(r.headers, h, v)
           y == [r EXCEPT !.headers = m]
<1>1. x = y
  OBVIOUS
<1>2. IsAdded(m, r.headers, h, v)
  BY AddIs
<1>3. Shape(r) /\ HeadersOK(r.headers) /\ ReqOK(r)
  BY DEF History, ReqOK
<1> HIDE DEF m
<1>4. m[h] \in Seq(Text)
  <2>1. CASE h \in DOMAIN r.headers
    <3>1. r.headers[h] \in Seq(Text)
      BY <1>3, <2>1 DEF HeadersOK
    <3>2. Append(r.headers[h], v) \in Seq(Text)
      BY <3>1, AppendProperties
    <3> QED
      BY <1>2, <2>1, <3>2 DEF IsAdded
  <2>2. CASE h \notin DOMAIN r.headers
    <3>1. <<v>> \in Seq(Text)
      BY Singleton
    <3> QED
      BY <1>2, <2>2, <3>1 DEF IsAdded
  <2> QED
    BY <2>1, <2>2
<1>5. /\ DOMAIN m = DOMAIN r.headers \cup {h} /\ \A k \in DOMAIN r.headers : k # h => m[k] = r.headers[k]
  BY <1>2 DEF IsAdded
<1>6. HeadersOK(m)
  BY <1>3, <1>4, <1>5 DEF HeadersOK, CallerHeaders
<1>7. Shape(y) /\ SameTarget(y, r) /\ y.host = r.host /\ y.query = r.query /\ y.headers = m
  BY <1>3, HeadersReplaced
<1> HIDE DEF y
<1>8. ReqOK(y)
  BY <1>3, <1>6, <1>7, KeepsHost DEF ReqOK
<1>9. ~AnyPresigned(cs) => DateHeld(m, cs) /\ TokenHeld(m, cs)
  <2>1. h # "X-Amz-Date" /\ h # "X-Amz-Security-Token"
    BY DEF CallerHeaders
  <2>2. ~AnyPresigned(cs) => DateHeld(r.headers, cs) /\ TokenHeld(r.headers, cs)
    BY DEF History
  <2>3. DateHeld(r.headers, cs) => DateHeld(m, cs)
    BY <1>5, <2>1 DEF DateHeld
  <2>4. TokenHeld(r.headers, cs) => TokenHeld(m, cs)
    BY <1>5, <2>1 DEF TokenHeld, TokenArrives
  <2> QED
    BY <2>2, <2>3, <2>4
<1>10. History(y, cs)
  BY <1>7, <1>8, <1>9 DEF History
<1> QED
  BY <1>1, <1>10

LEMMA SigningInit == Init => SigningInv
  BY NoCalls DEF Init, SigningInv

LEMMA SigningNext == KeyInv /\ SigningInv /\ [Next]_vars => SigningInv'
<1> SUFFICES ASSUME KeyInv, SigningInv, [Next]_vars PROVE SigningInv'
  OBVIOUS
<1>1. now \in Nat /\ calls \in Seq(Calls)
  BY DEF SigningInv
<1>2. ASSUME now' \in Nat, UNCHANGED <<req, calls, sent>>, kdf' # None => req = None PROVE SigningInv'
  BY <1>2 DEF SigningInv
<1>3. ASSUME NEW c \in Creds, SignHTTP(c) PROVE SigningInv'
  <2> DEFINE x == SignHeaders(req, c)
             d == Append(calls, Call(FALSE, FALSE, c))
  <2>1. History(req, calls) /\ kdf = None
    BY <1>3 DEF SigningInv, SignHTTP
  <2>2. req' = x /\ sent' = Sent(x) /\ calls' = d /\ UNCHANGED <<kdf, now>>
    BY <1>3 DEF SignHTTP
  <2>3. GoesOutFor(x, x)
    <3>1. ReqOK(x)
      BY <2>1, SignHeadersResult DEF History
    <3> QED
      BY <3>1, GoesOutItself
  <2>4. History(x, d) /\ ArrivedOK(Sent(x), d)
    BY <1>1, <2>1, <2>3, SignHTTPArrives
  <2>5. d \in Seq(Calls)
    BY <1>1, CallIs, CallAppended
  <2> HIDE DEF x, d
  <2> QED
    BY <1>1, <2>1, <2>2, <2>4, <2>5 DEF SigningInv
<1>4. CASE SignV4a
  <2> DEFINE u == [scheme |-> "https", name |-> <<"sts">>, v6 |-> FALSE, port |-> Empty, path |-> Empty,
                   length |-> 0]
             t == Sent(Forwarded(SignHeaders(Request(u), kdf.cred)))
             d == <<Call(FALSE, FALSE, kdf.cred)>>
  <2>1. sent' = t /\ calls' = d /\ kdf' = None /\ UNCHANGED <<now, req>> /\ req = None
    BY <1>4 DEF SignV4a, SigningInv
  <2>2. kdf.cred \in Creds
    BY <1>4 DEF SignV4a, KeyInv, Derivations
  <2>3. UrlOK(u)
    <3>1. u.name = <<"sts">> /\ u.v6 = FALSE /\ u.port = Empty
      OBVIOUS
    <3>2. <<"sts">> \in Seq({"sts"}) /\ <<"sts">> # <<>>
      BY Singleton
    <3>3. "sts" # Open /\ "sts" # Close /\ "sts" # Colon
      BY DEF Open, Close, Colon
    <3>4. Empty # Open /\ Empty # Close /\ Empty # Colon
      BY Zenon DEF Open, Close, Colon, Empty
    <3> HIDE DEF u
    <3>5. At(Open, u.name) = {} /\ At(Close, u.name) = {} /\ At(Colon, u.name) = {}
      BY <3>1, <3>3 DEF At
    <3>6. u.name \in Seq(Alphabet(u))
      BY <3>1, <3>2, AlphabetIs
    <3> QED
      BY <3>1, <3>2, <3>4, <3>5, <3>6 DEF UrlOK
  <2> HIDE DEF u
  <2>4. ArrivedOK(t, d)
    BY <1>1, <2>2, <2>3, SignV4aArrives
  <2>5. d \in Seq(Calls)
    BY <1>1, <2>2, CallIs, Singleton
  <2> HIDE DEF t, d
  <2> QED
    BY <1>1, <2>1, <2>4, <2>5 DEF SigningInv
<1>5. ASSUME NEW u \in Urls, NewRequest(u) PROVE SigningInv'
  <2>1. req' = Request(u) /\ UNCHANGED <<kdf, now, calls, sent>> /\ calls = <<>> /\ kdf = None
    BY <1>5 DEF NewRequest
  <2>2. History(req', calls')
    BY <2>1, UrlsAreOK, NewHistory
  <2> QED
    BY <2>1, <2>2 DEF SigningInv
<1>6. ASSUME NEW h \in CallerHeaders, NEW v \in Values[h], AddHeader(h, v) PROVE SigningInv'
  <2>1. v \in Text
    BY ValueAssumption DEF Text
  <2>2. History(req, calls) /\ kdf = None /\ UNCHANGED <<kdf, now, calls, sent>>
    BY <1>6 DEF SigningInv, AddHeader
  <2>3. req' = [req EXCEPT !.headers = Add(@, h, v)]
    BY <1>6 DEF AddHeader
  <2>4. History(req', calls)
    BY <2>1, <2>2, <2>3, HeaderAdded
  <2> QED
    BY <2>2, <2>4 DEF SigningInv
<1>7. ASSUME NEW c \in Creds, NEW hoist \in BOOLEAN, PresignHTTP(c, hoist) PROVE SigningInv'
  <2> DEFINE o == SignQuery(req, c, hoist)
             x == [SanitizeHostForHeader(req) EXCEPT !.query = o.query]
             d == Append(calls, Call(TRUE, hoist, c))
  <2>1. History(req, calls) /\ kdf = None
    BY <1>7 DEF SigningInv, PresignHTTP
  <2>2. req' = x /\ sent' = Sent(o) /\ calls' = d /\ UNCHANGED <<kdf, now>>
    BY <1>7 DEF PresignHTTP
  <2>3. History(x, d) /\ ArrivedOK(Sent(o), d)
    BY <1>1, <2>1, PresignHTTPArrives
  <2>4. d \in Seq(Calls)
    BY <1>1, CallIs, CallAppended
  <2> HIDE DEF o, x, d
  <2> QED
    BY <1>1, <2>1, <2>2, <2>3, <2>4 DEF SigningInv
<1>8. CASE \/ \E c \in Creds : RetrievePrivateKey(c)
           \/ \E candidate \in Candidates : DeriveKey(candidate)
           \/ Tick \/ UNCHANGED vars
  <2>1. UNCHANGED <<req, calls, sent>> /\ now' \in Nat
    BY <1>1, <1>8 DEF RetrievePrivateKey, DeriveKey, Tick, vars
  <2>2. kdf' # None => req = None
    BY <1>8 DEF RetrievePrivateKey, DeriveKey, Tick, vars, SigningInv
  <2> QED
    BY <1>2, <2>1, <2>2
<1> QED
  BY <1>3, <1>4, <1>5, <1>6, <1>7, <1>8 DEF Next

LEMMA Signing == Spec => []SigningInv
  BY SigningInit, SigningNext, Deriving, PTL DEF Spec

(* SignaturesVerify: whatever the header values, the URLs, and the order in *)
(* which callers add headers, sign, presign and do so again, the signature  *)
(* of a request that arrives is the one a verifier recomputes from it,      *)
(* unless the request was presigned before or is presigned, with hoisting,  *)
(* after it was signed at another time; and then it is not.                 *)
THEOREM RequestsVerify == Spec => []SignaturesVerify
<1>1. SigningInv => SignaturesVerify
  BY DEF SigningInv, ArrivedOK, SignaturesVerify
<1> QED
  BY <1>1, Signing, PTL

(* TokenOfSigner: the session token that arrives is the signer's, or that   *)
(* of an earlier one, if the signer has none or hoists it from the headers. *)
THEOREM TokensAreOfSigner == Spec => []TokenOfSigner
<1>1. SigningInv => TokenOfSigner
  BY DEF SigningInv, ArrivedOK, TokenOK, TokenOfSigner
<1> QED
  BY <1>1, Signing, PTL

(* SameAuthority: for every host, IPv6 literals too, and however often it   *)
(* is sanitized, the Host header names the URL's host and port; the literal *)
(* that loses its brackets is the only exception.                           *)
THEOREM HostsAreSameAuthority == Spec => []SameAuthority
<1>1. SigningInv => SameAuthority
  BY DEF SigningInv, ArrivedOK, AuthorityOK, SameAuthority
<1> QED
  BY <1>1, Signing, PTL

=============================================================================
