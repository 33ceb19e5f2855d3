---------------------------- MODULE LuFactorProofs ----------------------------
(***************************************************************************)
(* Proofs about lu_factor() and lu_solve(), for every matrix size and      *)
(* every prime field: the product of the factors, with its rows in the     *)
(* order of the pivots, is the given matrix after every column.  From this *)
(* follow that lu_solve() solves the given system, that lu_factor() throws *)
(* for the singular matrices, and what a throw says of other matrices.     *)
(* Numbers are compared up to multiples of P (Cong), so that most of the   *)
(* argument is about integers.                                             *)
(***************************************************************************)
EXTENDS LuFactor, SumProofs

-------------------------------------------------------------------------------
(* The field *)

\* Quotient and remainder.
LEMMA DivMod ==
  ASSUME NEW a \in Int, NEW m \in Nat, m > 0
  PROVE  a % m \in 0 .. m - 1 /\ a \div m \in Int /\ a = m * (a \div m) + (a % m)
OBVIOUS

\* a and b are the same number of the field.
Cong(a, b) == \E q \in Int : a = b + P * q

\* A number and its remainder are the same number of the field.
LEMMA ModCong ==
  ASSUME NEW a \in Int
  PROVE a % P \in Field /\ a % P \in Int /\ Cong(a % P, a) /\ Cong(a, a % P)
<1>1. a % P \in 0 .. P - 1 /\ a \div P \in Int /\ a = P * (a \div P) + (a % P)
  BY DivMod, PrimeAssumption
<1>2. a = (a % P) + P * (a \div P) /\ a % P \in Int
  BY <1>1, PrimeAssumption
<1>3. a % P = a + P * (-(a \div P)) /\ -(a \div P) \in Int
  BY <1>1, PrimeAssumption
<1> QED
  BY <1>1, <1>2, <1>3 DEF Field, Cong

\* Two remainders that differ by a multiple of m are equal.
LEMMA SmallQuotient ==
  ASSUME NEW m \in Nat, m > 0, NEW a \in 0 .. m - 1, NEW b \in 0 .. m - 1, NEW q \in Int, a = b + m * q
  PROVE  a = b
<1>1. a - b < m /\ b - a < m /\ a - b = m * q
  OBVIOUS
<1>2. CASE q >= 1
  <2>1. m * q = m + m * (q - 1)
    BY <1>1
  <2>2. m * (q - 1) >= 0
    BY <1>1, <1>2
  <2> QED
    BY <1>1, <2>1, <2>2
<1>3. CASE q <= -1
  <2>1. m * q = -m - m * (-q - 1)
    BY <1>1
  <2>2. m * (-q - 1) >= 0
    BY <1>1, <1>3
  <2> QED
    BY <1>1, <2>1, <2>2
<1>4. CASE q = 0
  BY <1>1, <1>4
<1> QED
  BY <1>2, <1>3, <1>4

\* A remainder plus a multiple of m has that remainder.
LEMMA ModUnique ==
  ASSUME NEW m \in Nat, m > 0, NEW r \in 0 .. m - 1, NEW q \in Int
  PROVE  (r + m * q) % m = r
<1> DEFINE a == r + m * q
           t == a \div m
           s == a % m
<1>1. a \in Int
  OBVIOUS
<1>2. s \in 0 .. m - 1 /\ t \in Int /\ a = m * t + s
  BY <1>1, DivMod
<1> HIDE DEF t, s
<1>3. s = r + m * (q - t) /\ q - t \in Int
  BY <1>2
<1>4. s = r
  BY <1>2, <1>3, SmallQuotient
<1> QED
  BY <1>4 DEF s

\* Congruent members of the field are equal.
LEMMA CongField ==
  ASSUME NEW a \in Field, NEW b \in Field, Cong(a, b)
  PROVE  a = b
<1>1. P \in Nat /\ P > 0 /\ a \in 0 .. P - 1 /\ b \in 0 .. P - 1
  BY PrimeAssumption DEF Field
<1>2. PICK q \in Int : a = b + P * q
  BY DEF Cong
<1> QED
  BY <1>1, <1>2, SmallQuotient

\* Cong is transitive, symmetric and reflexive.
LEMMA CongTrans ==
  ASSUME NEW a \in Int, NEW b \in Int, NEW c \in Int, Cong(a, b), Cong(b, c)
  PROVE  Cong(a, c)
<1>1. PICK q \in Int : a = b + P * q
  BY DEF Cong
<1>2. PICK r \in Int : b = c + P * r
  BY DEF Cong
<1>3. a = c + P * (q + r) /\ q + r \in Int
  BY <1>1, <1>2, PrimeAssumption
<1> QED
  BY <1>3 DEF Cong

\* Cong is symmetric.
LEMMA CongSym ==
  ASSUME NEW a \in Int, NEW b \in Int, Cong(a, b)
  PROVE  Cong(b, a)
<1>1. PICK q \in Int : a = b + P * q
  BY DEF Cong
<1>2. b = a + P * (-q) /\ -q \in Int
  BY <1>1, PrimeAssumption
<1> QED
  BY <1>2 DEF Cong

\* Cong is reflexive.
LEMMA CongRefl ==
  ASSUME NEW a \in Int PROVE Cong(a, a)
<1>2. a = a + P * 0 /\ 0 \in Int
  BY PrimeAssumption
<1> QED
  BY <1>2 DEF Cong

\* Sums, differences, products and negations of congruent numbers are congruent.
LEMMA CongAdd ==
  ASSUME NEW a \in Int, NEW b \in Int, NEW c \in Int, NEW d \in Int, Cong(a, b), Cong(c, d)
  PROVE  Cong(a + c, b + d) /\ Cong(a - c, b - d) /\ Cong(a * c, b * d) /\ Cong(-a, -b)
<1>1. PICK q \in Int : a = b + P * q
  BY DEF Cong
<1>2. PICK r \in Int : c = d + P * r
  BY DEF Cong
<1>p. P \in Int
  BY PrimeAssumption
<1>3. a + c = (b + d) + P * (q + r) /\ q + r \in Int
  BY <1>1, <1>2, <1>p
<1>4. a - c = (b - d) + P * (q - r) /\ q - r \in Int
  BY <1>1, <1>2, <1>p
<1>5. a * c = (b * d) + P * (q * d + b * r + P * q * r) /\ q * d + b * r + P * q * r \in Int
  BY <1>1, <1>2, <1>p
<1>6. -a = -b + P * (-q) /\ -q \in Int
  BY <1>1, <1>p
<1> QED
  BY <1>3, <1>4, <1>5, <1>6 DEF Cong

\* Congruent numbers are those with the same remainder.
LEMMA CongMod ==
  ASSUME NEW a \in Int, NEW b \in Int
  PROVE  Cong(a, b) <=> a % P = b % P
<1>1. a % P \in Field /\ b % P \in Field /\ a % P \in Int /\ b % P \in Int
  /\ Cong(a % P, a) /\ Cong(a, a % P) /\ Cong(b % P, b) /\ Cong(b, b % P)
  BY ModCong
<1>2. ASSUME Cong(a, b) PROVE a % P = b % P
  BY <1>1, <1>2, CongTrans, CongField
<1>3. ASSUME a % P = b % P PROVE Cong(a, b)
  BY <1>1, <1>3, CongTrans
<1> QED
  BY <1>2, <1>3

\* Every member of the field but zero has an inverse: the least multiple of x above zero
\* divides the prime P, and so it is 1.
LEMMA InverseExists ==
  ASSUME NEW x \in Field, x # 0
  PROVE  \E y \in Field : (x * y) % P = 1
<1> DEFINE T == {r \in 1 .. P - 1 : \E y \in Int : Cong(r, x * y)}
<1>1. P \in Nat /\ P > 1 /\ x \in Int /\ x \in 1 .. P - 1
  BY PrimeAssumption DEF Field
<1>2. x \in T
  <2>1. Cong(x, x * 1)
    BY <1>1, CongRefl
  <2>2. \E y \in Int : Cong(x, x * y)
    BY <2>1
  <2> QED
    BY <1>1, <2>2, Zenon
<1>3. T \in SUBSET Nat /\ T # {}
  <2>1. T \subseteq 1 .. P - 1
    OBVIOUS
  <2> HIDE DEF T
  <2> QED
    BY <1>1, <1>2, <2>1
<1>4. PICK d \in T : \A r \in T : d <= r
  BY <1>3, Least, Zenon
<1>5. PICK y \in Int : Cong(d, x * y)
  BY <1>4
<1>6. d \in 1 .. P - 1 /\ d \in Nat /\ d > 0
  BY <1>1, <1>4
<1>7. P % d = 0
  <2> DEFINE t == P \div d
             r == P % d
  <2>1. r \in 0 .. d - 1 /\ t \in Int /\ P = d * t + r
    BY <1>1, <1>6, DivMod
  <2> HIDE DEF t, r
  <2>2. PICK q \in Int : d = x * y + P * q
    BY <1>5 DEF Cong
  <2>3. r = x * (-(y * t)) + P * (1 - q * t)
    <3>1. d * t = x * (y * t) + P * (q * t)
      BY <2>1, <2>2, <1>1, <1>5
    <3>2. x * (-(y * t)) = -(x * (y * t)) /\ P * (1 - q * t) = P - P * (q * t)
      BY <2>1, <2>2, <1>1, <1>5
    <3>3. x * (y * t) \in Int /\ P * (q * t) \in Int /\ r \in Int
      BY <2>1, <2>2, <1>1, <1>5
    <3> QED
      BY <2>1, <3>1, <3>2, <3>3, <1>1
  <2>4. -(y * t) \in Int /\ 1 - q * t \in Int
    BY <2>1, <2>2, <1>5
  <2>5. Cong(r, x * (-(y * t)))
    BY <2>3, <2>4 DEF Cong
  <2>6. ASSUME r # 0 PROVE FALSE
    <3>1. r \in 1 .. P - 1 /\ r < d
      BY <2>1, <2>6, <1>1, <1>6
    <3>2. r \in T
      BY <2>4, <2>5, <3>1
    <3> HIDE DEF T
    <3> QED
      BY <1>4, <1>6, <3>1, <3>2
  <2> QED
    BY <2>6 DEF r
<1>8. d = 1
  BY <1>1, <1>6, <1>7, PrimeAssumption
<1>9. y % P \in Field /\ y % P \in Int /\ Cong(y % P, y)
  BY <1>5, ModCong
<1>10. Cong(x * (y % P), x * y)
  BY <1>1, <1>5, <1>9, CongRefl, CongAdd, Zenon
<1>11. Cong(x * y, 1)
  BY <1>1, <1>5, <1>8, CongSym
<1>12. Cong(x * (y % P), 1)
  BY <1>1, <1>5, <1>9, <1>10, <1>11, CongTrans
<1>13. (x * (y % P)) % P = 1 % P
  BY <1>1, <1>9, <1>12, CongMod
<1>14. 1 % P = 1
  BY <1>1
<1> QED
  BY <1>9, <1>13, <1>14

\* The inverse of a number other than zero.
LEMMA InverseIs ==
  ASSUME NEW x \in Field, x # 0
  PROVE  Inv(x) \in Field /\ Inv(x) \in Int /\ Cong(x * Inv(x), 1)
<1>1. Inv(x) \in Field /\ (x * Inv(x)) % P = 1
  BY InverseExists DEF Inv
<1>2. x \in Int /\ Inv(x) \in Int /\ 1 % P = 1
  BY <1>1, PrimeAssumption DEF Field
<1>3. x * Inv(x) \in Int
  BY <1>2
<1> QED
  BY <1>1, <1>2, <1>3, CongMod

\* A product is zero only if a factor is.
LEMMA NoZeroDivisor ==
  ASSUME NEW x \in Field, x # 0, NEW y \in Int, Cong(x * y, 0)
  PROVE  Cong(y, 0)
<1>1. Inv(x) \in Int /\ Cong(x * Inv(x), 1) /\ x \in Int
  BY InverseIs DEF Field
<1>2. Cong(Inv(x) * (x * y), Inv(x) * 0)
  BY <1>1, CongRefl, CongAdd
<1>3. Cong(x * Inv(x) * y, 1 * y)
  <2> DEFINE z == x * Inv(x)
  <2>1. z \in Int /\ 1 \in Int /\ Cong(z, 1) /\ Cong(y, y)
    BY <1>1, CongRefl
  <2> HIDE DEF z
  <2>2. Cong(z * y, 1 * y)
    BY <2>1, CongAdd
  <2> QED
    BY <2>2 DEF z
<1>4. Inv(x) * (x * y) = x * Inv(x) * y /\ x * Inv(x) * y \in Int /\ 1 * y = y /\ Inv(x) * 0 = 0
  BY <1>1
<1>5. Cong(y, x * Inv(x) * y)
  BY <1>3, <1>4, CongSym
<1> QED
  BY <1>2, <1>4, <1>5, CongTrans

\* Congruent terms have congruent sums.
LEMMA SumCong ==
  ASSUME NEW f, NEW g, NEW n \in Nat,
         \A m \in 0 .. n - 1 : f[m] \in Int /\ g[m] \in Int /\ Cong(f[m], g[m])
  PROVE  Cong(Sum(f, n), Sum(g, n))
<1> DEFINE S == {m \in Nat : m <= n => Cong(Sum(f, m), Sum(g, m))}
<1>1. 0 \in S
  BY SumEmpty, CongRefl
<1>2. ASSUME NEW m \in Nat, m \in S PROVE m + 1 \in S
  <2> SUFFICES ASSUME m + 1 <= n PROVE Cong(Sum(f, m + 1), Sum(g, m + 1))
    OBVIOUS
  <2>1. \A i \in 0 .. m : f[i] \in Int /\ g[i] \in Int
    OBVIOUS
  <2>2. /\ Sum(f, m) \in Int /\ Sum(g, m) \in Int
        /\ Sum(f, m + 1) = Sum(f, m) + f[m]
        /\ Sum(g, m + 1) = Sum(g, m) + g[m]
    BY <2>1, SumType, SumNext
  <2>3. Cong(Sum(f, m), Sum(g, m)) /\ Cong(f[m], g[m]) /\ f[m] \in Int /\ g[m] \in Int
    BY <1>2
  <2> HIDE DEF S
  <2> QED
    BY <2>2, <2>3, CongAdd, Zenon
<1> HIDE DEF S
<1>3. \A m \in Nat : m \in S
  BY <1>1, <1>2, SetInduction
<1> QED
  BY <1>3 DEF S

-------------------------------------------------------------------------------
(* Exchanges *)

\* What an exchange of two entries leaves in every place.
LEMMA ExchangeIs ==
  ASSUME NEW S, NEW z \in [Idx -> S], NEW i \in Idx, NEW j \in Idx
  PROVE  /\ Exchange(z, i, j) \in [Idx -> S]
         /\ \A l \in Idx : Exchange(z, i, j)[l] = IF l = i THEN z[j] ELSE IF l = j THEN z[i] ELSE z[l]
BY DEF Exchange

\* The vectors that the exchanges of a pivot vector leave, one after the other.
Exchanges(g, piv, y, S) ==
  /\ g \in [Nat -> [Idx -> S]]
  /\ g[0] = y
  /\ \A m \in Idx : g[m + 1] = Exchange(g[m], m, piv[m])

\* The exchanges of a pivot vector can be made one after the other.
LEMMA ExchangesExist ==
  ASSUME NEW S, NEW y \in [Idx -> S], NEW piv \in [Idx -> Idx]
  PROVE  \E g : Exchanges(g, piv, y, S)
<1> DEFINE V == [Idx -> S]
           F == [z \in V |-> [m \in Nat |-> IF m \in Idx THEN Exchange(z, m, piv[m]) ELSE z]]
<1>1. ASSUME NEW z \in V, NEW m \in Nat
      PROVE  (IF m \in Idx THEN Exchange(z, m, piv[m]) ELSE z) \in V
  <2>1. CASE m \in Idx
    <3>1. piv[m] \in Idx
      BY <2>1
    <3> QED
      BY <2>1, <3>1, ExchangeIs, Zenon
  <2> QED
    BY <2>1
<1>2. /\ y \in V /\ F \in [V -> [Nat -> V]]
      /\ \A z \in V, m \in Idx : m \in Nat => F[z][m] = Exchange(z, m, piv[m])
  BY <1>1
<1> HIDE DEF F, V
<1>3. PICK g : Recursive(g, y, F, V)
  BY <1>2, Recursion
<1>4. g \in [Nat -> V] /\ g[0] = y /\ \A m \in Nat : g[m + 1] = F[g[m]][m]
  BY <1>3 DEF Recursive
<1>5. ASSUME NEW m \in Idx PROVE g[m + 1] = Exchange(g[m], m, piv[m])
  <2>1. m \in Nat /\ g[m] \in V
    BY <1>4, SizeAssumption DEF Idx
  <2> QED
    BY <1>2, <1>4, <2>1, Zenon
<1>6. Exchanges(g, piv, y, S)
  BY <1>4, <1>5 DEF Exchanges, V
<1> QED
  BY <1>6

\* Permuted is the vector that they leave.
LEMMA PermutedIs ==
  ASSUME NEW S, NEW y, NEW piv, NEW g, Exchanges(g, piv, y, S), NEW n \in 0 .. N
  PROVE  Permuted(piv, y, n) = g[n]
<1> DEFINE Def(h) == h = [m \in 0 .. n |-> IF m = 0 THEN y ELSE Exchange(h[m - 1], m - 1, piv[m - 1])]
           h == CHOOSE u : Def(u)
           w == [m \in 0 .. n |-> g[m]]
<1>0. N \in Nat /\ n \in Nat /\ g[0] = y /\ \A m \in Idx : g[m + 1] = Exchange(g[m], m, piv[m])
  BY SizeAssumption DEF Exchanges
<1>1. Def(w)
  <2>1. ASSUME NEW m \in 0 .. n
        PROVE  g[m] = IF m = 0 THEN y ELSE Exchange(w[m - 1], m - 1, piv[m - 1])
    <3>1. CASE m = 0
      BY <3>1, <1>0
    <3>2. CASE m # 0
      <4>1. m - 1 \in Idx /\ (m - 1) + 1 = m /\ m - 1 \in 0 .. n
        BY <3>2, <1>0 DEF Idx
      <4>2. g[m] = Exchange(g[m - 1], m - 1, piv[m - 1])
        BY <4>1, <1>0
      <4>3. w[m - 1] = g[m - 1]
        BY <4>1
      <4> QED
        BY <3>2, <4>2, <4>3
    <3> QED
      BY <3>1, <3>2
  <2> QED
    BY <2>1
<1>2. Def(h)
  BY <1>1, Zenon
<1> HIDE DEF h, w
<1> DEFINE T == {m \in Nat : m \in 0 .. n => h[m] = g[m]}
<1>3. 0 \in T
  BY <1>0, <1>2
<1>4. ASSUME NEW m \in Nat, m \in T PROVE m + 1 \in T
  <2> SUFFICES ASSUME m + 1 \in 0 .. n PROVE h[m + 1] = g[m + 1]
    OBVIOUS
  <2>1. m \in 0 .. n /\ m \in Idx /\ (m + 1) - 1 = m /\ m + 1 # 0
    BY <1>0 DEF Idx
  <2>2. h[m] = g[m]
    BY <1>4, <2>1
  <2>3. h[m + 1] = Exchange(h[m], m, piv[m])
    BY <1>2, <2>1
  <2> QED
    BY <1>0, <2>1, <2>2, <2>3
<1> HIDE DEF T, Def
<1>5. \A m \in Nat : m \in T
  BY <1>3, <1>4, SetInduction
<1>6. h[n] = g[n]
  BY <1>0, <1>5 DEF T
<1> QED
  BY <1>6 DEF Permuted, h, Def

\* No exchange, and one more.
LEMMA PermutedNone ==
  ASSUME NEW S, NEW y \in [Idx -> S], NEW piv \in [Idx -> Idx]
  PROVE  Permuted(piv, y, 0) = y
<1>1. PICK g : Exchanges(g, piv, y, S)
  BY ExchangesExist, Zenon
<1>2. 0 \in 0 .. N
  BY SizeAssumption
<1>3. Permuted(piv, y, 0) = g[0]
  BY <1>1, <1>2, PermutedIs
<1> QED
  BY <1>1, <1>3 DEF Exchanges

\* One exchange more.
LEMMA PermutedNext ==
  ASSUME NEW S, NEW y \in [Idx -> S], NEW piv \in [Idx -> Idx], NEW n \in Idx
  PROVE  Permuted(piv, y, n + 1) = Exchange(Permuted(piv, y, n), n, piv[n])
<1>1. PICK g : Exchanges(g, piv, y, S)
  BY ExchangesExist
<1>2. n \in 0 .. N /\ n + 1 \in 0 .. N
  BY SizeAssumption DEF Idx
<1>3. Permuted(piv, y, n) = g[n] /\ Permuted(piv, y, n + 1) = g[n + 1]
  BY <1>1, <1>2, PermutedIs
<1> QED
  BY <1>1, <1>3 DEF Exchanges

\* The exchanges keep the type of the vector.
LEMMA PermutedType ==
  ASSUME NEW S, NEW y \in [Idx -> S], NEW piv \in [Idx -> Idx], NEW n \in 0 .. N
  PROVE  Permuted(piv, y, n) \in [Idx -> S]
<1>1. PICK g : Exchanges(g, piv, y, S)
  BY ExchangesExist, Zenon
<1>2. g[n] \in [Idx -> S]
  BY <1>1, SizeAssumption DEF Exchanges
<1> QED
  BY <1>1, <1>2, PermutedIs


\* The exchanges move the entries, whatever they are.
LEMMA PermutedGathers ==
  ASSUME NEW y, y = [i \in Idx |-> y[i]], NEW piv \in [Idx -> Idx], NEW n \in 0 .. N
  PROVE  \A i \in Idx : Permuted(piv, y, n)[i] = y[Permuted(piv, Identity, n)[i]]
<1> DEFINE S == {y[i] : i \in Idx}
<1>y. y \in [Idx -> S]
  OBVIOUS
<1> HIDE DEF S
<1> DEFINE T == {m \in Nat : m <= N => \A i \in Idx : Permuted(piv, y, m)[i] = y[Permuted(piv, Identity, m)[i]]}
<1>0. N \in Nat /\ y \in [Idx -> S] /\ Identity \in [Idx -> Idx] /\ \A i \in Idx : Identity[i] = i
  BY <1>y, SizeAssumption DEF Identity
<1>1. 0 \in T
  <2>1. Permuted(piv, y, 0) = y /\ Permuted(piv, Identity, 0) = Identity
    BY <1>0, PermutedNone, Zenon
  <2> QED
    BY <1>0, <2>1
<1>2. ASSUME NEW m \in Nat, m \in T PROVE m + 1 \in T
  <2> SUFFICES ASSUME m + 1 <= N, NEW i \in Idx
               PROVE  Permuted(piv, y, m + 1)[i] = y[Permuted(piv, Identity, m + 1)[i]]
    OBVIOUS
  <2>1. m \in Idx /\ m \in 0 .. N /\ piv[m] \in Idx
    BY <1>0 DEF Idx
  <2>2. \A l \in Idx : Permuted(piv, y, m)[l] = y[Permuted(piv, Identity, m)[l]]
    BY <1>2, <2>1, <1>0
  <2> HIDE DEF T
  <2>3. /\ Permuted(piv, y, m + 1) = Exchange(Permuted(piv, y, m), m, piv[m])
        /\ Permuted(piv, Identity, m + 1) = Exchange(Permuted(piv, Identity, m), m, piv[m])
    BY <1>0, <2>1, PermutedNext, Zenon
  <2>4. Permuted(piv, y, m) \in [Idx -> S] /\ Permuted(piv, Identity, m) \in [Idx -> Idx]
    BY <1>0, <2>1, PermutedType
  <2> DEFINE a == Permuted(piv, y, m)
             b == Permuted(piv, Identity, m)
  <2>5. a \in [Idx -> S] /\ b \in [Idx -> Idx]
    BY <2>4
  <2> HIDE DEF a, b
  <2>6. Exchange(a, m, piv[m])[i] = IF i = m THEN a[piv[m]] ELSE IF i = piv[m] THEN a[m] ELSE a[i]
    BY <2>1, <2>5 DEF Exchange
  <2>7. Exchange(b, m, piv[m])[i] = IF i = m THEN b[piv[m]] ELSE IF i = piv[m] THEN b[m] ELSE b[i]
    BY <2>1, <2>5 DEF Exchange
  <2>8. \A l \in Idx : a[l] = y[b[l]]
    BY <2>2 DEF a, b
  <2>9. Exchange(a, m, piv[m])[i] = y[Exchange(b, m, piv[m])[i]]
    BY <2>1, <2>6, <2>7, <2>8
  <2> QED
    BY <2>3, <2>9 DEF a, b
<1> HIDE DEF T
<1>3. \A m \in Nat : m \in T
  BY <1>1, <1>2, SetInduction
<1> QED
  BY <1>0, <1>3 DEF T

\* No row is lost.
LEMMA PermutedOnto ==
  ASSUME NEW piv \in [Idx -> Idx], NEW n \in 0 .. N
  PROVE  \A i \in Idx : \E j \in Idx : Permuted(piv, Identity, n)[j] = i
<1> DEFINE T == {m \in Nat : m <= N => \A i \in Idx : \E j \in Idx : Permuted(piv, Identity, m)[j] = i}
<1>0. N \in Nat /\ Identity \in [Idx -> Idx] /\ \A i \in Idx : Identity[i] = i
  BY SizeAssumption DEF Identity
<1>1. 0 \in T
  <2>1. Permuted(piv, Identity, 0) = Identity
    BY <1>0, PermutedNone, Zenon
  <2> QED
    BY <1>0, <2>1
<1>2. ASSUME NEW m \in Nat, m \in T PROVE m + 1 \in T
  <2> SUFFICES ASSUME m + 1 <= N, NEW i \in Idx
               PROVE  \E j \in Idx : Permuted(piv, Identity, m + 1)[j] = i
    OBVIOUS
  <2>1. m \in Idx /\ m \in 0 .. N /\ piv[m] \in Idx
    BY <1>0 DEF Idx
  <2>2. PICK j \in Idx : Permuted(piv, Identity, m)[j] = i
    BY <1>2, <2>1, <1>0
  <2> HIDE DEF T
  <2>3. Permuted(piv, Identity, m + 1) = Exchange(Permuted(piv, Identity, m), m, piv[m])
    BY <1>0, <2>1, PermutedNext
  <2>4. Permuted(piv, Identity, m) \in [Idx -> Idx]
    BY <1>0, <2>1, PermutedType
  <2>5. \A l \in Idx : Permuted(piv, Identity, m + 1)[l] =
             IF l = m THEN Permuted(piv, Identity, m)[piv[m]]
             ELSE IF l = piv[m] THEN Permuted(piv, Identity, m)[m]
             ELSE Permuted(piv, Identity, m)[l]
    <3> DEFINE a == Permuted(piv, Identity, m)
    <3>1. a \in [Idx -> Idx]
      BY <2>4
    <3> HIDE DEF a
    <3>2. \A l \in Idx : Exchange(a, m, piv[m])[l] =
             IF l = m THEN a[piv[m]] ELSE IF l = piv[m] THEN a[m] ELSE a[l]
      BY <2>1, <3>1 DEF Exchange
    <3> QED
      BY <2>3, <3>2 DEF a
  <2>6. Permuted(piv, Identity, m + 1)[IF j = m THEN piv[m] ELSE IF j = piv[m] THEN m ELSE j] = i
    BY <2>1, <2>2, <2>5, Zenon
  <2> QED
    BY <2>1, <2>6, Zenon
<1> HIDE DEF T
<1>3. \A m \in Nat : m \in T
  BY <1>1, <1>2, SetInduction
<1> QED
  BY <1>0, <1>3 DEF T

\* An exchange that is not yet applied does not matter.
LEMMA PermutedSame ==
  ASSUME NEW S, NEW y \in [Idx -> S], NEW piv \in [Idx -> Idx], NEW piw \in [Idx -> Idx],
         NEW n \in 0 .. N, \A l \in 0 .. n - 1 : piv[l] = piw[l]
  PROVE  Permuted(piv, y, n) = Permuted(piw, y, n)
<1> DEFINE T == {m \in Nat : m <= n => Permuted(piv, y, m) = Permuted(piw, y, m)}
<1>0. N \in Nat /\ n \in Nat
  BY SizeAssumption
<1>1. 0 \in T
  BY PermutedNone, Zenon
<1>2. ASSUME NEW m \in Nat, m \in T PROVE m + 1 \in T
  <2> SUFFICES ASSUME m + 1 <= n PROVE Permuted(piv, y, m + 1) = Permuted(piw, y, m + 1)
    OBVIOUS
  <2>1. m \in Idx /\ piv[m] = piw[m] /\ m <= n
    BY <1>0 DEF Idx
  <2>2. Permuted(piv, y, m) = Permuted(piw, y, m)
    BY <1>2, <2>1
  <2> HIDE DEF T
  <2> QED
    BY <2>1, <2>2, PermutedNext, Zenon
<1> HIDE DEF T
<1>3. \A m \in Nat : m \in T
  BY <1>1, <1>2, SetInduction
<1> QED
  BY <1>0, <1>3 DEF T

-------------------------------------------------------------------------------
(* Substitution *)

\* The indices are the natural numbers below N.
LEMMA IdxIs == N \in Nat /\ N > 0 /\ Idx \subseteq Nat /\ \A m \in Nat : m \in Idx <=> m < N
BY SizeAssumption DEF Idx

\* Every y[i] is computed from y as F says.
Substituted(y, F, V) == y \in [Idx -> V] /\ \A i \in Idx : y[i] = F[i][y]

\* There is such a vector if each entry depends only on the ones before it in some order.
LEMMA SubstitutionExists ==
  ASSUME NEW V, NEW a \in V, NEW F, F \in [Idx -> [[Idx -> V] -> V]], NEW t \in [Idx -> Idx],
         \A i \in Idx : \E m \in Idx : t[m] = i,
         \A l, m \in Idx : t[l] = t[m] => l = m,
         \A m \in Idx : \A y, z \in [Idx -> V] :
           (\A l \in 0 .. m - 1 : y[t[l]] = z[t[l]]) => F[t[m]][y] = F[t[m]][z]
  PROVE  \E y : Substituted(y, F, V)
<1> DEFINE W == [Idx -> V]
           Put(z, m) == [z EXCEPT ![t[m]] = F[t[m]][z]]
           G == [z \in W |-> [m \in Nat |-> IF m \in Idx THEN Put(z, m) ELSE z]]
           c == [i \in Idx |-> a]
<1>0. N \in Nat /\ Idx \subseteq Nat /\ \A m \in Nat : m \in Idx <=> m < N
  BY IdxIs
<1>1. \A m \in Idx, z \in W : F[t[m]][z] \in V
  OBVIOUS
<1>2. /\ c \in W /\ G \in [W -> [Nat -> W]]
      /\ \A z \in W, m \in Nat : m \in Idx => G[z][m] = Put(z, m)
      /\ \A z \in W, m \in Nat : m \notin Idx => G[z][m] = z
  BY <1>1
<1>3. ASSUME NEW z \in W, NEW m \in Idx
      PROVE  Put(z, m)[t[m]] = F[t[m]][z] /\ \A i \in Idx : i # t[m] => Put(z, m)[i] = z[i]
  OBVIOUS
<1> HIDE DEF G, W, Put, c
<1>4. PICK g : Recursive(g, c, G, W)
  BY <1>2, Recursion
<1>5. g \in [Nat -> W] /\ \A m \in Nat : g[m + 1] = G[g[m]][m]
  BY <1>4 DEF Recursive
<1>6. ASSUME NEW l \in Idx
      PROVE  \A n \in Nat : l < n => g[n][t[l]] = g[l + 1][t[l]]
  <2> DEFINE T == {n \in Nat : l < n => g[n][t[l]] = g[l + 1][t[l]]}
  <2>0. l \in Nat /\ t[l] \in Idx
    BY <1>0
  <2>1. 0 \in T
    BY <2>0
  <2>2. ASSUME NEW n \in Nat, n \in T PROVE n + 1 \in T
    <3> SUFFICES ASSUME l < n + 1 PROVE g[n + 1][t[l]] = g[l + 1][t[l]]
      OBVIOUS
    <3>1. CASE n = l
      BY <3>1
    <3>2. CASE n # l
      <4>1. g[n][t[l]] = g[l + 1][t[l]] /\ g[n] \in W /\ g[n + 1] = G[g[n]][n]
        BY <2>0, <2>2, <3>2, <1>5
      <4>2. CASE n \in Idx
        <5>1. t[l] # t[n] /\ g[n + 1] = Put(g[n], n)
          BY <3>2, <4>1, <4>2, <1>2, Zenon
        <5> QED
          <6>1. \A i \in Idx : i # t[n] => Put(g[n], n)[i] = g[n][i]
            BY <4>1, <4>2, <1>3
          <6> QED
            BY <2>0, <4>1, <5>1, <6>1, Zenon
      <4>3. CASE n \notin Idx
        BY <4>1, <4>3, <1>2
      <4> QED
        BY <4>2, <4>3
    <3> QED
      BY <3>1, <3>2
  <2> HIDE DEF T
  <2>3. \A n \in Nat : n \in T
    BY <2>1, <2>2, SetInduction, Zenon
  <2> QED
    BY <2>3 DEF T
<1> DEFINE y == g[N]
<1>7. y \in [Idx -> V]
  BY <1>0, <1>5 DEF W
<1>8. ASSUME NEW i \in Idx PROVE y[i] = F[i][y]
  <2>1. PICK m \in Idx : t[m] = i
    OBVIOUS
  <2>2. m \in Nat /\ m < N /\ g[m] \in W /\ g[m] \in [Idx -> V]
    BY <1>0, <1>5 DEF W
  <2>3. y[t[m]] = g[m + 1][t[m]]
    BY <1>0, <1>6, <2>2
  <2>4. g[m + 1][t[m]] = F[t[m]][g[m]]
    <3>1. g[m + 1] = Put(g[m], m)
      BY <1>2, <1>5, <2>2, Zenon
    <3> QED
      BY <1>3, <2>2, <3>1
  <2>5. ASSUME NEW l \in 0 .. m - 1 PROVE g[m][t[l]] = y[t[l]]
    <3>1. l \in Idx /\ l < m /\ l < N
      BY <2>2, <1>0
    <3>2. g[m][t[l]] = g[l + 1][t[l]]
      BY <1>6, <2>2, <3>1
    <3>3. y[t[l]] = g[l + 1][t[l]]
      BY <1>0, <1>6, <3>1, Zenon
    <3> QED
      BY <3>2, <3>3
  <2> HIDE DEF y
  <2>6. F[t[m]][g[m]] = F[t[m]][y]
    <3>1. \A u, z \in [Idx -> V] :
            (\A l \in 0 .. m - 1 : u[t[l]] = z[t[l]]) => F[t[m]][u] = F[t[m]][z]
      BY Zenon
    <3> QED
      BY <2>2, <2>5, <3>1, <1>7, Zenon
  <2> QED
    BY <2>1, <2>3, <2>4, <2>6
<1> HIDE DEF y
<1>9. Substituted(y, F, V)
  BY <1>7, <1>8 DEF Substituted
<1> QED
  BY <1>9


\* The entries of vectors and matrices are integers.
LEMMA Entries ==
  /\ Field \subseteq Int
  /\ \A y \in Vector, i \in Idx : y[i] \in Field /\ y[i] \in Int
  /\ \A M \in Matrix, i \in Idx : M[i] \in Vector
  /\ \A M \in Matrix, i, j \in Idx : M[i][j] \in Field /\ M[i][j] \in Int
<1>1. Field \subseteq Int
  BY PrimeAssumption DEF Field
<1> HIDE DEF Field
<1> QED
  BY <1>1, Zenon DEF Vector, Matrix

\* The indices before i.
LEMMA RowBelow == \A i \in Idx : i \in Nat /\ \A j \in 0 .. i - 1 : j \in Idx
BY SizeAssumption DEF Idx

\* What forward substitution computes from b.
Forward(M, b, i, y) == (b[i] - Sum([j \in 0 .. i - 1 |-> M[i][j] * y[j]], i)) % P

\* It is the right number, and a member of the field.
LEMMA ForwardType ==
  ASSUME NEW M \in Matrix, NEW b \in Vector, NEW i \in Idx, NEW y \in Vector
  PROVE  /\ Sum([j \in 0 .. i - 1 |-> M[i][j] * y[j]], i) \in Int
         /\ Forward(M, b, i, y) \in Field
         /\ Cong(Forward(M, b, i, y), b[i] - Sum([j \in 0 .. i - 1 |-> M[i][j] * y[j]], i))
<1> DEFINE f == [j \in 0 .. i - 1 |-> M[i][j] * y[j]]
<1>1. i \in Nat /\ \A j \in 0 .. i - 1 : j \in Idx
  BY RowBelow
<1>2. ASSUME NEW j \in 0 .. i - 1 PROVE f[j] \in Int
  BY <1>1, Entries
<1> HIDE DEF f
<1>3. Sum(f, i) \in Int
  BY <1>1, <1>2, SumType
<1>4. b[i] \in Int
  BY Entries
<1>5. b[i] - Sum(f, i) \in Int
  BY <1>3, <1>4
<1> QED
  BY <1>3, <1>5, ModCong, Zenon DEF Forward, f

\* ForwardSub is the vector whose every entry is computed from the entries before it.
LEMMA ForwardIs ==
  ASSUME NEW M \in Matrix, NEW b \in Vector
  PROVE  /\ ForwardSub(M, b) \in Vector
         /\ \A i \in Idx : ForwardSub(M, b)[i] = Forward(M, b, i, ForwardSub(M, b))
<1> DEFINE F == [i \in Idx |-> [y \in [Idx -> Field] |-> Forward(M, b, i, y)]]
           t == [i \in Idx |-> i]
<1>1. \A i \in Idx, y \in [Idx -> Field] : Forward(M, b, i, y) \in Field
  BY ForwardType, Zenon DEF Vector
<1>2. /\ F \in [Idx -> [[Idx -> Field] -> Field]]
      /\ \A i \in Idx, y \in [Idx -> Field] : F[i][y] = Forward(M, b, i, y)
  BY <1>1
<1>3. t \in [Idx -> Idx] /\ \A i \in Idx : t[i] = i
  OBVIOUS
<1> HIDE DEF F, t
<1>4. ASSUME NEW m \in Idx, NEW y \in [Idx -> Field], NEW z \in [Idx -> Field],
             \A l \in 0 .. m - 1 : y[t[l]] = z[t[l]]
      PROVE  F[t[m]][y] = F[t[m]][z]
  <2> DEFINE f == [j \in 0 .. m - 1 |-> M[m][j] * y[j]]
             h == [j \in 0 .. m - 1 |-> M[m][j] * z[j]]
  <2>1. m \in Nat /\ \A j \in 0 .. m - 1 : j \in Idx
    BY RowBelow
  <2>2. \A l \in 0 .. m - 1 : y[l] = z[l]
    BY <1>3, <1>4, <2>1
  <2>3. \A j \in 0 .. m - 1 : f[j] \in Int
    BY <2>1, Entries DEF Vector
  <2>4. f = h
    BY <2>2
  <2>5. Forward(M, b, m, y) = Forward(M, b, m, z)
    BY <2>4, Zenon DEF Forward
  <2> QED
    BY <1>2, <1>3, <2>5
<1>5. /\ \A i \in Idx : \E m \in Idx : t[m] = i
      /\ \A l, m \in Idx : t[l] = t[m] => l = m
      /\ 0 \in Field
  BY <1>3, PrimeAssumption DEF Field
<1>6. PICK y : Substituted(y, F, Field)
  BY <1>2, <1>3, <1>4, <1>5, SubstitutionExists, Zenon
<1> DEFINE Def(u) == u = [i \in Idx |-> (b[i] - Sum([j \in 0 .. i - 1 |-> M[i][j] * u[j]], i)) % P]
<1>7. y \in [Idx -> Field] /\ \A i \in Idx : y[i] = Forward(M, b, i, y)
  BY <1>2, <1>6 DEF Substituted
<1>8. Def(y)
  <2>1. \A i \in Idx : y[i] = (b[i] - Sum([j \in 0 .. i - 1 |-> M[i][j] * y[j]], i)) % P
    BY <1>7 DEF Forward
  <2> QED
    BY <2>1, <1>7
<1>9. Def(ForwardSub(M, b))
  BY <1>8, Zenon DEF ForwardSub
<1> DEFINE w == ForwardSub(M, b)
           T == {m \in Nat : \A i \in Idx : i < m => w[i] = y[i]}
<1>10. /\ w = [i \in Idx |-> w[i]]
       /\ \A i \in Idx : w[i] = Forward(M, b, i, w)
  BY <1>9, Zenon DEF Forward
<1> HIDE DEF w, Def
<1>11. 0 \in T
  BY RowBelow
<1>12. ASSUME NEW m \in Nat, m \in T PROVE m + 1 \in T
  <2> SUFFICES ASSUME NEW i \in Idx, i < m + 1 PROVE w[i] = y[i]
    OBVIOUS
  <2>1. i \in Nat /\ \A j \in 0 .. i - 1 : j \in Idx /\ j < m
    BY RowBelow
  <2>2. \A j \in 0 .. i - 1 : w[j] = y[j]
    BY <1>12, <2>1
  <2>3. [j \in 0 .. i - 1 |-> M[i][j] * w[j]] = [j \in 0 .. i - 1 |-> M[i][j] * y[j]]
    BY <2>2
  <2> HIDE DEF T
  <2>4. Forward(M, b, i, w) = Forward(M, b, i, y)
    BY <2>3, Zenon DEF Forward
  <2> QED
    BY <1>7, <1>10, <2>4
<1> HIDE DEF T
<1>13. \A m \in Nat : m \in T
  BY <1>11, <1>12, SetInduction
<1>14. ASSUME NEW i \in Idx PROVE w[i] = y[i]
  <2>1. i + 1 \in Nat /\ i < i + 1
    BY RowBelow
  <2> QED
    BY <1>13, <2>1 DEF T
<1>15. w = y
  BY <1>7, <1>10, <1>14
<1> QED
  BY <1>7, <1>15 DEF w, Vector


\* What back substitution computes from y.
RowAbove(M, i, x) == [j \in Idx |-> IF j <= i THEN 0 ELSE M[i][j] * x[j]]
Backward(M, y, i, x) == ((y[i] - Sum(RowAbove(M, i, x), N)) * Inv(M[i][i])) % P

\* It is the right number, and a member of the field.
LEMMA BackwardType ==
  ASSUME NEW M \in Matrix, NEW y \in Vector, NEW i \in Idx, NEW x \in Vector, M[i][i] # 0
  PROVE  /\ Sum(RowAbove(M, i, x), N) \in Int
         /\ Backward(M, y, i, x) \in Field
         /\ Cong(Backward(M, y, i, x), (y[i] - Sum(RowAbove(M, i, x), N)) * Inv(M[i][i]))
<1> DEFINE f == RowAbove(M, i, x)
<1>1. ASSUME NEW j \in 0 .. N - 1 PROVE f[j] \in Int
  BY Entries DEF Idx, RowAbove
<1> HIDE DEF f
<1>2. Sum(f, N) \in Int
  BY <1>1, IdxIs, SumType
<1>3. y[i] \in Int /\ Inv(M[i][i]) \in Int
  BY Entries, InverseIs
<1>4. (y[i] - Sum(f, N)) * Inv(M[i][i]) \in Int
  BY <1>2, <1>3
<1> QED
  BY <1>2, <1>4, ModCong DEF Backward, f

\* BackSub is the vector whose every entry is computed from the entries after it.
LEMMA BackIs ==
  ASSUME NEW M \in Matrix, NEW y \in Vector, \A i \in Idx : M[i][i] # 0
  PROVE  /\ BackSub(M, y) \in Vector
         /\ \A i \in Idx : BackSub(M, y)[i] = Backward(M, y, i, BackSub(M, y))
<1> DEFINE F == [i \in Idx |-> [x \in [Idx -> Field] |-> Backward(M, y, i, x)]]
           t == [i \in Idx |-> N - 1 - i]
<1>1. \A i \in Idx, x \in [Idx -> Field] : Backward(M, y, i, x) \in Field
  BY BackwardType DEF Vector
<1>2. /\ F \in [Idx -> [[Idx -> Field] -> Field]]
      /\ \A i \in Idx, x \in [Idx -> Field] : F[i][x] = Backward(M, y, i, x)
  BY <1>1
<1>3. t \in [Idx -> Idx] /\ \A i \in Idx : t[i] = N - 1 - i
  BY SizeAssumption DEF Idx
<1> HIDE DEF F, t
<1>4. ASSUME NEW m \in Idx, NEW u \in [Idx -> Field], NEW z \in [Idx -> Field],
             \A l \in 0 .. m - 1 : u[t[l]] = z[t[l]]
      PROVE  F[t[m]][u] = F[t[m]][z]
  <2> DEFINE i == t[m]
  <2>1. i = N - 1 - m /\ i \in Idx
    BY <1>3
  <2>2. ASSUME NEW j \in Idx, ~(j <= i) PROVE u[j] = z[j]
    <3>1. N - 1 - j \in 0 .. m - 1 /\ N - 1 - j \in Idx /\ N - 1 - (N - 1 - j) = j
      BY <2>1, <2>2, SizeAssumption DEF Idx
    <3>2. t[N - 1 - j] = j
      BY <1>3, <3>1
    <3> QED
      BY <1>4, <3>1, <3>2
  <2> HIDE DEF i
  <2>3. RowAbove(M, i, u) = RowAbove(M, i, z)
    BY <2>2 DEF RowAbove
  <2>4. Backward(M, y, i, u) = Backward(M, y, i, z)
    BY <2>3 DEF Backward
  <2> QED
    BY <1>2, <2>1, <2>4 DEF i
<1>5. /\ \A i \in Idx : \E m \in Idx : t[m] = i
      /\ \A l, m \in Idx : t[l] = t[m] => l = m
      /\ 0 \in Field
  <2>1. ASSUME NEW i \in Idx PROVE \E m \in Idx : t[m] = i
    <3>1. N - 1 - i \in Idx /\ N - 1 - (N - 1 - i) = i
      BY SizeAssumption DEF Idx
    <3> QED
      BY <1>3, <3>1
  <2>2. \A l, m \in Idx : t[l] = t[m] => l = m
    BY <1>3, SizeAssumption DEF Idx
  <2>3. 0 \in Field
    BY PrimeAssumption DEF Field
  <2> QED
    BY <2>1, <2>2, <2>3
<1>6. PICK x : Substituted(x, F, Field)
  BY <1>2, <1>3, <1>4, <1>5, SubstitutionExists, Zenon
<1> DEFINE Def(u) ==
      u = [i \in Idx |->
             ((y[i] - Sum([j \in Idx |-> IF j <= i THEN 0 ELSE M[i][j] * u[j]], N)) * Inv(M[i][i])) % P]
<1>7. x \in [Idx -> Field] /\ \A i \in Idx : x[i] = Backward(M, y, i, x)
  BY <1>2, <1>6 DEF Substituted
<1>8. Def(x)
  <2>1. \A i \in Idx : x[i] =
          ((y[i] - Sum([j \in Idx |-> IF j <= i THEN 0 ELSE M[i][j] * x[j]], N)) * Inv(M[i][i])) % P
    BY <1>7 DEF Backward, RowAbove
  <2> QED
    BY <2>1, <1>7
<1>9. Def(BackSub(M, y))
  BY <1>8, Zenon DEF BackSub
<1> DEFINE w == BackSub(M, y)
           T == {m \in Nat : \A i \in Idx : N - m <= i => w[i] = x[i]}
<1>10. w = [i \in Idx |-> w[i]] /\ \A i \in Idx : w[i] = Backward(M, y, i, w)
  BY <1>9, Zenon DEF Backward, RowAbove
<1> HIDE DEF w, Def
<1>11. 0 \in T
  BY SizeAssumption DEF Idx
<1>12. ASSUME NEW m \in Nat, m \in T PROVE m + 1 \in T
  <2> SUFFICES ASSUME NEW i \in Idx, N - (m + 1) <= i PROVE w[i] = x[i]
    OBVIOUS
  <2>1. \A j \in Idx : ~(j <= i) => N - m <= j
    BY SizeAssumption DEF Idx
  <2>2. \A j \in Idx : ~(j <= i) => w[j] = x[j]
    BY <1>12, <2>1
  <2> HIDE DEF T
  <2>3. RowAbove(M, i, w) = RowAbove(M, i, x)
    BY <2>2 DEF RowAbove
  <2>4. Backward(M, y, i, w) = Backward(M, y, i, x)
    BY <2>3 DEF Backward
  <2> QED
    BY <1>7, <1>10, <2>4
<1> HIDE DEF T
<1>13. \A m \in Nat : m \in T
  BY <1>11, <1>12, SetInduction
<1>14. ASSUME NEW i \in Idx PROVE w[i] = x[i]
  <2>1. N \in Nat /\ N - N <= i
    BY SizeAssumption DEF Idx
  <2> QED
    BY <1>13, <2>1 DEF T
<1>15. w = x
  BY <1>7, <1>10, <1>14
<1> QED
  BY <1>7, <1>15 DEF w, Vector

-------------------------------------------------------------------------------
(* The factors *)

\* The product of a row and a vector.
Dot(r, x) == Sum([j \in Idx |-> r[j] * x[j]], N)

\* Products are integers.
LEMMA DotType ==
  ASSUME NEW r \in [Idx -> Int], NEW x \in [Idx -> Int]
  PROVE  Dot(r, x) \in Int
<1> DEFINE f == [j \in Idx |-> r[j] * x[j]]
<1>1. \A j \in 0 .. N - 1 : f[j] \in Int
  BY DEF Idx
<1> HIDE DEF f
<1> QED
  BY <1>1, IdxIs, SumType DEF Dot, f

\* The row u is r and c times s.
RowSum(u, r, c, s) ==
  /\ r \in [Idx -> Int] /\ s \in [Idx -> Int] /\ c \in Int
  /\ \A j \in Idx : u[j] = r[j] + c * s[j]

\* The product with a sum of rows.
LEMMA DotLinear ==
  ASSUME NEW x \in [Idx -> Int], NEW r, NEW s, NEW c, NEW u, RowSum(u, r, c, s)
  PROVE  Dot(u, x) = Dot(r, x) + c * Dot(s, x)
<1> DEFINE f == [j \in Idx |-> r[j] * x[j]]
           g == [j \in Idx |-> s[j] * x[j]]
           h == [j \in Idx |-> u[j] * x[j]]
<1>1. ASSUME NEW j \in 0 .. N - 1 PROVE f[j] \in Int /\ g[j] \in Int /\ h[j] = f[j] + c * g[j]
  <2>1. j \in Idx /\ r[j] \in Int /\ s[j] \in Int /\ x[j] \in Int /\ u[j] = r[j] + c * s[j] /\ c \in Int
    BY DEF Idx, RowSum
  <2>2. f[j] = r[j] * x[j] /\ g[j] = s[j] * x[j] /\ h[j] = u[j] * x[j]
    BY <2>1
  <2> HIDE DEF f, g, h
  <2> QED
    BY <2>1, <2>2
<1> HIDE DEF f, g, h
<1>2. Sum(h, N) = Sum(f, N) + c * Sum(g, N)
  BY <1>1, IdxIs, SumLinear DEF RowSum
<1> QED
  BY <1>2 DEF Dot, f, g, h

\* Congruent rows have congruent products.
LEMMA DotCong ==
  ASSUME NEW r \in [Idx -> Int], NEW s \in [Idx -> Int], NEW x \in [Idx -> Int],
         \A j \in Idx : Cong(r[j], s[j])
  PROVE  Cong(Dot(r, x), Dot(s, x))
<1> DEFINE f == [j \in Idx |-> r[j] * x[j]]
           g == [j \in Idx |-> s[j] * x[j]]
<1>1. ASSUME NEW j \in 0 .. N - 1 PROVE f[j] \in Int /\ g[j] \in Int /\ Cong(f[j], g[j])
  <2>1. j \in Idx /\ r[j] \in Int /\ s[j] \in Int /\ x[j] \in Int /\ Cong(r[j], s[j])
    BY DEF Idx
  <2>2. f[j] = r[j] * x[j] /\ g[j] = s[j] * x[j]
    BY <2>1
  <2>3. Cong(r[j] * x[j], s[j] * x[j])
    BY <2>1, CongRefl, CongAdd
  <2> QED
    BY <2>1, <2>2, <2>3
<1> HIDE DEF f, g
<1>2. Cong(Sum(f, N), Sum(g, N))
  BY <1>1, IdxIs, SumCong
<1> QED
  BY <1>2 DEF Dot, f, g

\* A combination of no rows, and of one more.
LEMMA CombineNext ==
  ASSUME NEW a \in [Idx -> Int], NEW R \in [Idx -> [Idx -> Int]]
  PROVE  /\ \A m \in 0 .. N : Combine(a, R, m) \in [Idx -> Int]
         /\ Combine(a, R, 0) = [j \in Idx |-> 0]
         /\ \A m, j \in Idx : Combine(a, R, m + 1)[j] = Combine(a, R, m)[j] + a[m] * R[m][j]
<1> DEFINE f(j) == [l \in Idx |-> a[l] * R[l][j]]
<1>1. \A j, l \in Idx : f(j)[l] \in Int /\ f(j)[l] = a[l] * R[l][j]
  OBVIOUS
<1> HIDE DEF f
<1>2. ASSUME NEW m \in 0 .. N, NEW j \in Idx PROVE Sum(f(j), m) \in Int
  <2>1. m \in Nat /\ \A l \in 0 .. m - 1 : l \in Idx
    BY SizeAssumption DEF Idx
  <2> QED
    BY <1>1, <2>1, SumType
<1>3. ASSUME NEW m \in Idx, NEW j \in Idx PROVE Sum(f(j), m + 1) = Sum(f(j), m) + a[m] * R[m][j]
  <2>1. m \in Nat /\ \A l \in 0 .. m : l \in Idx
    BY SizeAssumption DEF Idx
  <2>2. \A l \in 0 .. m : f(j)[l] \in Int
    BY <1>1, <2>1
  <2>3. Sum(f(j), m + 1) = Sum(f(j), m) + f(j)[m]
    BY <2>1, <2>2, SumNext
  <2> QED
    BY <1>1, <2>3
<1>4. \A j \in Idx : Sum(f(j), 0) = 0
  BY SumEmpty
<1>5. \A m \in Nat : Combine(a, R, m) = [j \in Idx |-> Sum(f(j), m)]
  BY DEF Combine, f
<1>6. /\ \A m \in 0 .. N : m \in Nat
      /\ \A m \in Idx : m \in Nat /\ m + 1 \in Nat
  BY SizeAssumption DEF Idx
<1> QED
  BY <1>2, <1>3, <1>4, <1>5, <1>6


\* The product of a combination of rows is the combination of their products.
LEMMA DotCombine ==
  ASSUME NEW a \in [Idx -> Int], NEW R \in [Idx -> [Idx -> Int]], NEW x \in [Idx -> Int], NEW n \in 0 .. N
  PROVE  /\ \A l \in Idx : Dot(R[l], x) \in Int
         /\ Dot(Combine(a, R, n), x) = Sum([l \in Idx |-> a[l] * Dot(R[l], x)], n)
<1> DEFINE g == [l \in Idx |-> a[l] * Dot(R[l], x)]
           T == {m \in Nat : m <= N => Dot(Combine(a, R, m), x) = Sum(g, m)}
<1>0. N \in Nat /\ n \in Nat /\ n <= N
  BY SizeAssumption
<1>1. \A l \in Idx : Dot(R[l], x) \in Int
  BY DotType
<1>2. \A l \in Idx : g[l] \in Int /\ g[l] = a[l] * Dot(R[l], x)
  BY <1>1
<1> HIDE DEF g
<1>3. 0 \in T
  <2> DEFINE z == [j \in Idx |-> 0]
  <2>1. Combine(a, R, 0) = z
    BY CombineNext
  <2>2. z \in [Idx -> Int]
    OBVIOUS
  <2>3. Dot(z, x) \in Int /\ Dot(z, x) = Dot(z, x) + (-1) * Dot(z, x)
    <3>1. RowSum(z, z, -1, z)
      BY DEF RowSum
    <3> HIDE DEF z
    <3> QED
      BY <2>2, <3>1, DotLinear, DotType
  <2>4. Dot(z, x) = 0
    BY <2>3
  <2> QED
    BY <2>1, <2>4, SumEmpty
<1>4. ASSUME NEW m \in Nat, m \in T PROVE m + 1 \in T
  <2> SUFFICES ASSUME m + 1 <= N PROVE Dot(Combine(a, R, m + 1), x) = Sum(g, m + 1)
    OBVIOUS
  <2>1. m \in Idx /\ m \in 0 .. N /\ m + 1 \in 0 .. N /\ m <= N /\ \A l \in 0 .. m : l \in Idx
    BY <1>0 DEF Idx
  <2>2. Dot(Combine(a, R, m), x) = Sum(g, m)
    BY <1>4, <2>1
  <2> HIDE DEF T
  <2>3. Sum(g, m + 1) = Sum(g, m) + g[m]
    BY <1>2, <2>1, SumNext
  <2> DEFINE r == Combine(a, R, m)
             u == Combine(a, R, m + 1)
  <2>4. /\ r \in [Idx -> Int] /\ u \in [Idx -> Int] /\ R[m] \in [Idx -> Int] /\ a[m] \in Int
        /\ \A j \in Idx : u[j] = r[j] + a[m] * R[m][j]
    BY <2>1, CombineNext, Zenon
  <2> HIDE DEF r, u
  <2>5. Dot(u, x) = Dot(r, x) + a[m] * Dot(R[m], x)
    <3>1. RowSum(u, r, a[m], R[m])
      BY <2>4 DEF RowSum
    <3> QED
      BY <3>1, DotLinear
  <2> QED
    BY <1>2, <2>1, <2>2, <2>3, <2>5 DEF r, u
<1> HIDE DEF T
<1>5. \A m \in Nat : m \in T
  BY <1>3, <1>4, SetInduction
<1> QED
  BY <1>0, <1>1, <1>5 DEF T, g

\* The rows of the factors have integer entries.
LEMMA RowTypes ==
  ASSUME NEW M \in Matrix, NEW c \in 0 .. N, NEW i \in Idx
  PROVE  /\ M[i] \in [Idx -> Int]
         /\ UpperRow(M, i, c) \in [Idx -> Int]
         /\ Rows(M, c) \in [Idx -> [Idx -> Int]]
         /\ Rows(M, c)[i] = UpperRow(M, i, c)
         /\ Multipliers(i, c) \in 0 .. N /\ Multipliers(i, c) <= i
         /\ Rebuilt(M, c, i) \in [Idx -> Int]
<1>1. \A l \in Idx : M[l] \in [Idx -> Int]
  BY Entries DEF Matrix, Vector
<1>2. \A l \in Idx : UpperRow(M, l, c) \in [Idx -> Int]
  BY <1>1 DEF UpperRow
<1>3. Rows(M, c) \in [Idx -> [Idx -> Int]] /\ Rows(M, c)[i] = UpperRow(M, i, c)
  BY <1>2 DEF Rows
<1>4. Multipliers(i, c) \in 0 .. N /\ Multipliers(i, c) <= i
  BY SizeAssumption DEF Multipliers, Idx
<1>5. Combine(M[i], Rows(M, c), Multipliers(i, c)) \in [Idx -> Int]
  BY <1>1, <1>3, <1>4, CombineNext, Zenon
<1>6. Rebuilt(M, c, i) \in [Idx -> Int]
  BY <1>2, <1>5 DEF Rebuilt
<1> QED
  BY <1>1, <1>2, <1>3, <1>4, <1>6

\* The product with a row of the product of the factors: the product with the row of the
\* upper factor, and the multiples that the lower factor adds.
LEMMA RebuiltDot ==
  ASSUME NEW M \in Matrix, NEW c \in 0 .. N, NEW i \in Idx, NEW x \in [Idx -> Int]
  PROVE  /\ \A l \in Idx : Dot(UpperRow(M, l, c), x) \in Int
         /\ Dot(Rebuilt(M, c, i), x) = Dot(UpperRow(M, i, c), x)
              + Sum([l \in Idx |-> M[i][l] * Dot(UpperRow(M, l, c), x)], Multipliers(i, c))
<1> DEFINE r == UpperRow(M, i, c)
           s == Combine(M[i], Rows(M, c), Multipliers(i, c))
           u == Rebuilt(M, c, i)
<1>1. \A l \in Idx : UpperRow(M, l, c) \in [Idx -> Int] /\ Rows(M, c)[l] = UpperRow(M, l, c)
  BY RowTypes
<1>2. M[i] \in [Idx -> Int] /\ Rows(M, c) \in [Idx -> [Idx -> Int]] /\ Multipliers(i, c) \in 0 .. N
  BY RowTypes
<1>3. r \in [Idx -> Int] /\ s \in [Idx -> Int] /\ u \in [Idx -> Int]
  BY <1>1, <1>2, RowTypes, CombineNext, Zenon
<1>4. \A j \in Idx : u[j] = r[j] + s[j]
  BY DEF Rebuilt
<1>5. Dot(s, x) = Sum([l \in Idx |-> M[i][l] * Dot(Rows(M, c)[l], x)], Multipliers(i, c))
  BY <1>2, DotCombine, Zenon
<1>6. [l \in Idx |-> M[i][l] * Dot(Rows(M, c)[l], x)] = [l \in Idx |-> M[i][l] * Dot(UpperRow(M, l, c), x)]
  BY <1>1
<1> HIDE DEF r, s, u
<1>7. RowSum(u, r, 1, s)
  BY <1>3, <1>4 DEF RowSum
<1>8. Dot(u, x) = Dot(r, x) + 1 * Dot(s, x) /\ Dot(s, x) \in Int
  BY <1>3, <1>7, DotLinear, DotType
<1>9. Dot(u, x) = Dot(r, x) + Dot(s, x)
  BY <1>8
<1>10. \A l \in Idx : Dot(UpperRow(M, l, c), x) \in Int
  BY <1>1, DotType
<1> QED
  BY <1>5, <1>6, <1>9, <1>10 DEF r, u


\* Back substitution solves the upper factor.
LEMMA BackSolves ==
  ASSUME NEW M \in Matrix, NEW y \in Vector, \A i \in Idx : M[i][i] # 0, NEW i \in Idx
  PROVE  Cong(Dot(UpperRow(M, i, N), BackSub(M, y)), y[i])
<1> DEFINE x == BackSub(M, y)
           f == [j \in Idx |-> UpperRow(M, i, N)[j] * x[j]]
           h == RowAbove(M, i, x)
           d == M[i][i]
           s == Sum(h, N)
<1>1. x \in Vector /\ x[i] = Backward(M, y, i, x)
  BY BackIs
<1>2. \A j \in Idx : x[j] \in Int /\ M[i][j] \in Int
  BY <1>1, Entries
<1> HIDE DEF x
<1>3. ASSUME NEW j \in 0 .. N - 1 PROVE h[j] \in Int /\ f[j] \in Int /\ (j # i => f[j] = h[j])
  <2>1. j \in Idx /\ x[j] \in Int /\ M[i][j] \in Int /\ j < N /\ j \in Nat /\ i \in Nat
    BY <1>2, IdxIs DEF Idx
  <2>2. f[j] = (IF j < i THEN 0 ELSE M[i][j]) * x[j] /\ h[j] = IF j <= i THEN 0 ELSE M[i][j] * x[j]
    BY <2>1 DEF UpperRow, RowAbove
  <2> HIDE DEF f, h
  <2>3. CASE j < i
    BY <2>1, <2>2, <2>3
  <2>4. CASE ~(j < i)
    BY <2>1, <2>2, <2>4
  <2> QED
    BY <2>3, <2>4
<1>4. f[i] = d * x[i] /\ h[i] = 0
  <2>1. i \in Nat
    BY IdxIs
  <2> QED
    BY <2>1 DEF UpperRow, RowAbove
<1> HIDE DEF f, h
<1>5. i \in 0 .. N - 1 /\ N \in Nat
  BY SizeAssumption DEF Idx
<1>6. Sum(f, N) = s + (f[i] - h[i])
  BY <1>3, <1>5, SumBut
<1>7. s \in Int /\ x[i] \in Int /\ y[i] \in Int /\ d \in Field /\ d \in Int /\ d # 0
  BY <1>1, <1>3, <1>5, Entries, SumType
<1>8. Inv(d) \in Int /\ Cong(d * Inv(d), 1)
  BY <1>7, InverseIs
<1>9. Cong(x[i], (y[i] - s) * Inv(d))
  BY <1>1, BackwardType DEF h
<1> HIDE DEF d, s
<1>10. Cong(d * x[i], d * ((y[i] - s) * Inv(d)))
  <2>1. (y[i] - s) * Inv(d) \in Int
    BY <1>7, <1>8
  <2> QED
    BY <1>7, <1>9, <2>1, CongRefl, CongAdd
<1>11. Cong(d * Inv(d) * (y[i] - s), 1 * (y[i] - s))
  <2>1. d * Inv(d) \in Int /\ y[i] - s \in Int
    BY <1>7, <1>8
  <2>2. Cong(y[i] - s, y[i] - s)
    BY <2>1, CongRefl
  <2> HIDE DEF Cong
  <2> QED
    BY <1>8, <2>1, <2>2, CongAdd
<1>12. /\ d * ((y[i] - s) * Inv(d)) = d * Inv(d) * (y[i] - s) /\ 1 * (y[i] - s) = y[i] - s
       /\ d * Inv(d) * (y[i] - s) \in Int /\ d * x[i] \in Int /\ y[i] - s \in Int
  BY <1>7, <1>8
<1>13. Cong(d * x[i], y[i] - s)
  BY <1>10, <1>11, <1>12, CongTrans
<1>14. Cong(s + d * x[i], s + (y[i] - s))
  BY <1>7, <1>12, <1>13, CongRefl, CongAdd, Zenon
<1>15. s + (y[i] - s) = y[i] /\ Sum(f, N) = s + d * x[i]
  BY <1>4, <1>6, <1>7, <1>12
<1> QED
  BY <1>14, <1>15 DEF Dot, f, x

\* Forward substitution solves the lower one.
LEMMA ForwardSolves ==
  ASSUME NEW M \in Matrix, NEW b \in Vector, NEW i \in Idx
  PROVE  /\ Sum([l \in Idx |-> M[i][l] * ForwardSub(M, b)[l]], i) \in Int
         /\ Cong(ForwardSub(M, b)[i] + Sum([l \in Idx |-> M[i][l] * ForwardSub(M, b)[l]], i), b[i])
<1> DEFINE y == ForwardSub(M, b)
           f == [j \in 0 .. i - 1 |-> M[i][j] * y[j]]
           h == [l \in Idx |-> M[i][l] * y[l]]
<1>1. y \in Vector /\ y[i] = Forward(M, b, i, y)
  BY ForwardIs
<1> HIDE DEF y
<1>2. i \in Nat /\ \A j \in 0 .. i - 1 : j \in Idx
  BY RowBelow
<1>3. \A j \in 0 .. i - 1 : f[j] \in Int /\ h[j] = f[j]
  BY <1>1, <1>2, Entries
<1>4. Sum(f, i) \in Int /\ Cong(y[i], b[i] - Sum(f, i))
  BY <1>1, ForwardType
<1> HIDE DEF f, h
<1>5. Sum(h, i) = Sum(f, i)
  BY <1>2, <1>3, SumSame
<1>6. y[i] \in Int /\ b[i] \in Int
  BY <1>1, Entries
<1>7. Cong(y[i] + Sum(f, i), (b[i] - Sum(f, i)) + Sum(f, i))
  <2>1. b[i] - Sum(f, i) \in Int
    BY <1>4, <1>6
  <2> QED
    BY <1>4, <1>6, <2>1, CongRefl, CongAdd, Zenon
<1>8. (b[i] - Sum(f, i)) + Sum(f, i) = b[i]
  BY <1>4, <1>6
<1> QED
  BY <1>4, <1>5, <1>7, <1>8 DEF y, h

\* The rows of G, in the order of row, are the product of the factors in M.
Factors(G, M, c, row) == \A i, j \in Idx : Cong(G[row[i]][j], Rebuilt(M, c, i)[j])

\* A product with G is computed from the factors.
LEMMA FactorsDot ==
  ASSUME NEW G \in Matrix, NEW M \in Matrix, NEW c \in 0 .. N, NEW row \in [Idx -> Idx],
         Factors(G, M, c, row), NEW x \in Vector, NEW i \in Idx
  PROVE  /\ Dot(G[row[i]], x) \in Int
         /\ \A l \in Idx : Dot(UpperRow(M, l, c), x) \in Int
         /\ Cong(Dot(G[row[i]], x), Dot(UpperRow(M, i, c), x)
              + Sum([l \in Idx |-> M[i][l] * Dot(UpperRow(M, l, c), x)], Multipliers(i, c)))
<1>1. x \in [Idx -> Int] /\ G[row[i]] \in [Idx -> Int] /\ Rebuilt(M, c, i) \in [Idx -> Int]
  BY Entries, RowTypes, Zenon DEF Matrix, Vector
<1>2. \A j \in Idx : Cong(G[row[i]][j], Rebuilt(M, c, i)[j])
  BY DEF Factors
<1>3. Cong(Dot(G[row[i]], x), Dot(Rebuilt(M, c, i), x))
  BY <1>1, <1>2, DotCong
<1> QED
  BY <1>1, <1>3, RebuiltDot, DotType


\* lu_solve() solves the system that the factors were made from.
LEMMA SolveCorrect ==
  ASSUME NEW G \in Matrix, NEW M \in Matrix, NEW piv \in [Idx -> Idx], NEW b \in Vector,
         \A i \in Idx : M[i][i] # 0, Factors(G, M, N, Permuted(piv, Identity, N))
  PROVE  /\ Solve(M, piv, b) \in Vector
         /\ \A i \in Idx : Dot(G[i], Solve(M, piv, b)) \in Int /\ Cong(Dot(G[i], Solve(M, piv, b)), b[i])
<1> DEFINE row == Permuted(piv, Identity, N)
           c == Permuted(piv, b, N)
           y == ForwardSub(M, c)
           x == BackSub(M, y)
<1>0. N \in 0 .. N /\ Identity \in [Idx -> Idx]
  BY SizeAssumption DEF Identity
<1>1. row \in [Idx -> Idx] /\ c \in Vector /\ \A i \in Idx : c[i] = b[row[i]]
  <2>1. b \in [Idx -> Field]
    BY DEF Vector
  <2>2. Permuted(piv, Identity, N) \in [Idx -> Idx]
    BY <1>0, PermutedType
  <2>3. Permuted(piv, b, N) \in [Idx -> Field]
    BY <1>0, <2>1, PermutedType, Zenon
  <2>4. \A i \in Idx : Permuted(piv, b, N)[i] = b[Permuted(piv, Identity, N)[i]]
    <3>1. b = [i \in Idx |-> b[i]]
      BY <2>1
    <3> QED
      BY <1>0, <3>1, PermutedGathers
  <2> QED
    BY <2>2, <2>3, <2>4 DEF Vector
<1>2. \A i \in Idx : \E j \in Idx : row[j] = i
  BY <1>0, PermutedOnto, Zenon
<1>3. Factors(G, M, N, row)
  OBVIOUS
<1> HIDE DEF row, c
<1>4. y \in Vector
  BY <1>1, ForwardIs
<1>5. \A i \in Idx : /\ Sum([l \in Idx |-> M[i][l] * y[l]], i) \in Int
                     /\ Cong(y[i] + Sum([l \in Idx |-> M[i][l] * y[l]], i), c[i])
  BY <1>1, ForwardSolves
<1> HIDE DEF y
<1>6. x \in Vector
  BY <1>4, BackIs
<1>7. \A i \in Idx : Cong(Dot(UpperRow(M, i, N), x), y[i])
  BY <1>4, BackSolves
<1> HIDE DEF x
<1>8. ASSUME NEW i \in Idx
      PROVE  Dot(G[row[i]], x) \in Int /\ Cong(Dot(G[row[i]], x), c[i])
  <2> DEFINE f == [l \in Idx |-> M[i][l] * Dot(UpperRow(M, l, N), x)]
             h == [l \in Idx |-> M[i][l] * y[l]]
  <2>1. Multipliers(i, N) = i /\ i \in Nat /\ \A l \in 0 .. i - 1 : l \in Idx
    BY SizeAssumption DEF Multipliers, Idx
  <2>2. /\ Dot(G[row[i]], x) \in Int
        /\ \A l \in Idx : Dot(UpperRow(M, l, N), x) \in Int
        /\ Cong(Dot(G[row[i]], x), Dot(UpperRow(M, i, N), x) + Sum(f, i))
    BY <1>0, <1>1, <1>3, <1>6, <2>1, FactorsDot
  <2>3. ASSUME NEW l \in 0 .. i - 1 PROVE f[l] \in Int /\ h[l] \in Int /\ Cong(f[l], h[l])
    <3>1. /\ l \in Idx /\ M[i][l] \in Int /\ y[l] \in Int /\ Dot(UpperRow(M, l, N), x) \in Int
          /\ Cong(Dot(UpperRow(M, l, N), x), y[l])
      BY <1>4, <1>7, <2>1, <2>2, Entries
    <3>2. Cong(M[i][l] * Dot(UpperRow(M, l, N), x), M[i][l] * y[l])
      BY <3>1, CongRefl, CongAdd
    <3>3. f[l] = M[i][l] * Dot(UpperRow(M, l, N), x) /\ h[l] = M[i][l] * y[l]
      BY <3>1
    <3> HIDE DEF f, h
    <3> QED
      BY <3>1, <3>2, <3>3
  <2>4. Sum(h, i) \in Int /\ Cong(y[i] + Sum(h, i), c[i]) /\ y[i] \in Int /\ c[i] \in Int
    BY <1>1, <1>4, <1>5, Entries
  <2> HIDE DEF f, h
  <2>5. Sum(f, i) \in Int /\ Cong(Sum(f, i), Sum(h, i))
    BY <2>1, <2>3, SumType, SumCong
  <2>6. Cong(Dot(UpperRow(M, i, N), x) + Sum(f, i), y[i] + Sum(h, i))
    BY <1>7, <2>2, <2>4, <2>5, CongAdd, Zenon
  <2>7. Dot(UpperRow(M, i, N), x) + Sum(f, i) \in Int /\ y[i] + Sum(h, i) \in Int
    BY <2>2, <2>4, <2>5
  <2>8. Cong(Dot(G[row[i]], x), y[i] + Sum(h, i))
    BY <2>2, <2>6, <2>7, CongTrans
  <2> QED
    BY <2>2, <2>4, <2>7, <2>8, CongTrans
<1>9. ASSUME NEW i \in Idx PROVE Dot(G[i], x) \in Int /\ Cong(Dot(G[i], x), b[i])
  <2>1. PICK j \in Idx : row[j] = i
    BY <1>2
  <2> QED
    BY <2>1, <1>1, <1>8
<1> QED
  BY <1>6, <1>9 DEF Solve, x, y, c

-------------------------------------------------------------------------------
(* Singular matrices *)

\* A multiple of zero is zero, and so is a sum of zeros.
LEMMA CongTimesZero ==
  ASSUME NEW a \in Int, NEW d \in Int, Cong(d, 0)
  PROVE  Cong(a * d, 0)
<1>1. PICK q \in Int : d = P * q
  BY PrimeAssumption DEF Cong
<1>2. a * d = 0 + P * (a * q) /\ a * q \in Int
  BY <1>1, PrimeAssumption
<1> QED
  BY <1>2 DEF Cong

\* A sum of zeros is zero.
LEMMA SumCongZero ==
  ASSUME NEW f, NEW n \in Nat, \A l \in 0 .. n - 1 : f[l] \in Int /\ Cong(f[l], 0)
  PROVE  Sum(f, n) \in Int /\ Cong(Sum(f, n), 0)
<1> DEFINE z == [l \in 0 .. n - 1 |-> 0]
<1>1. \A l \in 0 .. n - 1 : z[l] \in Int /\ z[l] = 0
  OBVIOUS
<1> HIDE DEF z
<1>2. Sum(z, n) = 0
  BY <1>1, SumZero
<1>3. \A l \in 0 .. n - 1 : Cong(f[l], z[l])
  BY <1>1
<1>4. Cong(Sum(f, n), Sum(z, n))
  BY <1>1, <1>3, SumCong
<1> QED
  BY <1>2, <1>4, SumType

\* A vector that the first rows of the upper factor map to zero is mapped alike by every
\* row of the upper factor and by the row of G that it has come from.
LEMMA UpperDot ==
  ASSUME NEW G \in Matrix, NEW M \in Matrix, NEW c \in 0 .. N, NEW row \in [Idx -> Idx],
         Factors(G, M, c, row), NEW x \in Vector,
         \A i \in Idx : i < c => Cong(Dot(UpperRow(M, i, c), x), 0)
  PROVE  \A j \in Idx : /\ Dot(G[row[j]], x) \in Int /\ Dot(UpperRow(M, j, c), x) \in Int
                        /\ Cong(Dot(G[row[j]], x), Dot(UpperRow(M, j, c), x))
<1> SUFFICES ASSUME NEW j \in Idx
             PROVE  /\ Dot(G[row[j]], x) \in Int /\ Dot(UpperRow(M, j, c), x) \in Int
                    /\ Cong(Dot(G[row[j]], x), Dot(UpperRow(M, j, c), x))
  OBVIOUS
<1> DEFINE f == [l \in Idx |-> M[j][l] * Dot(UpperRow(M, l, c), x)]
           n == Multipliers(j, c)
           u == Dot(UpperRow(M, j, c), x)
<1>1. n \in Nat /\ \A l \in 0 .. n - 1 : l \in Idx /\ l < c
  BY SizeAssumption DEF Multipliers, Idx
<1>2. /\ Dot(G[row[j]], x) \in Int
      /\ \A l \in Idx : Dot(UpperRow(M, l, c), x) \in Int
      /\ Cong(Dot(G[row[j]], x), u + Sum(f, n))
  <2>1. /\ Dot(G[row[j]], x) \in Int
        /\ \A l \in Idx : Dot(UpperRow(M, l, c), x) \in Int
        /\ Cong(Dot(G[row[j]], x), Dot(UpperRow(M, j, c), x)
             + Sum([l \in Idx |-> M[j][l] * Dot(UpperRow(M, l, c), x)], Multipliers(j, c)))
    BY FactorsDot, Zenon
  <2> QED
    BY <2>1
<1>3. ASSUME NEW l \in 0 .. n - 1 PROVE f[l] \in Int /\ Cong(f[l], 0)
  <2> DEFINE d == Dot(UpperRow(M, l, c), x)
  <2>1. l \in Idx /\ M[j][l] \in Int /\ d \in Int /\ Cong(d, 0)
    BY <1>1, <1>2, Entries
  <2>2. f[l] = M[j][l] * d
    BY <2>1
  <2> HIDE DEF d, f
  <2>3. Cong(M[j][l] * d, 0)
    BY <2>1, CongTimesZero
  <2> QED
    BY <2>1, <2>2, <2>3
<1>4. u \in Int
  BY <1>2
<1> HIDE DEF f, n, u
<1>5. Sum(f, n) \in Int /\ Cong(Sum(f, n), 0)
  BY <1>1, <1>3, SumCongZero
<1>6. Cong(u + Sum(f, n), u + 0)
  BY <1>4, <1>5, CongAdd, CongRefl
<1>7. u + Sum(f, n) \in Int /\ u + 0 = u
  BY <1>4, <1>5
<1>8. Cong(Dot(G[row[j]], x), u)
  BY <1>2, <1>4, <1>6, <1>7, CongTrans
<1> QED
  BY <1>2, <1>4, <1>8 DEF u

\* The product with a row that has one entry other than zero where x has.
LEMMA DotSingle ==
  ASSUME NEW r \in [Idx -> Int], NEW x \in [Idx -> Int], NEW i \in Idx,
         \A j \in Idx : j # i => r[j] = 0 \/ x[j] = 0
  PROVE  Dot(r, x) = r[i] * x[i]
<1> DEFINE f == [j \in Idx |-> r[j] * x[j]]
           z == [j \in Idx |-> 0]
<1>0. N \in Nat /\ i \in 0 .. N - 1
  BY IdxIs DEF Idx
<1>1. ASSUME NEW j \in 0 .. N - 1
      PROVE  z[j] \in Int /\ z[j] = 0 /\ f[j] \in Int /\ (j # i => f[j] = z[j])
  <2>1. j \in Idx /\ r[j] \in Int /\ x[j] \in Int /\ f[j] = r[j] * x[j] /\ z[j] = 0
    BY DEF Idx
  <2>2. j # i => r[j] = 0 \/ x[j] = 0
    BY <2>1
  <2> HIDE DEF f, z
  <2> QED
    BY <2>1, <2>2
<1>2. f[i] = r[i] * x[i] /\ r[i] \in Int /\ x[i] \in Int
  OBVIOUS
<1> HIDE DEF f, z
<1>3. Sum(z, N) = 0 /\ Sum(f, N) = Sum(z, N) + (f[i] - z[i])
  BY <1>0, <1>1, SumBut, SumZero
<1>4. Sum(f, N) = f[i]
  BY <1>0, <1>1, <1>2, <1>3
<1> QED
  BY <1>2, <1>4 DEF Dot, f

\* What is left of column c is the image under G of a vector that is 1 at c and 0 after
\* it, and that the rows above map to zero.
LEMMA ColumnLeft ==
  ASSUME NEW G \in Matrix, NEW M \in Matrix, NEW c \in Idx, NEW row \in [Idx -> Idx],
         Factors(G, M, c, row), \A i \in 0 .. c - 1 : M[i][i] # 0
  PROVE  \E x \in Vector :
           /\ x[c] = 1 /\ \A i \in Idx : i > c => x[i] = 0
           /\ \A i \in Idx : /\ Dot(G[row[i]], x) \in Int
                             /\ Cong(Dot(G[row[i]], x), IF i < c THEN 0 ELSE M[i][c])
<1> DEFINE B == [i \in Idx |-> IF i < c THEN M[i] ELSE Unit(i)]
           x == BackSub(B, Unit(c))
<1>0. N \in Nat /\ c \in Nat /\ c \in 0 .. N /\ Idx \subseteq Nat /\ N \in 0 .. N
  BY IdxIs
<1>1. 0 \in Field /\ 1 \in Field /\ \A i \in Idx : Unit(i) \in Vector
  BY PrimeAssumption DEF Field, Unit, Vector
<1>2. B \in Matrix
  BY <1>1, Entries DEF Matrix
<1>3. /\ \A i \in Idx : i < c => B[i] = M[i]
      /\ \A i \in Idx : ~(i < c) => B[i] = Unit(i)
  OBVIOUS
<1>4. ASSUME NEW i \in Idx PROVE B[i][i] # 0
  <2>1. CASE i < c
    BY <1>0, <1>3, <2>1
  <2>2. CASE ~(i < c)
    BY <1>3, <2>2 DEF Unit
  <2> QED
    BY <2>1, <2>2
<1> HIDE DEF B
<1>5. x \in Vector /\ \A i \in Idx : Cong(Dot(UpperRow(B, i, N), x), Unit(c)[i])
  BY <1>1, <1>2, <1>4, BackIs, BackSolves
<1> HIDE DEF x
<1>6. x \in [Idx -> Int] /\ \A i \in Idx : x[i] \in Field
  BY <1>5, Entries DEF Vector
<1>7. ASSUME NEW i \in Idx, ~(i < c) PROVE x[i] = IF i = c THEN 1 ELSE 0
  <2> DEFINE r == UpperRow(B, i, N)
  <2>1. r \in [Idx -> Int] /\ r[i] = 1 /\ \A j \in Idx : j # i => r[j] = 0
    <3>1. i \in Nat /\ \A j \in Idx : B[i][j] = IF j = i THEN 1 ELSE 0
      <4>1. B[i] = Unit(i)
        BY <1>3, <1>7
      <4> QED
        BY <1>0, <4>1 DEF Unit
    <3>2. \A j \in Idx : r[j] = IF j < i /\ j < N THEN 0 ELSE IF j = i THEN 1 ELSE 0
      BY <3>1 DEF UpperRow
    <3>3. r = [j \in Idx |-> r[j]]
      BY DEF UpperRow
    <3> HIDE DEF r
    <3> QED
      BY <3>1, <3>2, <3>3
  <2>2. Cong(Dot(r, x), Unit(c)[i])
    BY <1>5
  <2> HIDE DEF r
  <2>3. \A j \in Idx : j # i => r[j] = 0 \/ x[j] = 0
    BY <2>1
  <2>4. Dot(r, x) = r[i] * x[i]
    BY <1>6, <2>1, <2>3, DotSingle
  <2>5. Dot(r, x) = x[i] /\ x[i] \in Field /\ Unit(c)[i] \in Field
    BY <1>1, <1>6, <2>1, <2>4, Entries
  <2>6. x[i] = Unit(c)[i]
    BY <2>2, <2>5, CongField
  <2> QED
    BY <2>6 DEF Unit
<1>8. ASSUME NEW i \in Idx
      PROVE  Cong(Dot(UpperRow(M, i, c), x), IF i < c THEN 0 ELSE M[i][c])
  <2>1. CASE i < c
    <3>1. UpperRow(M, i, c) = UpperRow(B, i, N)
      <4>1. \A j \in Idx : (j < i /\ j < c) <=> (j < i /\ j < N)
        BY <1>0, <2>1
      <4> QED
        BY <1>3, <2>1, <4>1 DEF UpperRow
    <3>2. Unit(c)[i] = 0
      BY <1>0, <2>1 DEF Unit
    <3> QED
      BY <1>5, <2>1, <3>1, <3>2
  <2>2. CASE ~(i < c)
    <3> DEFINE r == UpperRow(M, i, c)
    <3>1. r \in [Idx -> Int]
      BY <1>0, RowTypes
    <3>2. r[c] = M[i][c] /\ M[i][c] \in Int
      BY <1>0, <2>2, Entries DEF UpperRow
    <3>3. ASSUME NEW j \in Idx, j # c PROVE r[j] = 0 \/ x[j] = 0
      <4>1. CASE j < c
        <5>1. j < i
          BY <1>0, <2>2, <4>1
        <5> QED
          BY <4>1, <5>1 DEF UpperRow
      <4>2. CASE ~(j < c)
        BY <1>7, <3>3, <4>2
      <4> QED
        BY <4>1, <4>2
    <3> HIDE DEF r
    <3>4. Dot(r, x) = r[c] * x[c]
      BY <1>6, <3>1, <3>3, DotSingle
    <3>5. x[c] = 1
      BY <1>0, <1>7
    <3>6. Dot(r, x) = M[i][c]
      BY <3>2, <3>4, <3>5
    <3>7. Cong(Dot(r, x), M[i][c])
      BY <3>2, <3>6, CongRefl
    <3> QED
      BY <2>2, <3>7 DEF r
  <2> QED
    BY <2>1, <2>2
<1>9. \A i \in Idx : i < c => Cong(Dot(UpperRow(M, i, c), x), 0)
  BY <1>8
<1>10. \A i \in Idx : /\ Dot(G[row[i]], x) \in Int /\ Dot(UpperRow(M, i, c), x) \in Int
                      /\ Cong(Dot(G[row[i]], x), Dot(UpperRow(M, i, c), x))
  BY <1>0, <1>5, <1>9, UpperDot, Zenon
<1>11. ASSUME NEW i \in Idx
       PROVE  /\ Dot(G[row[i]], x) \in Int
              /\ Cong(Dot(G[row[i]], x), IF i < c THEN 0 ELSE M[i][c])
  <2> DEFINE w == IF i < c THEN 0 ELSE M[i][c]
  <2>1. w \in Int
    BY <1>0, Entries
  <2>2. Cong(Dot(UpperRow(M, i, c), x), w)
    BY <1>8
  <2> HIDE DEF w
  <2>3. Cong(Dot(G[row[i]], x), w)
    BY <1>10, <2>1, <2>2, CongTrans
  <2> QED
    BY <1>10, <2>3 DEF w
<1>12. x[c] = 1 /\ \A i \in Idx : i > c => x[i] = 0
  BY <1>0, <1>7
<1> QED
  BY <1>5, <1>11, <1>12, Zenon

\* With no zero in the diagonal, G maps only zero to zero.
LEMMA RegularKernel ==
  ASSUME NEW G \in Matrix, NEW M \in Matrix, NEW row \in [Idx -> Idx],
         Factors(G, M, N, row), \A i \in Idx : M[i][i] # 0, NEW x \in Vector,
         \A i \in Idx : Cong(Dot(G[i], x), 0)
  PROVE  \A i \in Idx : x[i] = 0
<1> DEFINE D(i) == Dot(UpperRow(M, i, N), x)
           T == {m \in Nat : \A i \in Idx : i < m => Cong(D(i), 0)}
           U == {m \in Nat : \A i \in Idx : N - m <= i => x[i] = 0}
<1>0. N \in 0 .. N /\ N \in Nat /\ Idx \subseteq Nat
  BY IdxIs
<1>1. ASSUME NEW i \in Idx
      PROVE  /\ Dot(G[row[i]], x) \in Int
             /\ D(i) \in Int
             /\ Cong(Dot(G[row[i]], x), D(i) + Sum([l \in Idx |-> M[i][l] * D(l)], i))
  <2>1. Multipliers(i, N) = i
    BY SizeAssumption DEF Multipliers, Idx
  <2> QED
    BY <1>0, <2>1, FactorsDot
<1>2. ASSUME NEW i \in Idx PROVE UpperRow(M, i, N) \in [Idx -> Int] /\ x \in [Idx -> Int]
  BY <1>0, RowTypes, Entries, Zenon DEF Vector
<1> HIDE DEF D
<1>3. 0 \in T
  BY <1>0
<1>4. ASSUME NEW m \in Nat, m \in T PROVE m + 1 \in T
  <2> SUFFICES ASSUME NEW i \in Idx, i < m + 1 PROVE Cong(D(i), 0)
    OBVIOUS
  <2> DEFINE f == [l \in Idx |-> M[i][l] * D(l)]
  <2>1. i \in Nat /\ \A l \in 0 .. i - 1 : l \in Idx /\ l < m
    BY RowBelow
  <2>2. \A l \in 0 .. i - 1 : Cong(D(l), 0)
    BY <1>4, <2>1
  <2> HIDE DEF T
  <2>3. ASSUME NEW l \in 0 .. i - 1 PROVE f[l] \in Int /\ Cong(f[l], 0)
    <3>1. l \in Idx /\ M[i][l] \in Int /\ D(l) \in Int /\ Cong(D(l), 0)
      BY <1>1, <2>1, <2>2, Entries, Zenon
    <3>2. f[l] = M[i][l] * D(l)
      BY <3>1
    <3>3. Cong(M[i][l] * D(l), 0)
      BY <3>1, CongTimesZero
    <3> HIDE DEF f
    <3> QED
      BY <3>1, <3>2, <3>3
  <2> DEFINE g == Dot(G[row[i]], x)
  <2>4. g \in Int /\ D(i) \in Int /\ Cong(g, D(i) + Sum(f, i)) /\ Cong(g, 0)
    BY <1>1
  <2> HIDE DEF f, g
  <2>5. Sum(f, i) \in Int /\ Cong(Sum(f, i), 0)
    BY <2>1, <2>3, SumCongZero
  <2>6. D(i) + Sum(f, i) \in Int /\ Cong(D(i) + Sum(f, i), g)
    BY <2>4, <2>5, CongSym
  <2>7. Cong(D(i) + Sum(f, i), 0)
    BY <2>4, <2>6, CongTrans
  <2>8. Cong((D(i) + Sum(f, i)) - Sum(f, i), 0 - 0)
    BY <2>5, <2>6, <2>7, CongAdd
  <2>9. (D(i) + Sum(f, i)) - Sum(f, i) = D(i) /\ 0 - 0 = 0
    BY <2>4, <2>5
  <2> QED
    BY <2>8, <2>9
<1> HIDE DEF T
<1>5. \A m \in Nat : m \in T
  BY <1>3, <1>4, SetInduction
<1>6. ASSUME NEW i \in Idx PROVE Cong(D(i), 0)
  <2>1. i + 1 \in Nat /\ i < i + 1
    BY <1>0
  <2> QED
    BY <1>5, <2>1 DEF T
<1>7. 0 \in U
  BY SizeAssumption DEF Idx
<1>8. ASSUME NEW m \in Nat, m \in U PROVE m + 1 \in U
  <2> SUFFICES ASSUME NEW i \in Idx, N - (m + 1) <= i PROVE x[i] = 0
    OBVIOUS
  <2> DEFINE r == UpperRow(M, i, N)
  <2>1. ASSUME NEW j \in Idx, j # i PROVE r[j] = 0 \/ x[j] = 0
    <3>1. CASE j < i
      <4>1. j < N
        BY IdxIs
      <4> QED
        BY <3>1, <4>1 DEF UpperRow
    <3>2. CASE ~(j < i)
      <4>1. N - m <= j
        BY <2>1, <3>2, SizeAssumption DEF Idx
      <4> QED
        BY <1>8, <4>1
    <3> QED
      BY <3>1, <3>2
  <2> HIDE DEF U
  <2>2. r[i] = M[i][i]
    BY <1>0 DEF UpperRow
  <2>3. r \in [Idx -> Int] /\ x \in [Idx -> Int] /\ Cong(Dot(r, x), 0)
    BY <1>2, <1>6 DEF D
  <2> HIDE DEF r
  <2>4. Dot(r, x) = r[i] * x[i]
    BY <2>1, <2>3, DotSingle
  <2>5. M[i][i] \in Field /\ x[i] \in Field /\ x[i] \in Int /\ 0 \in Field
    BY Entries, PrimeAssumption DEF Field
  <2>6. Cong(M[i][i] * x[i], 0)
    BY <2>2, <2>3, <2>4
  <2>7. Cong(x[i], 0)
    BY <2>5, <2>6, NoZeroDivisor
  <2> QED
    BY <2>5, <2>7, CongField
<1> HIDE DEF U
<1>9. \A m \in Nat : m \in U
  BY <1>7, <1>8, SetInduction
<1>10. ASSUME NEW i \in Idx PROVE x[i] = 0
  <2>1. N - N <= i
    BY <1>0
  <2> QED
    BY <1>0, <1>9, <2>1, Zenon DEF U
<1> QED
  BY <1>10

-------------------------------------------------------------------------------
(* The columns *)

\* The pivot is in or below the diagonal, and no entry of the column is larger.
LEMMA PivotIs ==
  ASSUME NEW M \in Matrix, NEW c \in Idx
  PROVE  /\ FindPivot(M, c) \in c .. N - 1 /\ FindPivot(M, c) \in Idx
         /\ \A i \in c .. N - 1 : /\ Magnitude(M[i][c]) \in Nat
                                 /\ Magnitude(M[i][c]) <= Magnitude(M[FindPivot(M, c)][c])
<1> DEFINE g(i) == Magnitude(M[i][c])
           S == {g(i) : i \in c .. N - 1}
           T == {P - s : s \in S}
           R == {q \in c .. N - 1 : \A i \in c .. N - 1 : g(i) <= g(q)}
<1>0. c \in Nat /\ N \in Nat /\ c < N /\ \A i \in c .. N - 1 : i \in Idx
  BY SizeAssumption DEF Idx
<1>1. ASSUME NEW i \in c .. N - 1
      PROVE  g(i) \in Nat /\ g(i) <= P
  <2>1. M[i][c] \in Field
    BY <1>0, Entries
  <2> QED
    BY <2>1, PrimeAssumption DEF Field, Magnitude
<1> HIDE DEF g
<1>2. S # {} /\ \A s \in S : s \in Nat /\ s <= P
  <2>1. c \in c .. N - 1
    BY <1>0
  <2> QED
    BY <1>1, <2>1
<1> HIDE DEF S
<1>3. T \in SUBSET Nat /\ T # {}
  BY <1>2, PrimeAssumption
<1>4. PICK t \in T : \A u \in T : t <= u
  BY <1>3, Least, Zenon
<1>5. PICK s \in S : t = P - s
  BY <1>4
<1>6. ASSUME NEW u \in S PROVE s >= u
  <2>1. P - u \in T
    OBVIOUS
  <2>2. t <= P - u
    BY <1>4, <2>1
  <2> QED
    BY <1>2, <1>5, <2>2, PrimeAssumption
<1> HIDE DEF T
<1>7. PICK q \in c .. N - 1 : s = g(q)
  BY <1>5 DEF S
<1>8. R \in SUBSET Nat /\ R # {}
  <2>1. \A i \in c .. N - 1 : g(i) \in S
    BY DEF S
  <2>2. \A i \in c .. N - 1 : g(i) <= g(q)
    BY <1>1, <1>6, <1>7, <2>1
  <2>3. q \in R /\ R \subseteq c .. N - 1
    BY <2>2
  <2> HIDE DEF R
  <2> QED
    BY <1>0, <2>3
<1>9. \E i \in R : \A j \in R : i <= j
  BY <1>8, Least, Zenon
<1>10. FindPivot(M, c) = CHOOSE i \in R : \A j \in R : i <= j
  BY DEF FindPivot, g
<1> HIDE DEF R
<1>11. FindPivot(M, c) \in R
  BY <1>9, <1>10
<1>12. FindPivot(M, c) \in c .. N - 1 /\ \A i \in c .. N - 1 : g(i) <= g(FindPivot(M, c))
  BY <1>11 DEF R
<1> QED
  BY <1>0, <1>1, <1>12 DEF g

\* Row i of M and row n of B, when c and d columns are eliminated, have the same factors.
SameFactors(M, c, i, B, d, n) ==
  /\ Multipliers(i, c) = Multipliers(n, d)
  /\ UpperRow(M, i, c) = UpperRow(B, n, d)
  /\ \A l \in 0 .. Multipliers(i, c) - 1 : M[i][l] = B[n][l] /\ UpperRow(M, l, c) = UpperRow(B, l, d)

\* Their products of the factors are the same row.
LEMMA RebuiltSame ==
  ASSUME NEW M \in Matrix, NEW B \in Matrix, NEW c \in 0 .. N, NEW d \in 0 .. N,
         NEW i \in Idx, NEW n \in Idx, SameFactors(M, c, i, B, d, n)
  PROVE  \A j \in Idx : Rebuilt(B, d, n)[j] = Rebuilt(M, c, i)[j]
<1> SUFFICES ASSUME NEW j \in Idx PROVE Rebuilt(B, d, n)[j] = Rebuilt(M, c, i)[j]
  OBVIOUS
<1>0. /\ Multipliers(i, c) = Multipliers(n, d)
      /\ UpperRow(M, i, c) = UpperRow(B, n, d)
      /\ \A l \in 0 .. Multipliers(i, c) - 1 : M[i][l] = B[n][l] /\ UpperRow(M, l, c) = UpperRow(B, l, d)
  BY DEF SameFactors
<1> DEFINE m == Multipliers(i, c)
           f == [l \in Idx |-> M[i][l] * Rows(M, c)[l][j]]
           h == [l \in Idx |-> B[n][l] * Rows(B, d)[l][j]]
<1>1. m \in Nat /\ \A l \in 0 .. m - 1 : l \in Idx
  BY SizeAssumption DEF Multipliers, Idx
<1>2. ASSUME NEW l \in 0 .. m - 1 PROVE f[l] \in Int /\ h[l] = f[l]
  <2>1. l \in Idx
    BY <1>1
  <2>2. Rows(M, c)[l] = UpperRow(M, l, c) /\ Rows(B, d)[l] = UpperRow(B, l, d)
    BY <2>1, RowTypes, Zenon
  <2>3. UpperRow(M, l, c)[j] \in Int /\ M[i][l] \in Int
    <3>1. UpperRow(M, l, c) \in [Idx -> Int]
      BY <2>1, RowTypes
    <3> QED
      BY <2>1, <3>1, Entries
  <2> QED
    BY <1>0, <2>1, <2>2, <2>3
<1>3. /\ Rebuilt(M, c, i)[j] = UpperRow(M, i, c)[j] + Sum(f, m)
      /\ Rebuilt(B, d, n)[j] = UpperRow(B, n, d)[j] + Sum(h, m)
  BY <1>0 DEF Rebuilt, Combine
<1> HIDE DEF f, h, m
<1>4. Sum(h, m) = Sum(f, m)
  BY <1>1, <1>2, SumSame
<1> QED
  BY <1>0, <1>3, <1>4


\* Two rows that are still to be reduced change places.
LEMMA SwapFactors ==
  ASSUME NEW G \in Matrix, NEW M \in Matrix, NEW c \in Idx, NEW row \in [Idx -> Idx],
         Factors(G, M, c, row), NEW q \in c .. N - 1
  PROVE  /\ SwapRows(M, c, q) \in Matrix
         /\ Exchange(row, c, q) \in [Idx -> Idx]
         /\ Factors(G, SwapRows(M, c, q), c, Exchange(row, c, q))
         /\ SwapRows(M, c, q)[c] = M[q]
         /\ \A i \in 0 .. c - 1 : SwapRows(M, c, q)[i] = M[i]
<1> DEFINE B == SwapRows(M, c, q)
           new == Exchange(row, c, q)
           from(n) == IF n = c THEN q ELSE IF n = q THEN c ELSE n
<1>0. /\ c \in Nat /\ N \in Nat /\ c < N /\ c \in 0 .. N /\ q \in Idx /\ q >= c /\ Idx \subseteq Nat
      /\ \A i \in Idx : from(i) \in Idx
  BY SizeAssumption DEF Idx
<1>1. M \in [Idx -> Vector]
  BY DEF Matrix
<1>2. /\ B \in [Idx -> Vector] /\ \A n \in Idx : B[n] = M[from(n)]
      /\ new \in [Idx -> Idx] /\ \A n \in Idx : new[n] = row[from(n)]
  BY <1>0, <1>1 DEF SwapRows, Exchange
<1>3. B \in Matrix
  BY <1>2 DEF Matrix
<1> HIDE DEF B, new
<1>4. \A l \in 0 .. c - 1 : l \in Idx /\ from(l) = l /\ B[l] = M[l]
  <2>1. \A l \in 0 .. c - 1 : l \in Idx /\ from(l) = l
    BY <1>0, SizeAssumption DEF Idx
  <2> QED
    BY <1>2, <2>1
<1>5. ASSUME NEW n \in Idx, NEW j \in Idx PROVE Cong(G[new[n]][j], Rebuilt(B, c, n)[j])
  <2> DEFINE i == from(n)
  <2>1. i \in Idx /\ (i = n \/ (i >= c /\ n >= c)) /\ i \in Nat /\ n \in Nat
    BY <1>0
  <2>2. B[n] = M[i] /\ new[n] = row[i]
    BY <1>2
  <2> HIDE DEF i
  <2>3. Multipliers(i, c) = Multipliers(n, c)
    BY <1>0, <2>1 DEF Multipliers
  <2>4. UpperRow(M, i, c) = UpperRow(B, n, c)
    <3>1. \A m \in Idx : (m < i /\ m < c) <=> (m < n /\ m < c)
      BY <1>0, <2>1
    <3> QED
      BY <2>2, <3>1 DEF UpperRow
  <2>5. ASSUME NEW l \in 0 .. Multipliers(i, c) - 1
        PROVE  M[i][l] = B[n][l] /\ UpperRow(M, l, c) = UpperRow(B, l, c)
    <3>1. l \in 0 .. c - 1
      BY <1>0, <2>1 DEF Multipliers
    <3>2. B[l] = M[l]
      BY <1>4, <3>1
    <3> QED
      BY <2>2, <3>2 DEF UpperRow
  <2>6. \A m \in Idx : Rebuilt(B, c, n)[m] = Rebuilt(M, c, i)[m]
    <3>1. SameFactors(M, c, i, B, c, n)
      BY <2>3, <2>4, <2>5 DEF SameFactors
    <3> QED
      BY <1>0, <1>3, <2>1, <3>1, RebuiltSame
  <2>7. Cong(G[row[i]][j], Rebuilt(M, c, i)[j])
    BY <2>1 DEF Factors
  <2> QED
    BY <2>2, <2>6, <2>7
<1>6. Factors(G, B, c, new)
  BY <1>5 DEF Factors
<1>7. B[c] = M[q]
  BY <1>2
<1> QED
  BY <1>2, <1>3, <1>4, <1>6, <1>7 DEF B, new


\* What elimination does to an entry right of the column, and in it.
LEMMA Reduced ==
  ASSUME NEW a \in Int, NEW f \in Int, NEW d \in Int
  PROVE  Cong(a, ((a - f * d) % P) + f * d)
<1>1. f * d \in Int /\ a - f * d \in Int
  OBVIOUS
<1>2. (a - f * d) % P \in Int /\ Cong((a - f * d) % P, a - f * d)
  BY <1>1, ModCong
<1>3. Cong(((a - f * d) % P) + f * d, (a - f * d) + f * d)
  BY <1>1, <1>2, CongRefl, CongAdd
<1>4. (a - f * d) + f * d = a /\ ((a - f * d) % P) + f * d \in Int
  BY <1>1, <1>2
<1> QED
  BY <1>3, <1>4, CongSym

\* The multiplier of a row, times the pivot, is the entry it eliminates.
LEMMA Multiplier ==
  ASSUME NEW a \in Int, NEW d \in Field, d # 0
  PROVE  /\ (a * Inv(d)) % P \in Field /\ (a * Inv(d)) % P \in Int
         /\ Cong(a, 0 + ((a * Inv(d)) % P) * d)
<1>1. Inv(d) \in Int /\ Cong(d * Inv(d), 1) /\ d \in Int
  BY InverseIs DEF Field
<1> DEFINE f == (a * Inv(d)) % P
<1>2. a * Inv(d) \in Int
  BY <1>1
<1>3. f \in Field /\ f \in Int /\ Cong(f, a * Inv(d))
  BY <1>2, ModCong
<1> HIDE DEF f
<1>4. Cong(f * d, a * Inv(d) * d)
  BY <1>1, <1>2, <1>3, CongRefl, CongAdd
<1>5. d * Inv(d) \in Int /\ Cong(a * (d * Inv(d)), a * 1)
  <2>1. d * Inv(d) \in Int
    BY <1>1
  <2> QED
    BY <1>1, <2>1, CongRefl, CongAdd
<1>6. a * Inv(d) * d = a * (d * Inv(d)) /\ a * 1 = a /\ f * d \in Int /\ a * (d * Inv(d)) \in Int /\ 0 + f * d = f * d
  BY <1>1, <1>3
<1>7. Cong(f * d, a)
  BY <1>4, <1>5, <1>6, CongTrans
<1> QED
  BY <1>3, <1>6, <1>7, CongSym DEF f

\* Eliminating a column: the multipliers take the place of the zeros, and the product of
\* the factors stays the same.
LEMMA EliminateFactors ==
  ASSUME NEW G \in Matrix, NEW B \in Matrix, NEW c \in Idx, NEW row \in [Idx -> Idx],
         Factors(G, B, c, row), B[c][c] # 0
  PROVE  /\ Eliminate(B, c) \in Matrix
         /\ \A i \in 0 .. c : Eliminate(B, c)[i] = B[i]
         /\ Factors(G, Eliminate(B, c), c + 1, row)
<1> DEFINE E == Eliminate(B, c)
           fac(i) == (B[i][c] * Inv(B[c][c])) % P
<1>0. c \in Nat /\ N \in Nat /\ c \in 0 .. N /\ c + 1 \in 0 .. N /\ Idx \subseteq Nat /\ \A i \in 0 .. c : i \in Idx
  BY SizeAssumption DEF Idx
<1>1. \A i, j \in Idx : B[i][j] \in Field /\ B[i][j] \in Int
  BY Entries
<1>2. \A i \in Idx : fac(i) \in Field /\ fac(i) \in Int /\ Cong(B[i][c], 0 + fac(i) * B[c][c])
  BY <1>1, Multiplier
<1> HIDE DEF fac
<1>3. /\ E = [i \in Idx |-> E[i]]
      /\ \A i \in Idx : i <= c => E[i] = B[i]
      /\ \A i \in Idx : ~(i <= c) =>
           E[i] = [j \in Idx |-> IF j < c THEN B[i][j] ELSE IF j = c THEN fac(i)
                                 ELSE (B[i][j] - fac(i) * B[c][j]) % P]
  BY DEF Eliminate, fac
<1> HIDE DEF E
<1>4. ASSUME NEW i \in Idx PROVE E[i] \in Vector
  <2>1. CASE i <= c
    BY <1>3, <2>1, Entries
  <2>2. CASE ~(i <= c)
    <3>1. ASSUME NEW j \in Idx PROVE (B[i][j] - fac(i) * B[c][j]) % P \in Field
      <4>1. B[i][j] - fac(i) * B[c][j] \in Int
        BY <1>1, <1>2
      <4> QED
        BY <4>1, ModCong
    <3> QED
      BY <1>1, <1>2, <1>3, <2>2, <3>1 DEF Vector
  <2> QED
    BY <2>1, <2>2
<1>5. E \in Matrix
  BY <1>3, <1>4 DEF Matrix
<1>6. ASSUME NEW i \in Idx, i <= c, NEW j \in Idx PROVE Cong(G[row[i]][j], Rebuilt(E, c + 1, i)[j])
  <2>1. \A l \in Idx : l <= c => UpperRow(B, l, c) = UpperRow(E, l, c + 1)
    <3> SUFFICES ASSUME NEW l \in Idx, l <= c PROVE UpperRow(B, l, c) = UpperRow(E, l, c + 1)
      OBVIOUS
    <3>1. \A m \in Idx : (m < l /\ m < c) <=> (m < l /\ m < c + 1)
      BY <1>0
    <3> QED
      BY <1>3, <3>1 DEF UpperRow
  <2>2. Multipliers(i, c) = Multipliers(i, c + 1) /\ Multipliers(i, c) = i /\ i \in Nat
    BY <1>0, <1>6 DEF Multipliers
  <2>3. ASSUME NEW l \in 0 .. Multipliers(i, c) - 1
        PROVE  B[i][l] = E[i][l] /\ UpperRow(B, l, c) = UpperRow(E, l, c + 1)
    <3>1. l \in Idx /\ l <= c
      BY <1>0, <1>6, <2>2
    <3> QED
      BY <1>3, <1>6, <2>1, <3>1
  <2>4. \A m \in Idx : Rebuilt(E, c + 1, i)[m] = Rebuilt(B, c, i)[m]
    <3>1. SameFactors(B, c, i, E, c + 1, i)
      BY <1>6, <2>1, <2>2, <2>3 DEF SameFactors
    <3> QED
      BY <1>0, <1>5, <3>1, RebuiltSame
  <2> QED
    BY <2>4 DEF Factors
<1>7. ASSUME NEW i \in Idx, ~(i <= c), NEW j \in Idx PROVE Cong(G[row[i]][j], Rebuilt(E, c + 1, i)[j])
  <2> DEFINE f == [l \in Idx |-> B[i][l] * Rows(B, c)[l][j]]
             h == [l \in Idx |-> E[i][l] * Rows(E, c + 1)[l][j]]
             u == UpperRow(B, i, c)[j]
             w == UpperRow(E, i, c + 1)[j]
             d == UpperRow(E, c, c + 1)[j]
  <2>1. Multipliers(i, c) = c /\ Multipliers(i, c + 1) = c + 1 /\ i \in Nat
    <3>1. i \in Nat /\ ~(i < c) /\ ~(i < c + 1)
      BY <1>0, <1>7
    <3> QED
      BY <3>1 DEF Multipliers
  <2>2. Rebuilt(B, c, i)[j] = u + Sum(f, c) /\ Rebuilt(E, c + 1, i)[j] = w + Sum(h, c + 1)
    BY <2>1 DEF Rebuilt, Combine
  <2>3. /\ \A l \in Idx : UpperRow(B, l, c) \in [Idx -> Int] /\ Rows(B, c)[l] = UpperRow(B, l, c)
        /\ \A l \in Idx : UpperRow(E, l, c + 1) \in [Idx -> Int] /\ Rows(E, c + 1)[l] = UpperRow(E, l, c + 1)
    BY <1>0, <1>5, RowTypes, Zenon
  <2>4. u \in Int /\ w \in Int /\ d \in Int
    BY <2>3
  <2>5. \A l \in Idx : E[i][l] \in Int
    BY <1>5, Entries
  <2>6. \A l \in Idx : f[l] \in Int /\ h[l] \in Int
    BY <1>1, <2>3, <2>5
  <2>7. h[c] = fac(i) * d
    BY <1>0, <1>3, <1>7, <2>3
  <2>8. ASSUME NEW l \in 0 .. c - 1 PROVE h[l] = f[l]
    <3>1. l \in Idx /\ l < c /\ l \in Nat
      BY <1>0
    <3>2. E[l] = B[l] /\ E[i][l] = B[i][l]
      BY <1>0, <1>3, <1>7, <3>1
    <3>3. ASSUME NEW m \in Idx PROVE (m < l /\ m < c) <=> (m < l /\ m < c + 1)
      <4>1. m \in Nat
        BY <1>0, Zenon
      <4> QED
        BY <1>0, <3>1, <4>1
    <3>4. UpperRow(E, l, c + 1) = UpperRow(B, l, c)
      BY <3>2, <3>3 DEF UpperRow
    <3> QED
      BY <2>3, <3>1, <3>2, <3>4
  <2>9. Cong(u, w + fac(i) * d)
    <3>1. i \in Nat /\ j \in Nat /\ i > c
      BY <1>0, <1>7
    <3>2. /\ u = (IF j < c THEN 0 ELSE B[i][j])
          /\ w = (IF j < c + 1 THEN 0 ELSE E[i][j])
          /\ d = (IF j < c THEN 0 ELSE B[c][j])
      <4>1. /\ (j < i /\ j < c) <=> j < c
            /\ (j < i /\ j < c + 1) <=> j < c + 1
            /\ (j < c /\ j < c + 1) <=> j < c
        BY <1>0, <3>1
      <4>2. E[c] = B[c]
        BY <1>0, <1>3
      <4> QED
        BY <4>1, <4>2 DEF UpperRow
    <3>3. CASE j < c
      <4>1. u = 0 /\ w + fac(i) * d = 0
        BY <1>0, <1>2, <3>1, <3>2, <3>3
      <4> QED
        BY <4>1, CongRefl
    <3>4. CASE j = c
      <4>1. u = B[i][c] /\ w = 0 /\ d = B[c][c]
        BY <1>0, <3>2, <3>4
      <4> QED
        BY <1>2, <4>1
    <3>5. CASE ~(j < c) /\ j # c
      <4>1. ~(j < c + 1)
        BY <1>0, <3>1, <3>5
      <4>2. u = B[i][j] /\ w = (B[i][j] - fac(i) * B[c][j]) % P /\ d = B[c][j]
        BY <1>3, <1>7, <3>2, <3>5, <4>1
      <4>3. B[i][j] \in Int /\ fac(i) \in Int /\ B[c][j] \in Int
        BY <1>1, <1>2
      <4> QED
        BY <4>2, <4>3, Reduced
    <3> QED
      BY <3>3, <3>4, <3>5
  <2> HIDE DEF f, h, u, w, d
  <2>10. \A l \in 0 .. c : l \in Idx
    BY <1>0
  <2>11. Sum(f, c) \in Int /\ Sum(h, c) = Sum(f, c) /\ Sum(h, c + 1) = Sum(h, c) + h[c]
    <3>1. \A l \in 0 .. c - 1 : f[l] \in Int /\ h[l] = f[l]
      BY <1>0, <2>6, <2>8, <2>10
    <3>2. \A l \in 0 .. c : h[l] \in Int
      BY <2>6, <2>10
    <3> QED
      BY <1>0, <3>1, <3>2, SumType, SumSame, SumNext
  <2>12. fac(i) * d \in Int /\ w + fac(i) * d \in Int
    BY <1>2, <2>4
  <2>13. Cong(u + Sum(f, c), (w + fac(i) * d) + Sum(f, c))
    BY <2>4, <2>9, <2>11, <2>12, CongRefl, CongAdd
  <2>14. (w + fac(i) * d) + Sum(f, c) = w + Sum(h, c + 1)
    BY <2>4, <2>7, <2>11, <2>12
  <2>15. Cong(G[row[i]][j], u + Sum(f, c)) /\ G[row[i]][j] \in Int
    BY <2>2, Entries DEF Factors
  <2>16. u + Sum(f, c) \in Int /\ w + Sum(h, c + 1) \in Int
    BY <2>4, <2>7, <2>11, <2>12
  <2> QED
    BY <2>2, <2>13, <2>14, <2>15, <2>16, CongTrans
<1>8. Factors(G, E, c + 1, row)
  BY <1>6, <1>7 DEF Factors
<1>9. \A i \in 0 .. c : E[i] = B[i]
  BY <1>0, <1>3
<1> QED
  BY <1>5, <1>8, <1>9 DEF E

-------------------------------------------------------------------------------
(* The steps of lu_factor() *)

\* The invariant in terms of congruences.
LEMMA InvFactors ==
  ASSUME NEW G \in Matrix, NEW M \in Matrix, NEW piv \in [Idx -> Idx], NEW c \in 0 .. N
  PROVE  /\ Permuted(piv, Identity, c) \in [Idx -> Idx]
         /\ (\A i, j \in Idx : G[Permuted(piv, Identity, c)[i]][j] = Rebuilt(M, c, i)[j] % P)
              <=> Factors(G, M, c, Permuted(piv, Identity, c))
<1> DEFINE row == Permuted(piv, Identity, c)
<1>1. Identity \in [Idx -> Idx]
  BY DEF Identity
<1>2. row \in [Idx -> Idx]
  BY <1>1, PermutedType
<1> HIDE DEF row
<1>3. ASSUME NEW i \in Idx, NEW j \in Idx
      PROVE  G[row[i]][j] = Rebuilt(M, c, i)[j] % P <=> Cong(G[row[i]][j], Rebuilt(M, c, i)[j])
  <2>1. Rebuilt(M, c, i) \in [Idx -> Int]
    BY RowTypes
  <2>2. G[row[i]][j] \in Field /\ G[row[i]][j] \in Int /\ Rebuilt(M, c, i)[j] \in Int
    BY <1>2, <2>1, Entries
  <2>3. G[row[i]][j] % P = G[row[i]][j]
    BY <2>2, PrimeAssumption DEF Field
  <2>4. G[row[i]][j] % P = Rebuilt(M, c, i)[j] % P <=> Cong(G[row[i]][j], Rebuilt(M, c, i)[j])
    BY <2>2, CongMod
  <2> QED
    BY <2>3, <2>4
<1> QED
  BY <1>2, <1>3 DEF Factors, row

\* Nothing is eliminated yet.
LEMMA BeginFactors ==
  ASSUME NEW G \in Matrix, NEW piv \in [Idx -> Idx]
  PROVE  \A i, j \in Idx : G[Permuted(piv, Identity, 0)[i]][j] = Rebuilt(G, 0, i)[j] % P
<1>1. Identity \in [Idx -> Idx] /\ \A i \in Idx : Identity[i] = i
  BY DEF Identity
<1>2. Permuted(piv, Identity, 0) = Identity
  BY <1>1, PermutedNone
<1>3. ASSUME NEW i \in Idx, NEW j \in Idx PROVE G[i][j] = Rebuilt(G, 0, i)[j] % P
  <2>1. i \in Nat /\ j \in Nat /\ 0 \in 0 .. N
    BY IdxIs
  <2>2. Multipliers(i, 0) = 0 /\ UpperRow(G, i, 0)[j] = G[i][j]
    BY <2>1 DEF Multipliers, UpperRow
  <2>3. Combine(G[i], Rows(G, 0), 0)[j] = 0
    BY SumEmpty DEF Combine
  <2>4. G[i][j] \in Field /\ G[i][j] \in Int
    BY Entries
  <2>5. Rebuilt(G, 0, i)[j] = G[i][j] + 0
    BY <2>2, <2>3 DEF Rebuilt
  <2>6. G[i][j] % P = G[i][j]
    BY <2>4, PrimeAssumption DEF Field
  <2> QED
    BY <2>4, <2>5, <2>6
<1> QED
  BY <1>1, <1>2, <1>3

\* The invariant holds when lu_factor() begins, whatever it was called with before.
LEMMA BeginInv ==
  ASSUME NEW G \in Matrix, pivot \in [Idx -> Idx], Begin(G)
  PROVE  FactorInv'
<1>1. given' = G /\ A' = G /\ k' = 0 /\ at' = "factor" /\ pivot' = pivot
  BY DEF Begin
<1>2. \A i, j \in Idx : G[Permuted(pivot, Identity, 0)[i]][j] = Rebuilt(G, 0, i)[j] % P
  BY BeginFactors
<1>3. 0 \in 0 .. N /\ \A i \in 0 .. 0 - 1 : FALSE
  BY SizeAssumption
<1> QED
  BY <1>1, <1>2, <1>3 DEF FactorInv

\* It holds when lu_factor() throws, when it returns, and after every column.
LEMMA SingularInv ==
  ASSUME FactorInv, Singular
  PROVE  FactorInv'
<1>1. k \in Idx /\ k < N
  BY SizeAssumption DEF FactorInv, Singular, Idx
<1>2. A \in Matrix /\ Magnitude(A[FindPivot(A, k)][k]) < Smallest
  BY DEF FactorInv, Singular
<1>3. \A i \in k .. N - 1 : Magnitude(A[i][k]) < Smallest
  <2> DEFINE best == Magnitude(A[FindPivot(A, k)][k])
  <2>1. /\ FindPivot(A, k) \in k .. N - 1
        /\ \A i \in k .. N - 1 : Magnitude(A[i][k]) \in Nat /\ Magnitude(A[i][k]) <= best
    BY <1>1, <1>2, PivotIs
  <2>2. best \in Nat /\ best < Smallest
    BY <1>2, <2>1
  <2> HIDE DEF best
  <2> QED
    BY <2>1, <2>2, SmallestAssumption
<1> QED
  BY <1>1, <1>3 DEF FactorInv, Singular

\* It holds when lu_factor() returns.
LEMMA ReturnInv ==
  ASSUME FactorInv, Return
  PROVE  FactorInv'
BY DEF FactorInv, Return

\* It holds after every column: pivot search, exchange of the rows, elimination.
LEMMA ColumnInv ==
  ASSUME FactorInv, Column
  PROVE  FactorInv'
<1> DEFINE q == FindPivot(A, k)
           row == Permuted(pivot, Identity, k)
           B == SwapRows(A, k, q)
           E == Eliminate(B, k)
<1>0. /\ given \in Matrix /\ A \in Matrix /\ pivot \in [Idx -> Idx] /\ k \in 0 .. N /\ at = "factor"
      /\ k \in Idx /\ k \in Nat /\ k + 1 \in 0 .. N /\ N \in Nat
      /\ \A i \in 0 .. k - 1 : i \in Idx /\ A[i][i] # 0
  BY SizeAssumption DEF FactorInv, Column, Idx
<1>1. row \in [Idx -> Idx] /\ Factors(given, A, k, row)
  BY <1>0, InvFactors, Zenon DEF FactorInv
<1>2. q \in k .. N - 1 /\ q \in Idx
  BY <1>0, PivotIs
<1>3. /\ A[q][k] # 0 /\ A' = E /\ pivot' = [pivot EXCEPT ![k] = q]
      /\ k' = k + 1 /\ given' = given /\ at' = at
  <2>1. /\ Magnitude(A[q][k]) >= Smallest /\ A' = E /\ pivot' = [pivot EXCEPT ![k] = q]
        /\ k' = k + 1 /\ given' = given /\ at' = at
    BY DEF Column
  <2>2. A[q][k] # 0
    BY <2>1, SmallestAssumption, PrimeAssumption DEF Magnitude
  <2> QED
    BY <2>1, <2>2
<1>4. pivot' \in [Idx -> Idx] /\ pivot'[k] = q /\ \A l \in 0 .. k - 1 : pivot'[l] = pivot[l]
  BY <1>0, <1>2, <1>3
<1> HIDE DEF q
<1>5. /\ B \in Matrix /\ Exchange(row, k, q) \in [Idx -> Idx] /\ B[k] = A[q]
      /\ Factors(given, B, k, Exchange(row, k, q))
      /\ \A i \in 0 .. k - 1 : B[i] = A[i]
  BY <1>0, <1>1, <1>2, SwapFactors
<1> HIDE DEF B
<1>6. /\ E \in Matrix /\ \A i \in 0 .. k : E[i] = B[i]
      /\ Factors(given, E, k + 1, Exchange(row, k, q))
  BY <1>0, <1>3, <1>5, EliminateFactors
<1> HIDE DEF E
<1>7. Permuted(pivot', Identity, k + 1) = Exchange(row, k, q)
  <2>1. Identity \in [Idx -> Idx]
    BY DEF Identity
  <2>2. Permuted(pivot', Identity, k) = row
    BY <1>0, <1>4, <2>1, PermutedSame, Zenon
  <2> QED
    BY <1>0, <1>4, <2>1, <2>2, PermutedNext, Zenon
<1>8. ASSUME NEW i \in 0 .. k' - 1 PROVE A'[i][i] # 0
  <2>1. i \in 0 .. k /\ A'[i] = B[i]
    BY <1>0, <1>3, <1>6
  <2>2. CASE i = k
    BY <1>3, <1>5, <2>1, <2>2
  <2>3. CASE i # k
    <3>1. i \in 0 .. k - 1
      BY <1>0, <2>1, <2>3
    <3> QED
      BY <1>0, <1>5, <2>1, <3>1
  <2> QED
    BY <2>2, <2>3
<1>9. \A i, j \in Idx : given'[Permuted(pivot', Identity, k')[i]][j] = Rebuilt(A', k', i)[j] % P
  <2>1. given' \in Matrix /\ A' \in Matrix /\ k' \in 0 .. N /\ Factors(given', A', k', Permuted(pivot', Identity, k'))
    BY <1>0, <1>3, <1>6, <1>7
  <2> QED
    BY <1>4, <2>1, InvFactors
<1> QED
  BY <1>0, <1>3, <1>4, <1>6, <1>8, <1>9, Zenon DEF FactorInv


\* Product, entry by entry.
LEMMA ProductIs ==
  ASSUME NEW M \in Matrix, NEW x \in Vector, NEW i \in Idx
  PROVE  Dot(M[i], x) \in Int /\ Product(M, x)[i] = Dot(M[i], x) % P /\ Product(M, x)[i] \in Field
<1>1. M[i] \in [Idx -> Int] /\ x \in [Idx -> Int]
  BY Entries DEF Vector
<1>2. Dot(M[i], x) \in Int
  BY <1>1, DotType
<1> QED
  BY <1>2, ModCong DEF Product, Dot

\* A number that is congruent to a member of the field has it as its remainder.
LEMMA FieldMod ==
  ASSUME NEW a \in Int, NEW b \in Field
  PROVE  a % P = b <=> Cong(a, b)
<1>1. b \in Int /\ b % P = b
  BY PrimeAssumption DEF Field
<1> QED
  BY <1>1, CongMod

\* When lu_factor() is done, lu_solve() solves the system it was given, for every right side.
LEMMA FactorInvSolves ==
  ASSUME FactorInv, at = "done", NEW b \in Vector
  PROVE  /\ Solve(A, pivot, b) \in Vector
         /\ \A i \in Idx : Dot(given[i], Solve(A, pivot, b)) \in Int /\ Cong(Dot(given[i], Solve(A, pivot, b)), b[i])
<1>1. /\ given \in Matrix /\ A \in Matrix /\ pivot \in [Idx -> Idx] /\ k = N /\ N \in 0 .. N
      /\ \A i \in Idx : A[i][i] # 0
  BY SizeAssumption DEF FactorInv, Idx
<1>2. Factors(given, A, N, Permuted(pivot, Identity, N))
  BY <1>1, InvFactors DEF FactorInv
<1> QED
  BY <1>1, <1>2, SolveCorrect

\* lu_solve() solves the system given to lu_factor() for every right side.
SolvesAll == at = "done" => \A b \in Vector : Product(given, Solve(A, pivot, b)) = b

\* The invariant implies that it does.
LEMMA FactorInvSolvesAll ==
  ASSUME FactorInv
  PROVE  SolvesAll
<1> SUFFICES ASSUME at = "done", NEW b \in Vector
             PROVE  Product(given, Solve(A, pivot, b)) = b
  BY DEF SolvesAll
<1> DEFINE x == Solve(A, pivot, b)
<1>1. x \in Vector /\ \A i \in Idx : Dot(given[i], x) \in Int /\ Cong(Dot(given[i], x), b[i])
  BY FactorInvSolves
<1> HIDE DEF x
<1>2. given \in Matrix
  BY DEF FactorInv
<1>3. ASSUME NEW i \in Idx PROVE Product(given, x)[i] = b[i]
  <2>1. b[i] \in Field
    BY Entries
  <2>2. Dot(given[i], x) % P = b[i]
    BY <1>1, <2>1, FieldMod
  <2> QED
    BY <1>1, <1>2, <2>2, ProductIs
<1>4. Product(given, x) = [i \in Idx |-> Product(given, x)[i]] /\ b = [i \in Idx |-> b[i]]
  BY DEF Product, Vector
<1> QED
  BY <1>3, <1>4 DEF x

\* The columns of the unit matrix are such right sides.
LEMMA FactorInvSolvesGiven ==
  ASSUME FactorInv
  PROVE  SolvesGiven
<1>1. \A n \in Idx : Unit(n) \in Vector
  BY PrimeAssumption DEF Unit, Vector, Field
<1> QED
  BY <1>1, FactorInvSolvesAll, Zenon DEF SolvesAll, SolvesGiven

\* The invariant implies that lu_factor() throws for every singular matrix, and only when
\* what is left of a column is below the smallest pivot.
LEMMA FactorInvThrows ==
  ASSUME FactorInv
  PROVE  ThrowsOnSmallPivot
<1> DEFINE zero == [i \in Idx |-> 0]
           row == Permuted(pivot, Identity, k)
           Negligible(x) ==
             /\ x[k] = 1 /\ \A j \in k + 1 .. N - 1 : x[j] = 0
             /\ \A i \in 0 .. k - 1 : Product(given, x)[row[i]] = 0
             /\ \A i \in k .. N - 1 : Magnitude(Product(given, x)[row[i]]) < Smallest
<1>0. /\ 0 \in Field /\ given \in Matrix /\ A \in Matrix /\ pivot \in [Idx -> Idx] /\ k \in 0 .. N
      /\ row \in [Idx -> Idx] /\ Factors(given, A, k, row)
  <2>1. /\ 0 \in Field /\ given \in Matrix /\ A \in Matrix /\ pivot \in [Idx -> Idx] /\ k \in 0 .. N
        /\ \A i, j \in Idx : given[Permuted(pivot, Identity, k)[i]][j] = Rebuilt(A, k, i)[j] % P
    BY PrimeAssumption DEF Field, FactorInv
  <2> QED
    BY <2>1, InvFactors
<1>1. ASSUME at = "done", NEW x \in Vector, Product(given, x) = zero PROVE x = zero
  <2>1. k = N /\ \A i \in Idx : A[i][i] # 0
    BY <1>1 DEF FactorInv, Idx
  <2>2. ASSUME NEW i \in Idx PROVE Cong(Dot(given[i], x), 0)
    <3>1. Dot(given[i], x) \in Int /\ Product(given, x)[i] = Dot(given[i], x) % P
      BY <1>0, ProductIs
    <3>2. Product(given, x)[i] = 0
      BY <1>1
    <3> QED
      BY <1>0, <3>1, <3>2, FieldMod
  <2>3. \A i \in Idx : x[i] = 0
    BY <1>0, <2>1, <2>2, RegularKernel
  <2> QED
    BY <2>3 DEF Vector
<1>2. ASSUME at = "singular" PROVE \E x \in Vector : Negligible(x)
  <2>1. /\ k \in Idx /\ k \in Nat /\ N \in Nat /\ \A i \in 0 .. k - 1 : A[i][i] # 0
        /\ \A i \in k .. N - 1 : Magnitude(A[i][k]) < Smallest
    BY <1>2, SizeAssumption DEF FactorInv, Idx
  <2> HIDE DEF row
  <2>2. PICK x \in Vector :
          /\ x[k] = 1 /\ \A i \in Idx : i > k => x[i] = 0
          /\ \A i \in Idx : /\ Dot(given[row[i]], x) \in Int
                            /\ Cong(Dot(given[row[i]], x), IF i < k THEN 0 ELSE A[i][k])
    BY <1>0, <2>1, ColumnLeft
  <2>3. ASSUME NEW i \in Idx
        PROVE  Product(given, x)[row[i]] = IF i < k THEN 0 ELSE A[i][k]
    <3> DEFINE w == IF i < k THEN 0 ELSE A[i][k]
    <3>1. w \in Field /\ row[i] \in Idx
      BY <1>0, <2>1, Entries
    <3>2. Dot(given[row[i]], x) \in Int /\ Cong(Dot(given[row[i]], x), w)
      BY <2>2
    <3> HIDE DEF w
    <3>3. Product(given, x)[row[i]] = Dot(given[row[i]], x) % P
      BY <1>0, <3>1, ProductIs
    <3> QED
      BY <3>1, <3>2, <3>3, FieldMod DEF w
  <2>4. /\ \A i \in 0 .. k - 1 : i \in Idx /\ i < k
        /\ \A i \in k .. N - 1 : i \in Idx /\ ~(i < k)
        /\ \A j \in k + 1 .. N - 1 : j \in Idx /\ j > k
    BY <2>1 DEF Idx
  <2>5. Negligible(x)
    BY <2>1, <2>2, <2>3, <2>4
  <2> QED
    BY <2>5
<1> QED
  BY <1>1, <1>2 DEF ThrowsOnSmallPivot
===============================================================================
