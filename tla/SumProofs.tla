------------------------------ MODULE SumProofs ------------------------------
(***************************************************************************)
(* Induction over the natural numbers, and definition by recursion on      *)
(* them, in the form the proofs of this project use: the induction         *)
(* hypothesis is a set of numbers, the recursion step a function.  Both    *)
(* rest on the least element of a set of numbers.                          *)
(***************************************************************************)
EXTENDS Sums, WellFoundedInduction, TLAPS

\* A set of natural numbers that is not empty has a least element.
LEMMA Least ==
  ASSUME NEW T \in SUBSET Nat, T # {}
  PROVE  \E x \in T : \A y \in T : x <= y
<1> DEFINE R == {ss \in Nat \X Nat : ss[1] < ss[2]}
<1>1. IsWellFoundedOn(R, Nat)
  BY NatLessThanWellFounded DEF OpToRel
<1>2. \A x, y \in Nat : x < y => <<x, y>> \in R
  OBVIOUS
<1> HIDE DEF R
<1>3. PICK x \in T : \A y \in T : ~ (<<y, x>> \in R)
  BY <1>1, WFMin, Zenon
<1>4. ASSUME NEW y \in T PROVE x <= y
  <2>1. ~(y < x)
    BY <1>2, <1>3, Zenon
  <2> QED
    BY <2>1
<1> QED
  BY <1>4

\* A set that holds 0, and n + 1 with every number n, holds every number.
LEMMA SetInduction ==
  ASSUME NEW S, 0 \in S, \A n \in Nat : n \in S => n + 1 \in S
  PROVE  \A n \in Nat : n \in S
<1> SUFFICES ASSUME Nat \ S # {} PROVE FALSE
  OBVIOUS
<1>1. PICK x \in Nat \ S : \A y \in Nat \ S : x <= y
  BY Least, Zenon
<1>2. x # 0 /\ x - 1 \in Nat
  BY <1>1
<1>3. x - 1 \in S
  BY <1>1, <1>2
<1> QED
  BY <1>1, <1>2, <1>3

\* The first n + 1 values of a function defined by recursion.
Prefix(g, n, c, F, V) ==
  /\ g \in [0 .. n -> V]
  /\ g[0] = c
  /\ \A i \in 0 .. n - 1 : g[i + 1] = F[g[i]][i]

\* Two of them agree where both have values.
LEMMA PrefixUnique ==
  ASSUME NEW V, NEW c, NEW F, NEW n \in Nat, NEW m \in Nat, n <= m, NEW g, NEW h,
         Prefix(g, n, c, F, V), Prefix(h, m, c, F, V)
  PROVE  \A i \in 0 .. n : g[i] = h[i]
<1> DEFINE S == {i \in Nat : i \in 0 .. n => g[i] = h[i]}
<1>1. 0 \in S
  BY DEF Prefix
<1>2. ASSUME NEW i \in Nat, i \in S PROVE i + 1 \in S
  <2> SUFFICES ASSUME i + 1 \in 0 .. n PROVE g[i + 1] = h[i + 1]
    OBVIOUS
  <2>1. i \in 0 .. n - 1 /\ i \in 0 .. m - 1 /\ g[i] = h[i]
    BY <1>2
  <2> QED
    BY <2>1 DEF Prefix
<1> HIDE DEF S
<1>3. \A i \in Nat : i \in S
  BY <1>1, <1>2, SetInduction
<1> QED
  BY <1>3 DEF S

\* There is one of every length.
LEMMA PrefixExists ==
  ASSUME NEW V, NEW c \in V, NEW F \in [V -> [Nat -> V]]
  PROVE  \A n \in Nat : \E g : Prefix(g, n, c, F, V)
<1> DEFINE S == {n \in Nat : \E g : Prefix(g, n, c, F, V)}
<1>1. 0 \in S
  <2> DEFINE z == [i \in 0 .. 0 |-> c]
  <2>1. Prefix(z, 0, c, F, V)
    BY DEF Prefix
  <2> QED
    BY <2>1
<1>2. ASSUME NEW n \in Nat, n \in S PROVE n + 1 \in S
  <2>1. PICK g : Prefix(g, n, c, F, V)
    BY <1>2
  <2> DEFINE h == [i \in 0 .. n + 1 |-> IF i = n + 1 THEN F[g[n]][n] ELSE g[i]]
  <2>2. g \in [0 .. n -> V] /\ g[0] = c /\ \A i \in 0 .. n - 1 : g[i + 1] = F[g[i]][i]
    BY <2>1 DEF Prefix
  <2>3. g[n] \in V
    BY <2>2
  <2>4. F[g[n]][n] \in V
    BY <2>3
  <2>5. h \in [0 .. n + 1 -> V]
    BY <2>2, <2>4
  <2>6. h[0] = c
    BY <2>2
  <2>7. ASSUME NEW i \in 0 .. (n + 1) - 1 PROVE h[i + 1] = F[h[i]][i]
    <3>1. h[i] = g[i]
      OBVIOUS
    <3>2. CASE i = n
      BY <3>1, <3>2
    <3>3. CASE i # n
      <4>1. i \in 0 .. n - 1 /\ h[i + 1] = g[i + 1]
        BY <3>3
      <4> HIDE DEF h
      <4> QED
        BY <4>1, <3>1, <2>2
    <3> QED
      BY <3>2, <3>3
  <2> HIDE DEF h
  <2>8. Prefix(h, n + 1, c, F, V)
    BY <2>5, <2>6, <2>7 DEF Prefix
  <2> QED
    BY <2>8
<1> HIDE DEF S
<1>3. \A n \in Nat : n \in S
  BY <1>1, <1>2, SetInduction, Zenon
<1> QED
  BY <1>3, Zenon DEF S

\* The function f on Nat is c at 0, and F[f[n]][n] at n + 1.
Recursive(f, c, F, V) ==
  /\ f \in [Nat -> V]
  /\ f[0] = c
  /\ \A n \in Nat : f[n + 1] = F[f[n]][n]

\* Definition by recursion: a first value and a step determine a function on Nat.
LEMMA Recursion ==
  ASSUME NEW V, NEW c, NEW F, c \in V, F \in [V -> [Nat -> V]]
  PROVE  \E f : Recursive(f, c, F, V)
<1> DEFINE G(n) == CHOOSE g : Prefix(g, n, c, F, V)
           f == [n \in Nat |-> G(n)[n]]
<1>1. \A n \in Nat : Prefix(G(n), n, c, F, V)
  BY PrefixExists
<1> HIDE DEF G
<1>2. ASSUME NEW n \in Nat PROVE f[n] \in V
  BY <1>1 DEF Prefix
<1>3. f[0] = c
  BY <1>1 DEF Prefix
<1>4. ASSUME NEW n \in Nat PROVE f[n + 1] = F[f[n]][n]
  <2>1. Prefix(G(n), n, c, F, V) /\ Prefix(G(n + 1), n + 1, c, F, V)
    BY <1>1
  <2>2. G(n)[n] = G(n + 1)[n]
    BY <2>1, PrefixUnique
  <2>3. G(n + 1)[n + 1] = F[G(n + 1)[n]][n]
    BY <2>1 DEF Prefix
  <2> QED
    BY <2>2, <2>3
<1> HIDE DEF f
<1>5. f \in [Nat -> V]
  BY <1>2 DEF f
<1>6. Recursive(f, c, F, V)
  BY <1>3, <1>4, <1>5 DEF Recursive
<1> QED
  BY <1>6

-------------------------------------------------------------------------------
(* Sums *)

\* A function that starts at 0 and adds f[m] at each m is the sum of f.
LEMMA SumIs ==
  ASSUME NEW f, NEW n \in Nat, NEW g \in [Nat -> Int], g[0] = 0,
         \A m \in 0 .. n - 1 : g[m + 1] = g[m] + f[m]
  PROVE  Sum(f, n) = g[n]
<1> DEFINE Def(h) == h = [m \in 0 .. n |-> IF m = 0 THEN 0 ELSE h[m - 1] + f[m - 1]]
           h == CHOOSE u : Def(u)
           w == [m \in 0 .. n |-> g[m]]
<1>1. Def(w)
  <2>1. ASSUME NEW m \in 0 .. n
        PROVE  g[m] = IF m = 0 THEN 0 ELSE w[m - 1] + f[m - 1]
    <3>1. CASE m = 0
      BY <3>1
    <3>2. CASE m # 0
      <4>1. m - 1 \in 0 .. n - 1 /\ (m - 1) + 1 = m /\ m - 1 \in 0 .. n
        BY <3>2
      <4>2. g[m] = g[m - 1] + f[m - 1]
        BY <4>1
      <4> QED
        BY <3>2, <4>1, <4>2
    <3> QED
      BY <3>1, <3>2
  <2> QED
    BY <2>1
<1>2. Def(h)
  BY <1>1, Zenon
<1> HIDE DEF h, w
<1> DEFINE S == {m \in Nat : m \in 0 .. n => h[m] = g[m]}
<1>3. 0 \in S
  BY <1>2
<1>4. ASSUME NEW m \in Nat, m \in S PROVE m + 1 \in S
  <2> SUFFICES ASSUME m + 1 \in 0 .. n PROVE h[m + 1] = g[m + 1]
    OBVIOUS
  <2>1. m \in 0 .. n - 1 /\ (m + 1) - 1 = m /\ m + 1 # 0 /\ h[m] = g[m]
    BY <1>4
  <2>2. h[m + 1] = h[m] + f[m]
    BY <1>2, <2>1
  <2> QED
    BY <2>1, <2>2
<1> HIDE DEF S, Def
<1>5. \A m \in Nat : m \in S
  BY <1>3, <1>4, SetInduction
<1>6. h[n] = g[n]
  BY <1>5 DEF S
<1> QED
  BY <1>6 DEF Sum, h, Def

\* Every function has a running sum.
LEMMA RunningSum ==
  ASSUME NEW f, NEW n \in Nat, \A m \in 0 .. n - 1 : f[m] \in Int
  PROVE  \E g \in [Nat -> Int] : g[0] = 0 /\ \A m \in 0 .. n - 1 : g[m + 1] = g[m] + f[m]
<1> DEFINE t == [m \in Nat |-> IF m \in 0 .. n - 1 THEN f[m] ELSE 0]
           F == [x \in Int |-> [m \in Nat |-> x + t[m]]]
<1>1. t \in [Nat -> Int]
  OBVIOUS
<1>2. \A m \in 0 .. n - 1 : t[m] = f[m]
  OBVIOUS
<1> HIDE DEF t
<1>3. F \in [Int -> [Nat -> Int]] /\ \A x \in Int, m \in Nat : F[x][m] = x + t[m]
  BY <1>1
<1> HIDE DEF F
<1>4. 0 \in Int /\ F \in [Int -> [Nat -> Int]]
  BY <1>3
<1>5. PICK g : Recursive(g, 0, F, Int)
  BY <1>4, Recursion, Zenon
<1>6. g \in [Nat -> Int] /\ g[0] = 0 /\ \A m \in Nat : g[m + 1] = F[g[m]][m]
  BY <1>5 DEF Recursive
<1>7. ASSUME NEW m \in 0 .. n - 1 PROVE g[m + 1] = g[m] + f[m]
  <2>1. m \in Nat /\ g[m] \in Int
    BY <1>6
  <2>2. g[m + 1] = F[g[m]][m]
    BY <1>6, <2>1
  <2>3. F[g[m]][m] = g[m] + t[m]
    BY <1>3, <2>1
  <2> QED
    BY <1>2, <2>2, <2>3
<1> QED
  BY <1>6, <1>7

\* The sum of no terms, the type of a sum, and the next term.
LEMMA SumEmpty == ASSUME NEW f PROVE Sum(f, 0) = 0
<1> DEFINE g == [m \in Nat |-> 0]
<1>1. g \in [Nat -> Int] /\ g[0] = 0 /\ \A m \in 0 .. 0 - 1 : g[m + 1] = g[m] + f[m]
  OBVIOUS
<1> HIDE DEF g
<1> QED
  BY <1>1, SumIs

\* Sums are integers.
LEMMA SumType ==
  ASSUME NEW f, NEW n \in Nat, \A m \in 0 .. n - 1 : f[m] \in Int
  PROVE  Sum(f, n) \in Int
<1>1. PICK g \in [Nat -> Int] : g[0] = 0 /\ \A m \in 0 .. n - 1 : g[m + 1] = g[m] + f[m]
  BY RunningSum, Zenon
<1> QED
  BY <1>1, SumIs

\* One term more.
LEMMA SumNext ==
  ASSUME NEW f, NEW n \in Nat, \A m \in 0 .. n : f[m] \in Int
  PROVE  Sum(f, n + 1) = Sum(f, n) + f[n]
<1>1. n + 1 \in Nat /\ \A m \in 0 .. (n + 1) - 1 : f[m] \in Int
  OBVIOUS
<1>2. PICK g \in [Nat -> Int] : g[0] = 0 /\ \A m \in 0 .. (n + 1) - 1 : g[m + 1] = g[m] + f[m]
  BY <1>1, RunningSum, Zenon
<1>3. Sum(f, n) = g[n]
  BY <1>2, SumIs
<1>4. Sum(f, n + 1) = g[n + 1]
  BY <1>1, <1>2, SumIs
<1> QED
  BY <1>2, <1>3, <1>4

\* Sums are linear.
LEMMA SumLinear ==
  ASSUME NEW f, NEW g, NEW h, NEW c \in Int, NEW n \in Nat,
         \A m \in 0 .. n - 1 : f[m] \in Int /\ g[m] \in Int /\ h[m] = f[m] + c * g[m]
  PROVE  Sum(h, n) = Sum(f, n) + c * Sum(g, n)
<1> DEFINE S == {m \in Nat : m <= n => Sum(h, m) = Sum(f, m) + c * Sum(g, m)}
<1>1. 0 \in S
  BY SumEmpty
<1>2. ASSUME NEW m \in Nat, m \in S PROVE m + 1 \in S
  <2> SUFFICES ASSUME m + 1 <= n PROVE Sum(h, m + 1) = Sum(f, m + 1) + c * Sum(g, m + 1)
    OBVIOUS
  <2>1. \A i \in 0 .. m : f[i] \in Int /\ g[i] \in Int /\ h[i] \in Int
    OBVIOUS
  <2>2. /\ Sum(f, m) \in Int /\ Sum(g, m) \in Int
        /\ Sum(f, m + 1) = Sum(f, m) + f[m]
        /\ Sum(g, m + 1) = Sum(g, m) + g[m]
        /\ Sum(h, m + 1) = Sum(h, m) + h[m]
    BY <2>1, SumType, SumNext
  <2>3. Sum(h, m) = Sum(f, m) + c * Sum(g, m) /\ h[m] = f[m] + c * g[m] /\ f[m] \in Int /\ g[m] \in Int
    BY <1>2
  <2> HIDE DEF S
  <2> QED
    BY <2>2, <2>3
<1> HIDE DEF S
<1>3. \A m \in Nat : m \in S
  BY <1>1, <1>2, SetInduction
<1> QED
  BY <1>3 DEF S

\* A sum depends on its terms only.
LEMMA SumSame ==
  ASSUME NEW f, NEW h, NEW n \in Nat, \A m \in 0 .. n - 1 : f[m] \in Int /\ h[m] = f[m]
  PROVE  Sum(h, n) = Sum(f, n)
<1>1. \A m \in 0 .. n - 1 : f[m] \in Int /\ f[m] \in Int /\ h[m] = f[m] + 0 * f[m]
  OBVIOUS
<1>2. Sum(h, n) = Sum(f, n) + 0 * Sum(f, n)
  BY <1>1, SumLinear
<1>3. Sum(f, n) \in Int
  BY SumType
<1> QED
  BY <1>2, <1>3

\* The first term apart.
LEMMA SumShift ==
  ASSUME NEW f, NEW g, NEW n \in Nat,
         \A m \in 0 .. n : f[m] \in Int, \A m \in 0 .. n - 1 : g[m] = f[m + 1]
  PROVE  Sum(f, n + 1) = f[0] + Sum(g, n)
<1> DEFINE S == {m \in Nat : m <= n => Sum(f, m + 1) = f[0] + Sum(g, m)}
<1>1. 0 \in S
  <2>1. Sum(f, 0 + 1) = Sum(f, 0) + f[0]
    BY SumNext
  <2> QED
    BY <2>1, SumEmpty
<1>2. ASSUME NEW m \in Nat, m \in S PROVE m + 1 \in S
  <2> SUFFICES ASSUME m + 1 <= n PROVE Sum(f, (m + 1) + 1) = f[0] + Sum(g, m + 1)
    OBVIOUS
  <2>1. m + 1 \in Nat /\ \A i \in 0 .. m + 1 : f[i] \in Int
    OBVIOUS
  <2>2. \A i \in 0 .. m : g[i] \in Int
    OBVIOUS
  <2>3. Sum(f, (m + 1) + 1) = Sum(f, m + 1) + f[m + 1]
    BY <2>1, SumNext
  <2>4. Sum(g, m) \in Int /\ Sum(g, m + 1) = Sum(g, m) + g[m]
    BY <2>2, SumType, SumNext
  <2>5. Sum(f, m + 1) = f[0] + Sum(g, m) /\ g[m] = f[m + 1] /\ f[m + 1] \in Int /\ f[0] \in Int
    BY <1>2
  <2> HIDE DEF S
  <2> QED
    BY <2>3, <2>4, <2>5
<1> HIDE DEF S
<1>3. \A m \in Nat : m \in S
  BY <1>1, <1>2, SetInduction
<1> QED
  BY <1>3 DEF S

\* A single 1 among zeros.
LEMMA SumUnit ==
  ASSUME NEW f, NEW n \in Nat, NEW l \in 0 .. n - 1,
         \A m \in 0 .. n - 1 : f[m] = IF m = l THEN 1 ELSE 0
  PROVE  Sum(f, n) = 1
<1> DEFINE S == {m \in Nat : m <= n => Sum(f, m) = IF l < m THEN 1 ELSE 0}
<1>1. 0 \in S
  BY SumEmpty
<1>2. ASSUME NEW m \in Nat, m \in S PROVE m + 1 \in S
  <2> SUFFICES ASSUME m + 1 <= n PROVE Sum(f, m + 1) = IF l < m + 1 THEN 1 ELSE 0
    OBVIOUS
  <2>1. \A i \in 0 .. m : f[i] \in Int
    OBVIOUS
  <2>2. Sum(f, m + 1) = Sum(f, m) + f[m]
    BY <2>1, SumNext
  <2>3. Sum(f, m) = (IF l < m THEN 1 ELSE 0) /\ f[m] = IF m = l THEN 1 ELSE 0
    BY <1>2
  <2> HIDE DEF S
  <2> QED
    BY <2>2, <2>3
<1> HIDE DEF S
<1>3. \A m \in Nat : m \in S
  BY <1>1, <1>2, SetInduction
<1> QED
  BY <1>3 DEF S

\* Sums that differ in one term.
LEMMA SumBut ==
  ASSUME NEW f, NEW h, NEW n \in Nat, NEW l \in 0 .. n - 1,
         \A m \in 0 .. n - 1 : f[m] \in Int /\ h[m] \in Int /\ (m # l => h[m] = f[m])
  PROVE  Sum(h, n) = Sum(f, n) + (h[l] - f[l])
<1> DEFINE e == [m \in 0 .. n - 1 |-> IF m = l THEN 1 ELSE 0]
           c == h[l] - f[l]
<1>1. Sum(e, n) = 1
  <2>1. \A m \in 0 .. n - 1 : e[m] = IF m = l THEN 1 ELSE 0
    OBVIOUS
  <2> HIDE DEF e
  <2> QED
    BY <2>1, SumUnit
<1>2. c \in Int
  OBVIOUS
<1>3. ASSUME NEW m \in 0 .. n - 1 PROVE f[m] \in Int /\ e[m] \in Int /\ h[m] = f[m] + c * e[m]
  <2>1. e[m] = IF m = l THEN 1 ELSE 0
    OBVIOUS
  <2>2. f[m] \in Int /\ h[m] \in Int /\ (m # l => h[m] = f[m])
    OBVIOUS
  <2>3. CASE m = l
    BY <2>1, <2>2, <2>3
  <2>4. CASE m # l
    <3>1. e[m] = 0 /\ h[m] = f[m]
      BY <2>1, <2>2, <2>4
    <3> HIDE DEF e, c
    <3> QED
      BY <1>2, <2>2, <3>1
  <2> QED
    BY <2>3, <2>4
<1> HIDE DEF e, c
<1>4. Sum(h, n) = Sum(f, n) + c * Sum(e, n)
  BY <1>2, <1>3, SumLinear
<1>5. c * Sum(e, n) = c
  BY <1>1, <1>2
<1> QED
  BY <1>4, <1>5 DEF c

\* Nothing but zeros.
LEMMA SumZero ==
  ASSUME NEW f, NEW n \in Nat, \A m \in 0 .. n - 1 : f[m] = 0
  PROVE  Sum(f, n) = 0
<1>1. \A m \in 0 .. n - 1 : f[m] \in Int /\ f[m] \in Int /\ f[m] = f[m] + (-1) * f[m]
  OBVIOUS
<1>2. -1 \in Int
  OBVIOUS
<1>3. Sum(f, n) = Sum(f, n) + (-1) * Sum(f, n) /\ Sum(f, n) \in Int
  BY <1>1, <1>2, SumLinear, SumType
<1> QED
  BY <1>3
===============================================================================
