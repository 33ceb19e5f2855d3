--------------------------- MODULE HlsKernelProofs ---------------------------
(***************************************************************************)
(* Proofs about VscNetwork and HlsKernel, for every number of phases,      *)
(* every prime field and every set of parameters: what lu_factor() and     *)
(* lu_solve() promise holds in the network, each step() follows the        *)
(* trapezoidal rule and Kirchhoff's current law, and the HLS kernel        *)
(* computes what the network computes for as long as it is used like it.   *)
(***************************************************************************)
EXTENDS HlsKernel, LuFactorProofs

-------------------------------------------------------------------------------
(* The nodes *)

\* The three nodes of a phase are different, and lead back to the phase.
LEMMA Nodes ==
  ASSUME NEW n \in Phase
  PROVE  /\ n \in Nat /\ Phases \in Nat /\ Phases > 0 /\ n < Phases
         /\ Inverter(n) \in Idx /\ Cap(n) \in Idx /\ Grid(n) \in Idx
         /\ Inverter(n) # Cap(n) /\ Inverter(n) # Grid(n) /\ Cap(n) # Grid(n)
         /\ Inverter(n) % Phases = n /\ Cap(n) % Phases = n /\ Grid(n) % Phases = n
<1>1. n \in Nat /\ Phases \in Nat /\ Phases > 0 /\ n < Phases /\ N = 3 * Phases /\ n \in 0 .. Phases - 1
  BY NodesAssumption DEF Phase
<1>2. /\ Inverter(n) \in Idx /\ Cap(n) \in Idx /\ Grid(n) \in Idx
      /\ Inverter(n) # Cap(n) /\ Inverter(n) # Grid(n) /\ Cap(n) # Grid(n)
  BY <1>1 DEF Inverter, Cap, Grid, Idx
<1>3. n + Phases * 0 = Inverter(n) /\ n + Phases * 1 = Cap(n) /\ n + Phases * 2 = Grid(n)
  BY <1>1 DEF Inverter, Cap, Grid
<1>4. (n + Phases * 0) % Phases = n /\ (n + Phases * 1) % Phases = n /\ (n + Phases * 2) % Phases = n
  <2>1. \A q \in Int : (n + Phases * q) % Phases = n
    BY <1>1, ModUnique
  <2>2. 0 \in Int /\ 1 \in Int /\ 2 \in Int
    OBVIOUS
  <2> QED
    BY <2>1, <2>2, Zenon
<1>5. Inverter(n) % Phases = n /\ Cap(n) % Phases = n /\ Grid(n) % Phases = n
  BY <1>3, <1>4, Zenon
<1> QED
  BY <1>1, <1>2, <1>5

\* Every node is one of the three of its phase.
LEMMA EveryNode ==
  ASSUME NEW i \in Idx
  PROVE  /\ i % Phases \in Phase
         /\ i = Inverter(i % Phases) \/ i = Cap(i % Phases) \/ i = Grid(i % Phases)
<1> DEFINE n == i % Phases
           q == i \div Phases
<1>1. i \in Nat /\ Phases \in Nat /\ Phases > 0 /\ N = 3 * Phases /\ i < N
  BY NodesAssumption, SizeAssumption DEF Idx
<1>2. n \in 0 .. Phases - 1 /\ q \in Int /\ i = Phases * q + n
  BY <1>1, DivMod
<1> HIDE DEF n, q
<1>3. q >= 0
  <2>1. CASE q <= -1
    <3>1. Phases * q = -Phases - Phases * (-q - 1) /\ Phases * (-q - 1) >= 0
      BY <1>1, <1>2, <2>1
    <3> QED
      BY <1>1, <1>2, <3>1
  <2> QED
    BY <1>2, <2>1
<1>4. q <= 2
  <2>1. CASE q >= 3
    <3>1. Phases * q = 3 * Phases + Phases * (q - 3) /\ Phases * (q - 3) >= 0
      BY <1>1, <1>2, <2>1
    <3> QED
      BY <1>1, <1>2, <3>1
  <2> QED
    BY <1>2, <2>1
<1>5. q = 0 \/ q = 1 \/ q = 2
  BY <1>2, <1>3, <1>4
<1>6. i = n \/ i = n + Phases \/ i = n + 2 * Phases
  BY <1>1, <1>2, <1>5
<1> QED
  BY <1>2, <1>6 DEF n, Phase, Inverter, Cap, Grid

\* The nodes of a phase; phases share none.
NodesOf(n) == {Inverter(n), Cap(n), Grid(n)}

\* No two phases share a node.
LEMMA PhasesApart ==
  ASSUME NEW m \in Phase, NEW n \in Phase, m # n, NEW i \in NodesOf(n)
  PROVE  i \notin NodesOf(m) /\ i # Ground /\ i \in Idx
<1>1. Phases \in Nat /\ n \in 0 .. Phases - 1 /\ m \in 0 .. Phases - 1
  BY NodesAssumption DEF Phase
<1>2. i = n \/ i = n + Phases \/ i = n + 2 * Phases
  BY DEF NodesOf, Inverter, Cap, Grid
<1>3. i # m /\ i # m + Phases /\ i # m + 2 * Phases /\ i # -1
  BY <1>1, <1>2
<1>4. i \in Idx
  BY Nodes DEF NodesOf
<1> QED
  BY <1>3, <1>4 DEF NodesOf, Inverter, Cap, Grid, Ground

-------------------------------------------------------------------------------
(* The matrix *)

\* What stamp() adds to an entry of the matrix.
LEMMA StampIs ==
  ASSUME NEW a, NEW b, NEW g, NEW i, NEW j
  PROVE  Stamp(a, b, g, i, j) =
           IF i = j THEN IF i = a \/ i = b THEN g ELSE 0
           ELSE IF (i = a /\ j = b) \/ (i = b /\ j = a) THEN -g ELSE 0
<1>1. i \in {a, b} <=> i = a \/ i = b
  OBVIOUS
<1>2. i # j => ({i, j} = {a, b} <=> (i = a /\ j = b) \/ (i = b /\ j = a))
  BY Zenon
<1> QED
  BY <1>1, <1>2 DEF Stamp

\* The conductances of the branches.
LEMMA Conductances ==
  ASSUME NEW q \in Params, NEW g, NEW n
  PROVE  /\ q.gLf \in Int /\ q.betaLf \in Int /\ q.gCf \in Int /\ q.gLgrid \in Int /\ q.betaLgrid \in Int
         /\ q.gVs \in Int /\ GUpper(q, g, n) \in Int /\ GLower(q, g, n) \in Int
<1>1. q \in Network /\ Field \subseteq Int
  BY ParamsAssumption, PrimeAssumption DEF Field
<1> HIDE DEF Field
<1> QED
  BY <1>1, Zenon DEF Network, GUpper, GLower

\* What a phase adds is an integer.
LEMMA PhaseStampType ==
  ASSUME NEW q \in Params, NEW g, NEW n, NEW i, NEW j
  PROVE  PhaseStamp(q, g, n, i, j) \in Int
<1>1. \A a, b, i1, j1 : \A h \in Int : Stamp(a, b, h, i1, j1) \in Int
  BY StampIs
<1>2. /\ q.gLf \in Int /\ q.gCf \in Int /\ q.gLgrid \in Int /\ q.gVs \in Int
      /\ GUpper(q, g, n) + GLower(q, g, n) \in Int
  BY Conductances
<1>3. /\ Stamp(Inverter(n), Cap(n), q.gLf, i, j) \in Int
      /\ Stamp(Cap(n), Ground, q.gCf, i, j) \in Int
      /\ Stamp(Cap(n), Grid(n), q.gLgrid, i, j) \in Int
      /\ Stamp(Grid(n), Ground, q.gVs, i, j) \in Int
      /\ Stamp(Inverter(n), Ground, GUpper(q, g, n) + GLower(q, g, n), i, j) \in Int
  BY <1>1, <1>2
<1> QED
  BY <1>3 DEF PhaseStamp

\* A phase adds nothing to the rows and columns of other nodes.
LEMMA PhaseStampOff ==
  ASSUME NEW q, NEW g, NEW n, NEW i, NEW j, i # Ground, j # Ground,
         i \notin NodesOf(n) \/ j \notin NodesOf(n)
  PROVE  PhaseStamp(q, g, n, i, j) = 0
<1>1. \A a, b \in NodesOf(n) \cup {Ground} : \A h : Stamp(a, b, h, i, j) = 0
  BY StampIs
<1>2. Inverter(n) \in NodesOf(n) /\ Cap(n) \in NodesOf(n) /\ Grid(n) \in NodesOf(n)
  BY DEF NodesOf
<1> QED
  BY <1>1, <1>2 DEF PhaseStamp


\* The assembled matrix is one of the field.
LEMMA AssembleType ==
  ASSUME NEW q \in Params, NEW g
  PROVE  Assemble(q, g) \in Matrix
<1>1. ASSUME NEW i \in Idx, NEW j \in Idx
      PROVE  Sum([n \in Phase |-> PhaseStamp(q, g, n, i, j)], Phases) % P \in Field
  <2> DEFINE f == [n \in Phase |-> PhaseStamp(q, g, n, i, j)]
  <2>1. \A n \in 0 .. Phases - 1 : f[n] \in Int
    BY PhaseStampType DEF Phase
  <2> HIDE DEF f
  <2>2. Sum(f, Phases) \in Int
    BY <2>1, NodesAssumption, SumType
  <2>3. Sum(f, Phases) % P \in Field
    BY <2>2, ModCong, Zenon
  <2> QED
    BY <2>3 DEF f
<1> QED
  BY <1>1 DEF Assemble, Matrix, Vector

\* A row of the matrix is made by the phase of its node.
LEMMA AssembleEntry ==
  ASSUME NEW q \in Params, NEW g, NEW n \in Phase, NEW i \in NodesOf(n), NEW j \in Idx
  PROVE  Assemble(q, g)[i][j] = PhaseStamp(q, g, n, i, j) % P
<1> DEFINE f == [m \in Phase |-> PhaseStamp(q, g, m, i, j)]
           z == [m \in Phase |-> 0]
<1>1. i \in Idx /\ i # Ground /\ j # Ground
  <2>1. i \in Idx
    BY Nodes DEF NodesOf
  <2> QED
    BY <2>1, SizeAssumption DEF Idx, Ground
<1>2. ASSUME NEW m \in 0 .. Phases - 1
      PROVE  z[m] \in Int /\ z[m] = 0 /\ f[m] \in Int /\ (m # n => f[m] = z[m])
  <2>1. m \in Phase
    BY DEF Phase
  <2>2. f[m] \in Int
    BY <2>1, PhaseStampType
  <2>3. ASSUME m # n PROVE PhaseStamp(q, g, m, i, j) = 0
    <3>1. i \notin NodesOf(m)
      BY <2>1, <2>3, PhasesApart, Zenon
    <3> QED
      BY <1>1, <3>1, PhaseStampOff, Zenon
  <2> QED
    BY <2>1, <2>2, <2>3
<1>3. n \in 0 .. Phases - 1 /\ Phases \in Nat /\ f[n] = PhaseStamp(q, g, n, i, j)
  BY NodesAssumption DEF Phase
<1>4. Assemble(q, g)[i][j] = Sum(f, Phases) % P
  BY <1>1 DEF Assemble
<1> HIDE DEF f, z
<1>5. Sum(f, Phases) = Sum(z, Phases) + (f[n] - z[n]) /\ Sum(z, Phases) = 0
  BY <1>2, <1>3, SumBut, SumZero, Zenon
<1>6. f[n] \in Int /\ z[n] = 0
  BY <1>2, <1>3
<1>7. Sum(f, Phases) = f[n]
  BY <1>5, <1>6
<1> QED
  BY <1>3, <1>4, <1>7

\* A sum of three terms among zeros.
LEMMA SumThree ==
  ASSUME NEW f, NEW n \in Nat, NEW a \in 0 .. n - 1, NEW b \in 0 .. n - 1, NEW c \in 0 .. n - 1,
         a # b, a # c, b # c, \A m \in 0 .. n - 1 : f[m] \in Int,
         \A m \in 0 .. n - 1 : m # a /\ m # b /\ m # c => f[m] = 0
  PROVE  Sum(f, n) = f[a] + f[b] + f[c]
<1> DEFINE g == [m \in 0 .. n - 1 |-> IF m = a THEN 0 ELSE f[m]]
           h == [m \in 0 .. n - 1 |-> IF m = a \/ m = b THEN 0 ELSE f[m]]
           z == [m \in 0 .. n - 1 |-> 0]
<1>1. \A m \in 0 .. n - 1 : g[m] \in Int /\ f[m] \in Int /\ (m # a => f[m] = g[m])
  OBVIOUS
<1>2. \A m \in 0 .. n - 1 : h[m] \in Int /\ g[m] \in Int /\ (m # b => g[m] = h[m])
  OBVIOUS
<1>3. \A m \in 0 .. n - 1 : z[m] \in Int /\ z[m] = 0 /\ h[m] \in Int /\ (m # c => h[m] = z[m])
  OBVIOUS
<1>4. g[a] = 0 /\ g[b] = f[b] /\ h[b] = 0 /\ h[c] = f[c] /\ z[c] = 0
  OBVIOUS
<1> HIDE DEF g, h, z
<1>5. Sum(f, n) = Sum(g, n) + (f[a] - g[a])
  BY <1>1, SumBut, Zenon
<1>6. Sum(g, n) = Sum(h, n) + (g[b] - h[b])
  BY <1>2, SumBut, Zenon
<1>7. Sum(h, n) = Sum(z, n) + (h[c] - z[c]) /\ Sum(z, n) = 0
  BY <1>3, SumBut, SumZero, Zenon
<1>8. f[a] \in Int /\ f[b] \in Int /\ f[c] \in Int
  BY Zenon
<1> QED
  BY <1>4, <1>5, <1>6, <1>7, <1>8

\* The product with a row reaches only the nodes of its phase.
LEMMA AssembleDot ==
  ASSUME NEW q \in Params, NEW g, NEW n \in Phase, NEW i \in NodesOf(n), NEW x \in Vector
  PROVE  Cong(Dot(Assemble(q, g)[i], x),
              PhaseStamp(q, g, n, i, Inverter(n)) * x[Inverter(n)]
                + PhaseStamp(q, g, n, i, Cap(n)) * x[Cap(n)]
                + PhaseStamp(q, g, n, i, Grid(n)) * x[Grid(n)])
<1> DEFINE r == [j \in Idx |-> PhaseStamp(q, g, n, i, j)]
           s == Assemble(q, g)[i]
           f == [j \in Idx |-> r[j] * x[j]]
<1>1. i \in Idx /\ i # Ground
  <2>1. i \in Idx
    BY Nodes DEF NodesOf
  <2> QED
    BY <2>1, SizeAssumption DEF Idx, Ground
<1>2. r \in [Idx -> Int] /\ x \in [Idx -> Int] /\ s \in [Idx -> Int]
  <2>1. Assemble(q, g) \in Matrix
    BY AssembleType
  <2> QED
    BY <1>1, <2>1, PhaseStampType, Entries, Zenon DEF Matrix, Vector
<1>3. ASSUME NEW j \in Idx PROVE Cong(s[j], r[j])
  <2>1. s[j] = PhaseStamp(q, g, n, i, j) % P
    BY AssembleEntry
  <2>2. PhaseStamp(q, g, n, i, j) \in Int
    BY PhaseStampType
  <2> QED
    BY <2>1, <2>2, ModCong, Zenon
<1> HIDE DEF s
<1>4. ASSUME NEW j \in Idx, j \notin NodesOf(n) PROVE r[j] = 0
  <2>1. j # Ground
    BY SizeAssumption DEF Idx, Ground
  <2> QED
    BY <1>1, <1>4, <2>1, PhaseStampOff, Zenon
<1>5. \A j \in Idx : f[j] = r[j] * x[j] /\ r[j] = PhaseStamp(q, g, n, i, j)
  OBVIOUS
<1> HIDE DEF r
<1>6. Cong(Dot(s, x), Dot(r, x))
  BY <1>2, <1>3, DotCong, Zenon
<1>7. Dot(r, x) = Sum(f, N)
  BY DEF Dot
<1>8. ASSUME NEW j \in 0 .. N - 1
      PROVE  f[j] \in Int /\ (j # Inverter(n) /\ j # Cap(n) /\ j # Grid(n) => f[j] = 0)
  <2>1. j \in Idx /\ r[j] \in Int /\ x[j] \in Int
    BY <1>2 DEF Idx
  <2>2. f[j] \in Int
    BY <1>5, <2>1
  <2>3. ASSUME j # Inverter(n) /\ j # Cap(n) /\ j # Grid(n) PROVE f[j] = 0
    <3>1. r[j] = 0
      BY <1>4, <2>1, <2>3, Zenon DEF NodesOf
    <3> QED
      BY <1>5, <2>1, <3>1
  <2> QED
    BY <2>2, <2>3
<1> HIDE DEF f
<1>9. /\ Inverter(n) \in 0 .. N - 1 /\ Cap(n) \in 0 .. N - 1 /\ Grid(n) \in 0 .. N - 1
      /\ Inverter(n) # Cap(n) /\ Inverter(n) # Grid(n) /\ Cap(n) # Grid(n)
  BY Nodes DEF Idx
<1>10. Sum(f, N) = f[Inverter(n)] + f[Cap(n)] + f[Grid(n)]
  BY <1>8, <1>9, IdxIs, SumThree, Zenon
<1>11. Inverter(n) \in Idx /\ Cap(n) \in Idx /\ Grid(n) \in Idx
  BY Nodes, Zenon
<1> QED
  BY <1>5, <1>6, <1>7, <1>10, <1>11, Zenon DEF s


\* The nine entries of a phase.
LEMMA PhaseEntries ==
  ASSUME NEW q \in Params, NEW g, NEW n \in Phase
  PROVE  /\ PhaseStamp(q, g, n, Inverter(n), Inverter(n)) = q.gLf + (GUpper(q, g, n) + GLower(q, g, n))
         /\ PhaseStamp(q, g, n, Inverter(n), Cap(n)) = -q.gLf
         /\ PhaseStamp(q, g, n, Inverter(n), Grid(n)) = 0
         /\ PhaseStamp(q, g, n, Cap(n), Inverter(n)) = -q.gLf
         /\ PhaseStamp(q, g, n, Cap(n), Cap(n)) = q.gLf + q.gCf + q.gLgrid
         /\ PhaseStamp(q, g, n, Cap(n), Grid(n)) = -q.gLgrid
         /\ PhaseStamp(q, g, n, Grid(n), Inverter(n)) = 0
         /\ PhaseStamp(q, g, n, Grid(n), Cap(n)) = -q.gLgrid
         /\ PhaseStamp(q, g, n, Grid(n), Grid(n)) = q.gLgrid + q.gVs
<1> DEFINE a == Inverter(n)
           b == Cap(n)
           c == Grid(n)
           d == Ground
           s == GUpper(q, g, n) + GLower(q, g, n)
<1>1. a # b /\ a # c /\ b # c /\ a # d /\ b # d /\ c # d
  <2>1. a # b /\ a # c /\ b # c /\ a \in Idx /\ b \in Idx /\ c \in Idx
    BY Nodes
  <2> QED
    BY <2>1, SizeAssumption DEF Idx, Ground
<1>2. q.gLf \in Int /\ q.gCf \in Int /\ q.gLgrid \in Int /\ q.gVs \in Int /\ s \in Int
  BY Conductances
<1>3. \A i, j : PhaseStamp(q, g, n, i, j) =
                  Stamp(a, b, q.gLf, i, j) + Stamp(b, d, q.gCf, i, j) + Stamp(b, c, q.gLgrid, i, j)
                    + Stamp(c, d, q.gVs, i, j) + Stamp(a, d, s, i, j)
  BY DEF PhaseStamp
<1> HIDE DEF a, b, c, d, s
<1>4. PhaseStamp(q, g, n, a, a) = q.gLf + s /\ PhaseStamp(q, g, n, a, b) = -q.gLf /\ PhaseStamp(q, g, n, a, c) = 0
  BY <1>1, <1>2, <1>3, StampIs
<1>5. PhaseStamp(q, g, n, b, a) = -q.gLf /\ PhaseStamp(q, g, n, b, b) = q.gLf + q.gCf + q.gLgrid
  BY <1>1, <1>2, <1>3, StampIs
<1>6. PhaseStamp(q, g, n, b, c) = -q.gLgrid /\ PhaseStamp(q, g, n, c, a) = 0
  BY <1>1, <1>2, <1>3, StampIs
<1>7. PhaseStamp(q, g, n, c, b) = -q.gLgrid /\ PhaseStamp(q, g, n, c, c) = q.gLgrid + q.gVs
  BY <1>1, <1>2, <1>3, StampIs
<1> QED
  BY <1>4, <1>5, <1>6, <1>7, Zenon DEF a, b, c, s

-------------------------------------------------------------------------------
(* Congruences of the branch currents *)

\* Numbers that differ by the same are congruent together.
LEMMA CongDiff ==
  ASSUME NEW a \in Int, NEW b \in Int, NEW c \in Int, NEW d \in Int, Cong(a, b), c - d = a - b
  PROVE  Cong(c, d)
<1>1. PICK q \in Int : a = b + P * q
  BY DEF Cong
<1>2. P * q \in Int
  BY PrimeAssumption
<1>3. c = d + P * q
  BY <1>1, <1>2
<1> QED
  BY <1>3 DEF Cong

\* A number may be reduced before it is scaled, and before it is added.
LEMMA Inside ==
  ASSUME NEW G \in Int, NEW u \in Int, NEW h \in Int
  PROVE  /\ u % P \in Int
         /\ (G * (u % P) + h) % P = (G * u + h) % P
         /\ (h + (u % P)) % P = (h + u) % P
<1>1. u % P \in Int /\ Cong(u % P, u)
  BY ModCong
<1>2. Cong(G * (u % P), G * u) /\ Cong(h + (u % P), h + u)
  BY <1>1, CongRefl, CongAdd, Zenon
<1>3. G * (u % P) \in Int /\ G * u \in Int /\ h + (u % P) \in Int /\ h + u \in Int
  BY <1>1
<1>4. Cong(G * (u % P) + h, G * u + h)
  BY <1>2, <1>3, CongRefl, CongAdd, Zenon
<1>5. G * (u % P) + h \in Int /\ G * u + h \in Int
  BY <1>3
<1> QED
  BY <1>1, <1>2, <1>3, <1>4, <1>5, CongMod

\* The current of an inductor through the history of the last step, and straight from
\* the two voltages; the same for a capacitor.
ThroughHistory(G, b, i, u, w) == (G * (w % P) + ((G * (u % P) + b * i) % P)) % P
Trapezoid(G, b, i, u, w) == (b * i + G * (w + u)) % P
ThroughCharge(G, i, u, w) == (G * w + ((-i - G * u) % P)) % P
Charge(G, i, u, w) == (G * (w - u) - i) % P

\* The two are the same number.
LEMMA InductorRule ==
  ASSUME NEW G \in Int, NEW b \in Int, NEW i \in Int, NEW u \in Int, NEW w \in Int
  PROVE  ThroughHistory(G, b, i, u, w) = Trapezoid(G, b, i, u, w)
<1> DEFINE s == G * u + b * i
           r == s % P
<1>1. s \in Int /\ b * i \in Int /\ G * w \in Int /\ G * w + s = b * i + G * (w + u)
  OBVIOUS
<1>2. (G * (u % P) + b * i) % P = r
  BY <1>1, Inside
<1> HIDE DEF s
<1>3. r \in Int
  BY <1>1, ModCong
<1>4. (G * w + r) % P = (G * w + s) % P
  BY <1>1, Inside
<1> HIDE DEF r
<1>5. (G * (w % P) + r) % P = (G * w + r) % P
  BY <1>3, Inside
<1> QED
  BY <1>1, <1>2, <1>4, <1>5, Zenon DEF ThroughHistory, Trapezoid

\* So are these.
LEMMA CapacitorRule ==
  ASSUME NEW G \in Int, NEW i \in Int, NEW u \in Int, NEW w \in Int
  PROVE  ThroughCharge(G, i, u, w) = Charge(G, i, u, w)
<1>1. -i - G * u \in Int /\ G * w \in Int
  OBVIOUS
<1>2. (G * w + ((-i - G * u) % P)) % P = (G * w + (-i - G * u)) % P
  BY <1>1, Inside
<1>3. G * w + (-i - G * u) = G * (w - u) - i
  OBVIOUS
<1> QED
  BY <1>2, <1>3, Zenon DEF ThroughCharge, Charge

\* The new history of an inductor by way of its current, and as the kernel computes it
\* in one go; the same for a capacitor.
ByCurrent(G, b, h, u) == (G * (u % P) + b * ((G * (u % P) + h) % P)) % P
InOneGo(G, b, h, u) == (G * u + b * (G * u + h)) % P
ByCharge(G, h, u) == (-((G * u + h) % P) - G * u) % P
ChargeInOneGo(G, h, u) == (-(G * u + h) - G * u) % P

\* The two are the same number.
LEMMA InductorKernel ==
  ASSUME NEW G \in Int, NEW b \in Int, NEW h \in Int, NEW u \in Int
  PROVE  ByCurrent(G, b, h, u) = InOneGo(G, b, h, u)
<1> DEFINE s == G * u + h
           t == b * (s % P)
<1>1. s \in Int /\ (G * (u % P) + h) % P = s % P
  BY Inside
<1> HIDE DEF s
<1>2. s % P \in Int /\ Cong(s % P, s)
  BY <1>1, ModCong
<1>3. t \in Int /\ b * s \in Int /\ Cong(t, b * s)
  <2>1. Cong(b, b)
    BY CongRefl
  <2>2. Cong(b * (s % P), b * s)
    BY <1>1, <1>2, <2>1, CongAdd
  <2> QED
    BY <1>1, <1>2, <2>2
<1> HIDE DEF t
<1>4. (G * (u % P) + t) % P = (G * u + t) % P
  BY <1>3, Inside
<1>5. G * u + t \in Int /\ G * u + b * s \in Int /\ (G * u + t) - (G * u + b * s) = t - b * s
  BY <1>3
<1>6. Cong(G * u + t, G * u + b * s)
  BY <1>3, <1>5, CongDiff
<1>7. (G * u + t) % P = (G * u + b * s) % P
  BY <1>5, <1>6, CongMod
<1> QED
  BY <1>1, <1>4, <1>7, Zenon DEF s, t, ByCurrent, InOneGo

\* So are these.
LEMMA CapacitorKernel ==
  ASSUME NEW G \in Int, NEW h \in Int, NEW u \in Int
  PROVE  ByCharge(G, h, u) = ChargeInOneGo(G, h, u)
<1> DEFINE s == G * u + h
           t == G * u
<1>1. s \in Int /\ t \in Int
  OBVIOUS
<1> HIDE DEF s, t
<1>2. s % P \in Int /\ Cong(s % P, s)
  BY <1>1, ModCong
<1>3. -(s % P) - t \in Int /\ -s - t \in Int /\ (-s - t) - (-(s % P) - t) = (s % P) - s
  BY <1>1, <1>2
<1>4. Cong(-s - t, -(s % P) - t)
  BY <1>1, <1>2, <1>3, CongDiff
<1>5. (-(s % P) - t) % P = (-s - t) % P
  BY <1>3, <1>4, CongMod
<1> QED
  BY <1>5, Zenon DEF s, t, ByCharge, ChargeInOneGo

-------------------------------------------------------------------------------
(* The steps of the network *)

\* Zero is a member of the field.
LEMMA ZeroField == 0 \in Field /\ Field \subseteq Int /\ 0 % P = 0
<1>1. 0 \in Field /\ Field \subseteq Int /\ 0 \in Int
  BY PrimeAssumption DEF Field
<1>2. 0 % P = 0
  BY PrimeAssumption
<1> QED
  BY <1>1, <1>2

\* A step of the kernel is one of the network, or leaves it alone.
LEMMA NetworkNext == KernelNext => Next \/ UNCHANGED vars
BY Zenon DEF KernelNext, Next, WriteFactors

\* What the other steps leave alone.
LEMMA OtherSteps ==
  ASSUME Next, ~Advance
  PROVE  UNCHANGED state /\ p' = p /\ (calling' = "none" => calling # "step" \/ at = "factor")
BY DEF Next, StepCalled, Factoring, Factored, Ended, vars, Return

\* The invariant of the network holds when it is built.
LEMMA InitNetwork ==
  ASSUME Init
  PROVE  NetworkInv
<1>1. /\ p \in Params /\ given = Assemble(p, 0) /\ A = given /\ k = 0 /\ at = "factor" /\ gate = 0
      /\ pivot = [i \in Idx |-> 0] /\ calling = "construct"
  BY DEF Init
<1>2. given \in Matrix
  BY <1>1, AssembleType
<1>3. pivot \in [Idx -> Idx]
  BY <1>1, SizeAssumption DEF Idx
<1>4. \A i, j \in Idx : given[Permuted(pivot, Identity, 0)[i]][j] = Rebuilt(given, 0, i)[j] % P
  BY <1>2, <1>3, BeginFactors
<1>5. 0 \in 0 .. N /\ \A i \in 0 .. 0 - 1 : FALSE
  BY SizeAssumption
<1>6. FactorInv
  BY <1>1, <1>2, <1>3, <1>4, <1>5, Zenon DEF FactorInv
<1>7. /\ v = [i \in Idx |-> 0] /\ source = Zero /\ iLf = Zero /\ iCf = Zero /\ iLgrid = Zero
      /\ hLf = Zero /\ hCf = Zero /\ hLgrid = Zero
  BY DEF Init
<1>8. v \in Vector /\ Zero \in PhaseField /\ source \in [Phase -> GridVoltage \cup {0}]
  BY <1>7, ZeroField DEF Zero, Vector, PhaseField
<1>9. ASSUME NEW G \in Int, NEW b \in Int PROVE (G * 0 + b * 0) % P = 0 /\ (-0 - G * 0) % P = 0
  <2>1. G * 0 + b * 0 = 0 /\ -0 - G * 0 = 0
    OBVIOUS
  <2> QED
    BY <2>1, ZeroField
<1>10. p.gLf \in Int /\ p.betaLf \in Int /\ p.gCf \in Int /\ p.gLgrid \in Int /\ p.betaLgrid \in Int
  BY <1>1, Conductances, Zenon
<1>11. \A n \in Phase : /\ (v[Inverter(n)] - v[Cap(n)]) % P = 0 /\ v[Cap(n)] = 0
                        /\ (v[Cap(n)] - v[Grid(n)]) % P = 0
  <2>1. ASSUME NEW n \in Phase PROVE v[Inverter(n)] = 0 /\ v[Cap(n)] = 0 /\ v[Grid(n)] = 0
    BY <1>7, Nodes
  <2>2. 0 - 0 = 0
    OBVIOUS
  <2> QED
    BY <2>1, <2>2, ZeroField, Zenon
<1>12. /\ hLf = InductorHistory(p.gLf, p.betaLf, iLf, [n \in Phase |-> (v[Inverter(n)] - v[Cap(n)]) % P])
       /\ hLgrid = InductorHistory(p.gLgrid, p.betaLgrid, iLgrid, [n \in Phase |-> (v[Cap(n)] - v[Grid(n)]) % P])
  BY <1>7, <1>9, <1>10, <1>11 DEF InductorHistory, Zero
<1>13. hCf = CapacitorHistory(p.gCf, iCf, [n \in Phase |-> v[Cap(n)]])
  BY <1>7, <1>9, <1>10, <1>11, Zenon DEF CapacitorHistory, Zero
<1> QED
  BY <1>1, <1>6, <1>7, <1>8, <1>12, <1>13, Zenon DEF NetworkInv

\* The voltages across the branches.
AcrossLf == [n \in Phase |-> (v[Inverter(n)] - v[Cap(n)]) % P]
AcrossCf == [n \in Phase |-> v[Cap(n)]]
AcrossLgrid == [n \in Phase |-> (v[Cap(n)] - v[Grid(n)]) % P]

\* They are members of the field.
LEMMA AcrossTypes ==
  ASSUME NEW x \in Vector
  PROVE  /\ [n \in Phase |-> (x[Inverter(n)] - x[Cap(n)]) % P] \in PhaseField
         /\ [n \in Phase |-> x[Cap(n)]] \in PhaseField
         /\ [n \in Phase |-> (x[Cap(n)] - x[Grid(n)]) % P] \in PhaseField
<1>1. ASSUME NEW n \in Phase
      PROVE  /\ x[Inverter(n)] \in Int /\ x[Cap(n)] \in Int /\ x[Grid(n)] \in Int /\ x[Cap(n)] \in Field
             /\ (x[Inverter(n)] - x[Cap(n)]) % P \in Field /\ (x[Cap(n)] - x[Grid(n)]) % P \in Field
  <2>1. x[Inverter(n)] \in Int /\ x[Cap(n)] \in Int /\ x[Grid(n)] \in Int /\ x[Cap(n)] \in Field
    BY Nodes, Entries
  <2>2. x[Inverter(n)] - x[Cap(n)] \in Int /\ x[Cap(n)] - x[Grid(n)] \in Int
    BY <2>1
  <2> QED
    BY <2>1, <2>2, ModCong, Zenon
<1> QED
  BY <1>1 DEF PhaseField

\* So are the history currents and the branch currents.
LEMMA HistoryTypes ==
  ASSUME NEW i \in [Phase -> Int], NEW u \in [Phase -> Int], NEW G \in Int, NEW b \in Int
  PROVE  /\ InductorHistory(G, b, i, u) \in PhaseField /\ CapacitorHistory(G, i, u) \in PhaseField
         /\ BranchCurrent(G, u, i) \in PhaseField
<1>1. ASSUME NEW n \in Phase
      PROVE  /\ (G * u[n] + b * i[n]) % P \in Field /\ (-i[n] - G * u[n]) % P \in Field
             /\ (G * u[n] + i[n]) % P \in Field
  <2>1. u[n] \in Int /\ i[n] \in Int
    OBVIOUS
  <2>2. G * u[n] + b * i[n] \in Int /\ -i[n] - G * u[n] \in Int /\ G * u[n] + i[n] \in Int
    BY <2>1
  <2> QED
    BY <2>2, ModCong
<1> QED
  BY <1>1 DEF InductorHistory, CapacitorHistory, BranchCurrent, PhaseField

\* Members of the field are integers.
LEMMA PhaseInts == \A x \in PhaseField : x \in [Phase -> Int]
BY ZeroField, Zenon DEF PhaseField

\* The types that the steps need.
LEMMA StateTypes ==
  ASSUME NetworkInv
  PROVE  /\ p \in Params /\ v \in Vector
         /\ iLf \in [Phase -> Int] /\ iCf \in [Phase -> Int] /\ iLgrid \in [Phase -> Int]
         /\ hLf = InductorHistory(p.gLf, p.betaLf, iLf, AcrossLf)
         /\ hCf = CapacitorHistory(p.gCf, iCf, AcrossCf)
         /\ hLgrid = InductorHistory(p.gLgrid, p.betaLgrid, iLgrid, AcrossLgrid)
         /\ hLf \in PhaseField /\ hCf \in PhaseField /\ hLgrid \in PhaseField
         /\ hLf \in [Phase -> Int] /\ hCf \in [Phase -> Int] /\ hLgrid \in [Phase -> Int]
         /\ source \in [Phase -> Int]
<1>1. /\ p \in Params /\ v \in Vector /\ iLf \in PhaseField /\ iCf \in PhaseField /\ iLgrid \in PhaseField
      /\ source \in [Phase -> GridVoltage \cup {0}]
  BY DEF NetworkInv
<1>2. iLf \in [Phase -> Int] /\ iCf \in [Phase -> Int] /\ iLgrid \in [Phase -> Int]
  BY <1>1, ZeroField, Zenon DEF PhaseField
<1>3. /\ hLf = InductorHistory(p.gLf, p.betaLf, iLf, AcrossLf)
      /\ hCf = CapacitorHistory(p.gCf, iCf, AcrossCf)
      /\ hLgrid = InductorHistory(p.gLgrid, p.betaLgrid, iLgrid, AcrossLgrid)
  BY DEF NetworkInv, AcrossLf, AcrossCf, AcrossLgrid
<1>4. p.gLf \in Int /\ p.betaLf \in Int /\ p.gCf \in Int /\ p.gLgrid \in Int /\ p.betaLgrid \in Int
  BY <1>1, Conductances
<1>5. AcrossLf \in [Phase -> Int] /\ AcrossCf \in [Phase -> Int] /\ AcrossLgrid \in [Phase -> Int]
  BY <1>1, AcrossTypes, PhaseInts, Zenon DEF AcrossLf, AcrossCf, AcrossLgrid
<1>6. hLf \in PhaseField /\ hCf \in PhaseField /\ hLgrid \in PhaseField
  BY <1>2, <1>3, <1>4, <1>5, HistoryTypes, Zenon
<1>7. source \in [Phase -> Int]
  <2>1. GridVoltage \cup {0} \subseteq Int
    BY ParamsAssumption
  <2> QED
    BY <1>1, <2>1
<1> QED
  BY <1>1, <1>2, <1>3, <1>6, <1>7, PhaseInts, Zenon


\* The right side of the system is a vector of the field.
LEMMA InjectedType ==
  ASSUME NetworkInv
  PROVE  Injected \in Vector
<1>1. /\ hLf \in [Phase -> Int] /\ hCf \in [Phase -> Int] /\ hLgrid \in [Phase -> Int]
      /\ source \in [Phase -> Int] /\ p \in Params
  BY StateTypes
<1>2. VDc \in Int
  BY ParamsAssumption
<1>3. ASSUME NEW i \in Idx PROVE Injected[i] \in Field
  <2> DEFINE n == i % Phases
  <2>1. n \in Phase
    BY EveryNode
  <2>2. Injected[i] = (IF i = Inverter(n) THEN GUpper(p, gate, n) * VDc - hLf[n]
                       ELSE IF i = Cap(n) THEN hLf[n] - hCf[n] - hLgrid[n]
                       ELSE hLgrid[n] + p.gVs * source[n]) % P
    BY DEF Injected
  <2> HIDE DEF n
  <2>3. hLf[n] \in Int /\ hCf[n] \in Int /\ hLgrid[n] \in Int /\ source[n] \in Int /\ GUpper(p, gate, n) \in Int /\ p.gVs \in Int
    BY <1>1, <2>1, Conductances
  <2>4. /\ GUpper(p, gate, n) * VDc - hLf[n] \in Int /\ hLf[n] - hCf[n] - hLgrid[n] \in Int
        /\ hLgrid[n] + p.gVs * source[n] \in Int
    BY <1>2, <2>3
  <2> DEFINE a == IF i = Inverter(n) THEN GUpper(p, gate, n) * VDc - hLf[n]
                  ELSE IF i = Cap(n) THEN hLf[n] - hCf[n] - hLgrid[n]
                  ELSE hLgrid[n] + p.gVs * source[n]
  <2>5. a \in Int
    BY <2>4, Zenon
  <2>6. Injected[i] = a % P
    BY <2>2, Zenon
  <2> HIDE DEF a
  <2> QED
    BY <2>5, <2>6, ModCong
<1> QED
  BY <1>3, Zenon DEF Injected, Vector

\* The parts of Advance.
LEMMA AdvanceIs ==
  ASSUME NetworkInv, Advance
  PROVE  /\ calling = "step" /\ at = "done"
         /\ v' = Solve(A, pivot, Injected) /\ v' \in Vector
         /\ \A i \in Idx : Cong(Dot(given[i], v'), Injected[i])
         /\ iLf' = BranchCurrent(p.gLf, AcrossLf', hLf) /\ iLf' \in PhaseField
         /\ iCf' = BranchCurrent(p.gCf, AcrossCf', hCf) /\ iCf' \in PhaseField
         /\ iLgrid' = BranchCurrent(p.gLgrid, AcrossLgrid', hLgrid) /\ iLgrid' \in PhaseField
         /\ hLf' = InductorHistory(p.gLf, p.betaLf, iLf', AcrossLf')
         /\ hCf' = CapacitorHistory(p.gCf, iCf', AcrossCf')
         /\ hLgrid' = InductorHistory(p.gLgrid, p.betaLgrid, iLgrid', AcrossLgrid')
         /\ AcrossLf' \in [Phase -> Int] /\ AcrossCf' \in [Phase -> Int] /\ AcrossLgrid' \in [Phase -> Int]
         /\ calling' = "none" /\ UNCHANGED <<luVars, p, gateFactored, gate, source>>
<1>1. calling = "step" /\ at = "done" /\ v' = Solve(A, pivot, Injected)
  BY DEF Advance
<1>2. v' \in Vector /\ \A i \in Idx : Cong(Dot(given[i], v'), Injected[i])
  BY <1>1, InjectedType, FactorInvSolves, Zenon DEF NetworkInv
<1>3. /\ iLf' = BranchCurrent(p.gLf, AcrossLf', hLf)
      /\ iCf' = BranchCurrent(p.gCf, AcrossCf', hCf)
      /\ iLgrid' = BranchCurrent(p.gLgrid, AcrossLgrid', hLgrid)
      /\ hLf' = InductorHistory(p.gLf, p.betaLf, iLf', AcrossLf')
      /\ hCf' = CapacitorHistory(p.gCf, iCf', AcrossCf')
      /\ hLgrid' = InductorHistory(p.gLgrid, p.betaLgrid, iLgrid', AcrossLgrid')
      /\ calling' = "none" /\ UNCHANGED <<luVars, p, gateFactored, gate, source>>
  BY Zenon DEF Advance, AcrossLf, AcrossCf, AcrossLgrid
<1>4. AcrossLf' \in [Phase -> Int] /\ AcrossCf' \in [Phase -> Int] /\ AcrossLgrid' \in [Phase -> Int]
  BY <1>2, AcrossTypes, PhaseInts, Zenon DEF AcrossLf, AcrossCf, AcrossLgrid
<1>5. /\ hLf \in [Phase -> Int] /\ hCf \in [Phase -> Int] /\ hLgrid \in [Phase -> Int]
      /\ p.gLf \in Int /\ p.gCf \in Int /\ p.gLgrid \in Int
  BY StateTypes, Conductances
<1>6. iLf' \in PhaseField /\ iCf' \in PhaseField /\ iLgrid' \in PhaseField
  BY <1>3, <1>4, <1>5, HistoryTypes, Zenon
<1> QED
  BY <1>1, <1>2, <1>3, <1>4, <1>6, ZenonT(60)

\* Every step of the network keeps its invariant.
LEMMA NextNetwork ==
  ASSUME NetworkInv, Next
  PROVE  NetworkInv'
<1>0. /\ FactorInv /\ p \in Params /\ calling \in {"construct", "none", "step"}
      /\ source \in [Phase -> GridVoltage \cup {0}] /\ given = Assemble(p, gate)
      /\ at = "done" => gateFactored = gate
      /\ calling = "none" => at = "done"
  BY DEF NetworkInv
<1>1. ASSUME NEW g \in Gate, NEW src \in [Phase -> GridVoltage], StepCalled(g, src) PROVE NetworkInv'
  <2>1. calling' = "step" /\ gate' = g /\ source' = src /\ UNCHANGED <<p, gateFactored, state>> /\ at = "done"
    BY <1>0, <1>1, Zenon DEF StepCalled
  <2>2. source' \in [Phase -> GridVoltage \cup {0}]
    BY <2>1, Zenon
  <2>3. FactorInv' /\ given' = Assemble(p, g) /\ (at' = "done" => gateFactored = g)
    <3>1. CASE Stale(g)
      <4>1. Begin(Assemble(p, g)) /\ Assemble(p, g) \in Matrix /\ pivot \in [Idx -> Idx]
        BY <1>0, <1>1, <3>1, AssembleType, Zenon DEF StepCalled, FactorInv
      <4> QED
        BY <4>1, BeginInv, Zenon DEF Begin
    <3>2. CASE ~Stale(g)
      <4>1. UNCHANGED luVars /\ g = gate /\ gateFactored = g
        BY <1>0, <1>1, <2>1, <3>2, Zenon DEF StepCalled, Stale
      <4> QED
        BY <1>0, <4>1, Zenon DEF luVars, FactorInv
    <3> QED
      BY <3>1, <3>2, Zenon
  <2> QED
    BY <2>1, <2>2, <2>3, Zenon DEF NetworkInv, state
<1>2. ASSUME Factoring PROVE NetworkInv'
  <2>1. FactorInv' /\ given' = given /\ at' # "done"
    <3>1. CASE Column
      BY <1>0, <3>1, ColumnInv, Zenon DEF Column
    <3>2. CASE Singular
      BY <1>0, <3>2, SingularInv, Zenon DEF Singular
    <3> QED
      BY <1>2, <3>1, <3>2, Zenon DEF Factoring
  <2>2. UNCHANGED <<p, gateFactored, calling, gate, source, state>> /\ at = "factor"
    BY <1>2 DEF Factoring, Column, Singular
  <2> QED
    BY <1>0, <2>1, <2>2, Zenon DEF NetworkInv, state
<1>3. ASSUME Factored PROVE NetworkInv'
  <2>1. FactorInv' /\ given' = given /\ at' = "done" /\ gateFactored' = gate
    BY <1>0, <1>3, ReturnInv, Zenon DEF Factored, Return
  <2>2. UNCHANGED <<p, gate, source, state>> /\ calling' \in {"construct", "none", "step"}
    BY <1>0, <1>3, Zenon DEF Factored
  <2> QED
    BY <2>1, <2>2, Zenon DEF NetworkInv, state
<1>4. ASSUME Advance PROVE NetworkInv'
  <2>1. /\ v' \in Vector /\ iLf' \in PhaseField /\ iCf' \in PhaseField /\ iLgrid' \in PhaseField
        /\ hLf' = InductorHistory(p.gLf, p.betaLf, iLf', AcrossLf')
        /\ hCf' = CapacitorHistory(p.gCf, iCf', AcrossCf')
        /\ hLgrid' = InductorHistory(p.gLgrid, p.betaLgrid, iLgrid', AcrossLgrid')
        /\ calling' = "none" /\ UNCHANGED <<luVars, p, gateFactored, gate, source>> /\ at = "done"
    BY <1>4, AdvanceIs, Zenon
  <2>2. FactorInv'
    BY <1>0, <2>1, Zenon DEF luVars, FactorInv
  <2> QED
    BY <1>0, <2>1, <2>2, Zenon DEF NetworkInv, luVars, AcrossLf, AcrossCf, AcrossLgrid
<1>5. ASSUME Ended PROVE NetworkInv'
  BY <1>5, Zenon DEF Ended, vars, luVars, state, NetworkInv, FactorInv
<1> QED
  BY <1>1, <1>2, <1>3, <1>4, <1>5, Zenon DEF Next


-------------------------------------------------------------------------------
(* Theorems *)

\* Differences of integers are integers.
LEMMA IntDifference == \A a, b \in Int : a - b \in Int
OBVIOUS

\* The currents that Advance computes, from the voltages and currents of the last step.
LEMMA AdvanceTrapezoidal ==
  ASSUME NetworkInv, Advance, NEW n \in Phase
  PROVE  /\ iLf'[n] = (p.betaLf * iLf[n]
                         + p.gLf * ((v'[Inverter(n)] - v'[Cap(n)]) + (v[Inverter(n)] - v[Cap(n)]))) % P
         /\ iCf'[n] = (p.gCf * (v'[Cap(n)] - v[Cap(n)]) - iCf[n]) % P
         /\ iLgrid'[n] = (p.betaLgrid * iLgrid[n]
                            + p.gLgrid * ((v'[Cap(n)] - v'[Grid(n)]) + (v[Cap(n)] - v[Grid(n)]))) % P
<1>1. /\ p.gLf \in Int /\ p.betaLf \in Int /\ p.gCf \in Int /\ p.gLgrid \in Int /\ p.betaLgrid \in Int
      /\ iLf[n] \in Int /\ iCf[n] \in Int /\ iLgrid[n] \in Int /\ v \in Vector
  BY StateTypes, Conductances, Zenon
<1>2. v' \in Vector
  BY AdvanceIs, Zenon
<1>3. /\ v[Inverter(n)] \in Int /\ v[Cap(n)] \in Int /\ v[Grid(n)] \in Int
      /\ v'[Inverter(n)] \in Int /\ v'[Cap(n)] \in Int /\ v'[Grid(n)] \in Int
  BY <1>1, <1>2, Nodes, Entries, Zenon
<1>4. /\ hLf[n] = (p.gLf * ((v[Inverter(n)] - v[Cap(n)]) % P) + p.betaLf * iLf[n]) % P
      /\ hCf[n] = (-iCf[n] - p.gCf * v[Cap(n)]) % P
      /\ hLgrid[n] = (p.gLgrid * ((v[Cap(n)] - v[Grid(n)]) % P) + p.betaLgrid * iLgrid[n]) % P
  BY StateTypes DEF InductorHistory, CapacitorHistory, AcrossLf, AcrossCf, AcrossLgrid
<1>5. /\ iLf'[n] = (p.gLf * ((v'[Inverter(n)] - v'[Cap(n)]) % P) + hLf[n]) % P
      /\ iCf'[n] = (p.gCf * v'[Cap(n)] + hCf[n]) % P
      /\ iLgrid'[n] = (p.gLgrid * ((v'[Cap(n)] - v'[Grid(n)]) % P) + hLgrid[n]) % P
  BY AdvanceIs, Zenon DEF BranchCurrent, AcrossLf, AcrossCf, AcrossLgrid
<1>6. /\ v[Inverter(n)] - v[Cap(n)] \in Int /\ v'[Inverter(n)] - v'[Cap(n)] \in Int
      /\ v[Cap(n)] - v[Grid(n)] \in Int /\ v'[Cap(n)] - v'[Grid(n)] \in Int
  BY <1>3, IntDifference, Zenon
<1>7. iLf'[n] = (p.betaLf * iLf[n]
                   + p.gLf * ((v'[Inverter(n)] - v'[Cap(n)]) + (v[Inverter(n)] - v[Cap(n)]))) % P
  <2> DEFINE u == v[Inverter(n)] - v[Cap(n)]
             w == v'[Inverter(n)] - v'[Cap(n)]
  <2>0. u \in Int /\ w \in Int /\ p.gLf \in Int /\ p.betaLf \in Int /\ iLf[n] \in Int
    BY <1>1, <1>6, Zenon
  <2>1. iLf'[n] = ThroughHistory(p.gLf, p.betaLf, iLf[n], u, w)
    BY <1>4, <1>5, Zenon DEF ThroughHistory
  <2> HIDE DEF u, w
  <2>2. ThroughHistory(p.gLf, p.betaLf, iLf[n], u, w) = Trapezoid(p.gLf, p.betaLf, iLf[n], u, w)
    BY <2>0, InductorRule
  <2> QED
    BY <2>1, <2>2, ZenonT(60) DEF Trapezoid, u, w
<1>8. iLgrid'[n] = (p.betaLgrid * iLgrid[n]
                      + p.gLgrid * ((v'[Cap(n)] - v'[Grid(n)]) + (v[Cap(n)] - v[Grid(n)]))) % P
  <2> DEFINE u == v[Cap(n)] - v[Grid(n)]
             w == v'[Cap(n)] - v'[Grid(n)]
  <2>0. u \in Int /\ w \in Int /\ p.gLgrid \in Int /\ p.betaLgrid \in Int /\ iLgrid[n] \in Int
    BY <1>1, <1>6, Zenon
  <2>1. iLgrid'[n] = ThroughHistory(p.gLgrid, p.betaLgrid, iLgrid[n], u, w)
    BY <1>4, <1>5, Zenon DEF ThroughHistory
  <2> HIDE DEF u, w
  <2>2. ThroughHistory(p.gLgrid, p.betaLgrid, iLgrid[n], u, w) = Trapezoid(p.gLgrid, p.betaLgrid, iLgrid[n], u, w)
    BY <2>0, InductorRule
  <2> QED
    BY <2>1, <2>2, Zenon DEF Trapezoid, u, w
<1>9. iCf'[n] = (p.gCf * (v'[Cap(n)] - v[Cap(n)]) - iCf[n]) % P
  <2>1. iCf'[n] = ThroughCharge(p.gCf, iCf[n], v[Cap(n)], v'[Cap(n)])
    BY <1>4, <1>5, Zenon DEF ThroughCharge
  <2>2. ThroughCharge(p.gCf, iCf[n], v[Cap(n)], v'[Cap(n)])
          = Charge(p.gCf, iCf[n], v[Cap(n)], v'[Cap(n)])
    BY <1>1, <1>3, <1>6, CapacitorRule, SMTT(30)
  <2> QED
    BY <2>1, <2>2, Zenon DEF Charge
<1> QED
  BY <1>7, <1>8, <1>9, Zenon

\* In every reachable state the matrix given to lu_factor() is that of the gate signals of
\* the last step(), the factors made so far multiply to it, and the history currents are
\* those that the present branch currents and node voltages give.
THEOREM NetworkInvariance == Spec => []NetworkInv
<1>1. Init => NetworkInv
  BY InitNetwork
<1>2. NetworkInv /\ [Next]_vars => NetworkInv'
  <2> SUFFICES ASSUME NetworkInv, [Next]_vars PROVE NetworkInv'
    OBVIOUS
  <2>1. CASE Next
    BY <2>1, NextNetwork, Zenon
  <2>2. CASE UNCHANGED vars
    BY <2>2, Zenon DEF vars, luVars, state, NetworkInv, FactorInv
  <2> QED
    BY <2>1, <2>2, Zenon
<1> QED
  BY <1>1, <1>2, PTL DEF Spec

\* Whenever lu_factor() has returned, lu_solve() with its factors and pivots solves the
\* given system for every right side: for every number of nodes, every field, every
\* parameters and every sequence of calls.
THEOREM SolvesEverySystem == Spec => []SolvesAll
<1>1. NetworkInv => SolvesAll
  BY FactorInvSolvesAll, Zenon DEF NetworkInv
<1> QED
  BY <1>1, NetworkInvariance, PTL

\* In particular lu_solve() inverts the matrix given to lu_factor().
THEOREM FactorsSolve == Spec => []SolvesGiven
<1>1. NetworkInv => SolvesGiven
  BY FactorInvSolvesGiven, Zenon DEF NetworkInv
<1> QED
  BY <1>1, NetworkInvariance, PTL

\* lu_factor() throws for every singular matrix, and otherwise only for one that has a
\* column which the rows chosen before it leave with nothing as large as the smallest
\* pivot.
THEOREM ThrowsWhenSmall == Spec => []ThrowsOnSmallPivot
<1>1. NetworkInv => ThrowsOnSmallPivot
  BY FactorInvThrows DEF NetworkInv
<1> QED
  BY <1>1, NetworkInvariance, PTL

\* Every step() advances each inductor and capacitor by the trapezoidal rule, although the
\* code only ever computes with history currents.
THEOREM FollowsTrapezoidalRule == Spec => TrapezoidalRule
<1> DEFINE uLf(n) == (v'[Inverter(n)] - v'[Cap(n)]) + (v[Inverter(n)] - v[Cap(n)])
           uLgrid(n) == (v'[Cap(n)] - v'[Grid(n)]) + (v[Cap(n)] - v[Grid(n)])
           Rule == \A n \in Phase :
                     /\ iLf'[n] = (p.betaLf * iLf[n] + p.gLf * uLf(n)) % P
                     /\ iCf'[n] = (p.gCf * (v'[Cap(n)] - v[Cap(n)]) - iCf[n]) % P
                     /\ iLgrid'[n] = (p.betaLgrid * iLgrid[n] + p.gLgrid * uLgrid(n)) % P
<1>1. NetworkInv /\ [Next]_vars => [Rule]_state
  <2> SUFFICES ASSUME NetworkInv, [Next]_vars PROVE Rule \/ UNCHANGED state
    BY ZenonT(60)
  <2>1. CASE Advance
    BY <2>1, AdvanceTrapezoidal, Zenon
  <2>2. CASE ~Advance /\ Next
    BY <2>2, OtherSteps, Zenon
  <2>3. CASE UNCHANGED vars
    BY <2>3, Zenon DEF vars
  <2> QED
    BY <2>1, <2>2, <2>3, Zenon
<1>2. Spec => [][Rule]_state
  <2> HIDE DEF Rule
  <2> QED
    BY <1>1, NetworkInvariance, PTL DEF Spec
<1> QED
  BY <1>2 DEF TrapezoidalRule

-------------------------------------------------------------------------------
(* Kirchhoff's current law *)

\* The row of each node, solved by Advance.
LEMMA AdvanceRows ==
  ASSUME NetworkInv, Advance, NEW n \in Phase, NEW i \in NodesOf(n)
  PROVE  Cong(PhaseStamp(p, gate, n, i, Inverter(n)) * v'[Inverter(n)]
                + PhaseStamp(p, gate, n, i, Cap(n)) * v'[Cap(n)]
                + PhaseStamp(p, gate, n, i, Grid(n)) * v'[Grid(n)], Injected[i])
<1> DEFINE s == PhaseStamp(p, gate, n, i, Inverter(n)) * v'[Inverter(n)]
                  + PhaseStamp(p, gate, n, i, Cap(n)) * v'[Cap(n)]
                  + PhaseStamp(p, gate, n, i, Grid(n)) * v'[Grid(n)]
           d == Dot(Assemble(p, gate)[i], v')
<1>1. p \in Params /\ given = Assemble(p, gate) /\ i \in Idx /\ v' \in Vector
  BY AdvanceIs, Nodes, Zenon DEF NetworkInv, NodesOf
<1>2. Cong(d, s) /\ Cong(d, Injected[i])
  BY <1>1, AdvanceIs, AssembleDot, Zenon
<1>3. Injected[i] \in Int
  BY <1>1, InjectedType, Entries, Zenon
<1>4. s \in Int
  <2>1. /\ PhaseStamp(p, gate, n, i, Inverter(n)) \in Int /\ PhaseStamp(p, gate, n, i, Cap(n)) \in Int
        /\ PhaseStamp(p, gate, n, i, Grid(n)) \in Int
    BY <1>1, PhaseStampType, Zenon
  <2>2. v'[Inverter(n)] \in Int /\ v'[Cap(n)] \in Int /\ v'[Grid(n)] \in Int
    BY <1>1, Nodes, Entries, Zenon
  <2> QED
    BY <2>1, <2>2
<1>5. d \in Int
  <2>1. Assemble(p, gate)[i] \in [Idx -> Int] /\ v' \in [Idx -> Int]
    BY <1>1, AssembleType, Entries, Zenon DEF Matrix, Vector
  <2> QED
    BY <2>1, DotType
<1> HIDE DEF s, d
<1>6. Cong(s, d)
  BY <1>2, <1>4, <1>5, CongSym, Zenon
<1>7. Cong(s, Injected[i])
  BY <1>2, <1>3, <1>4, <1>5, <1>6, CongTrans, ZenonT(60)
<1> QED
  BY <1>7 DEF s

\* What is injected at the nodes of a phase.
LEMMA InjectedIs ==
  ASSUME NEW n \in Phase
  PROVE  /\ Injected[Inverter(n)] = (GUpper(p, gate, n) * VDc - hLf[n]) % P
         /\ Injected[Cap(n)] = (hLf[n] - hCf[n] - hLgrid[n]) % P
         /\ Injected[Grid(n)] = (hLgrid[n] + p.gVs * source[n]) % P
BY Nodes DEF Injected

\* The currents balance at the three nodes of a phase.
LEMMA AdvanceBalances ==
  ASSUME NetworkInv, Advance, NEW n \in Phase
  PROVE  /\ iLf'[n] = (GUpper(p, gate, n) * (VDc - v'[Inverter(n)]) - GLower(p, gate, n) * v'[Inverter(n)]) % P
         /\ iLf'[n] = (iCf'[n] + iLgrid'[n]) % P
         /\ iLgrid'[n] = (p.gVs * (v'[Grid(n)] - source[n])) % P
<1> DEFINE G == p.gLf
           C == p.gCf
           H == p.gLgrid
           S == p.gVs
           U == GUpper(p, gate, n)
           L == GLower(p, gate, n)
           a == v'[Inverter(n)]
           b == v'[Cap(n)]
           c == v'[Grid(n)]
           f == hLf[n]
           h == hCf[n]
           g == hLgrid[n]
           s == source[n]
           x == G * (a - b) + f
           y == C * b + h
           z == H * (b - c) + g
<1>1. /\ G \in Int /\ C \in Int /\ H \in Int /\ S \in Int /\ U \in Int /\ L \in Int
      /\ f \in Int /\ h \in Int /\ g \in Int /\ s \in Int
  BY StateTypes, Conductances
<1>2. a \in Int /\ b \in Int /\ c \in Int
  BY AdvanceIs, Nodes, Entries, Zenon
<1>3. VDc \in Int
  BY ParamsAssumption
<1>4. /\ Cong((G + (U + L)) * a + (-G) * b + 0 * c, (U * VDc - f) % P)
      /\ Cong((-G) * a + (G + C + H) * b + (-H) * c, (f - h - g) % P)
      /\ Cong(0 * a + (-H) * b + (H + S) * c, (g + S * s) % P)
  <2>1. p \in Params /\ Inverter(n) \in NodesOf(n) /\ Cap(n) \in NodesOf(n) /\ Grid(n) \in NodesOf(n)
    BY Zenon DEF NetworkInv, NodesOf
  <2> QED
    BY <2>1, AdvanceRows, PhaseEntries, InjectedIs, ZenonT(60)
<1>5. /\ iLf'[n] = (G * ((a - b) % P) + f) % P
      /\ iCf'[n] = y % P
      /\ iLgrid'[n] = (H * ((b - c) % P) + g) % P
  BY AdvanceIs, Zenon DEF BranchCurrent, AcrossLf, AcrossCf, AcrossLgrid
<1> HIDE DEF G, C, H, S, U, L, a, b, c, f, h, g, s
<1>6. x \in Int /\ y \in Int /\ z \in Int /\ a - b \in Int /\ b - c \in Int
  BY <1>1, <1>2
<1>7. iLf'[n] = x % P /\ iLgrid'[n] = z % P
  <2> DEFINE d == a - b
             e == b - c
  <2>1. x = G * d + f /\ z = H * e + g
    BY Zenon
  <2>2. iLf'[n] = (G * (d % P) + f) % P /\ iLgrid'[n] = (H * (e % P) + g) % P
    BY <1>5, Zenon
  <2>3. d \in Int /\ e \in Int
    BY <1>6, Zenon
  <2> HIDE DEF d, e, x, z
  <2>4. (G * (d % P) + f) % P = (G * d + f) % P /\ (H * (e % P) + g) % P = (H * e + g) % P
    BY <1>1, <2>3, Inside
  <2> QED
    BY <2>1, <2>2, <2>4, Zenon
<1>8. Cong(x, U * (VDc - a) - L * a)
  <2> DEFINE l == (G + (U + L)) * a + (-G) * b + 0 * c
             r == U * VDc - f
             e == U * (VDc - a) - L * a
  <2>1. l \in Int /\ r \in Int /\ e \in Int /\ x - e = l - r
    BY <1>1, <1>2, <1>3
  <2>2. Cong(l, r % P)
    BY <1>4, Zenon
  <2> HIDE DEF l, r, e, x
  <2>3. Cong(l, r)
    BY <2>1, <2>2, ModCong, CongTrans, Zenon
  <2>4. Cong(x, e)
    BY <1>6, <2>1, <2>3, CongDiff, Zenon
  <2> QED
    BY <2>4, Zenon DEF e
<1>9. Cong(x, y + z)
  <2> DEFINE l == (-G) * a + (G + C + H) * b + (-H) * c
             r == f - h - g
             e == y + z
  <2>1. l \in Int /\ r \in Int /\ e \in Int /\ x - e = r - l
    BY <1>1, <1>2
  <2>2. Cong(l, r % P)
    BY <1>4, Zenon
  <2> HIDE DEF l, r, e, x
  <2>3. Cong(r, l)
    BY <2>1, <2>2, ModCong, CongTrans, CongSym, Zenon
  <2>4. Cong(x, e)
    BY <1>6, <2>1, <2>3, CongDiff, Zenon
  <2> QED
    BY <2>4, Zenon DEF e
<1>10. Cong(z, S * (c - s))
  <2> DEFINE l == 0 * a + (-H) * b + (H + S) * c
             r == g + S * s
             e == S * (c - s)
  <2>1. l \in Int /\ r \in Int /\ e \in Int /\ z - e = r - l
    BY <1>1, <1>2
  <2>2. Cong(l, r % P)
    BY <1>4, Zenon
  <2> HIDE DEF l, r, e, z
  <2>3. Cong(r, l)
    BY <2>1, <2>2, ModCong, CongTrans, CongSym, Zenon
  <2>4. Cong(z, e)
    BY <1>6, <2>1, <2>3, CongDiff, Zenon
  <2> QED
    BY <2>4, Zenon DEF e
<1>11. U * (VDc - a) - L * a \in Int /\ S * (c - s) \in Int /\ y + z \in Int
  BY <1>1, <1>2, <1>3, <1>6, SMTT(30)
<1> HIDE DEF x, y, z
<1>12. x % P = (U * (VDc - a) - L * a) % P /\ x % P = (y + z) % P /\ z % P = (S * (c - s)) % P
  BY <1>6, <1>8, <1>9, <1>10, <1>11, CongMod
<1>13. (y + z) % P = ((y % P) + (z % P)) % P
  <2>1. y % P \in Int /\ z % P \in Int
    BY <1>6, ModCong, Zenon
  <2>2. ((y % P) + (z % P)) % P = ((y % P) + z) % P /\ (z + (y % P)) % P = (z + y) % P
    BY <1>6, <2>1, Inside, Zenon
  <2>3. (y % P) + z = z + (y % P) /\ z + y = y + z
    BY <1>6, <2>1
  <2> QED
    BY <2>2, <2>3, Zenon
<1>14. iLf'[n] = (iCf'[n] + iLgrid'[n]) % P
  BY <1>5, <1>7, <1>12, <1>13, ZenonT(60)
<1> QED
  BY <1>7, <1>12, <1>14, ZenonT(60) DEF G, C, H, S, U, L, a, b, c, f, h, g, s

\* Only Advance ends a call of step().
LEMMA StepEnds ==
  ASSUME Next, calling = "step", calling' = "none"
  PROVE  Advance
BY Zenon DEF Next, StepCalled, Factoring, Factored, Ended, vars

\* After every step() Kirchhoff's current law holds at every node for the gates and the
\* source of that step, through every re-factorisation that the gates cause.
THEOREM ObeysCurrentLaw == Spec => CurrentsBalance
<1> DEFINE Balance ==
      calling = "step" /\ calling' = "none" => \A n \in Phase :
        /\ iLf'[n] = (GUpper(p, gate, n) * (VDc - v'[Inverter(n)]) - GLower(p, gate, n) * v'[Inverter(n)]) % P
        /\ iLf'[n] = (iCf'[n] + iLgrid'[n]) % P
        /\ iLgrid'[n] = (p.gVs * (v'[Grid(n)] - source[n])) % P
<1>1. NetworkInv /\ [Next]_vars => [Balance]_vars
  BY StepEnds, AdvanceBalances, Zenon
<1>2. Spec => [][Balance]_vars
  <2> HIDE DEF Balance
  <2> QED
    BY <1>1, NetworkInvariance, PTL DEF Spec
<1> QED
  BY <1>2, Zenon DEF CurrentsBalance

-------------------------------------------------------------------------------
(* The kernel *)

\* norton_update() computes the right side that the network computes.
LEMMA NortonIs ==
  ASSUME SameState
  PROVE  norton_update(sHist, gate, source, p) = Injected
<1>1. ASSUME NEW i \in Idx PROVE norton_update(sHist, gate, source, p)[i] = Injected[i]
  <2>1. PICK n \in Phase : i % Phases = n /\ (i = Inverter(n) \/ i = Cap(n) \/ i = Grid(n))
    BY EveryNode, Zenon
  <2>2. Inverter(n) # Cap(n) /\ Inverter(n) # Grid(n) /\ Cap(n) # Grid(n)
    BY Nodes, Zenon
  <2>3. sHist[Lf(n)] = hLf[n] /\ sHist[Cf(n)] = hCf[n] /\ sHist[Lgrid(n)] = hLgrid[n]
    BY Zenon DEF SameState
  <2> QED
    BY <2>1, <2>2, <2>3, Zenon DEF norton_update, Injected
<1> QED
  BY <1>1, Zenon DEF norton_update, Injected

\* Gathering by the rows is the same as making the exchanges.
LEMMA LuSolveIs ==
  ASSUME NEW b \in Vector, pivot \in [Idx -> Idx]
  PROVE  lu_solve(A, RowOf, b) = Solve(A, pivot, b)
<1>1. N \in 0 .. N /\ b = [i \in Idx |-> b[i]]
  BY SizeAssumption DEF Vector
<1>2. \A i \in Idx : Permuted(pivot, b, N)[i] = b[RowOf[i]]
  BY <1>1, PermutedGathers DEF RowOf
<1>3. Permuted(pivot, b, N) \in [Idx -> Field]
  BY <1>1, PermutedType, Zenon DEF Vector
<1>4. Permuted(pivot, b, N) = [i \in Idx |-> b[RowOf[i]]]
  BY <1>2, <1>3, Zenon
<1> QED
  BY <1>4, Zenon DEF lu_solve, Solve

\* What update_history() computes for each branch.
LEMMA NewHistories ==
  ASSUME NEW n \in Phase, NEW x, NEW h, NEW q
  PROVE  /\ update_history(x, h, q)[Lf(n)]
              = InOneGo(q.gLf, q.betaLf, h[Lf(n)], x[Inverter(n)] - x[Cap(n)])
         /\ update_history(x, h, q)[Cf(n)] = ChargeInOneGo(q.gCf, h[Cf(n)], x[Cap(n)])
         /\ update_history(x, h, q)[Lgrid(n)]
              = InOneGo(q.gLgrid, q.betaLgrid, h[Lgrid(n)], x[Cap(n)] - x[Grid(n)])
<1>1. Lf(n) = Inverter(n) /\ Cf(n) = Cap(n) /\ Lgrid(n) = Grid(n)
  BY Zenon DEF Lf, Cf, Lgrid, Inverter, Cap, Grid
<1>2. /\ Lf(n) \in Idx /\ Cf(n) \in Idx /\ Lgrid(n) \in Idx
      /\ Lf(n) # Cf(n) /\ Lf(n) # Lgrid(n) /\ Cf(n) # Lgrid(n)
      /\ Lf(n) % Phases = n /\ Cf(n) % Phases = n /\ Lgrid(n) % Phases = n
  BY <1>1, Nodes, Zenon
<1>3. update_history(x, h, q)[Lf(n)]
        = InOneGo(q.gLf, q.betaLf, h[Lf(n)], x[Inverter(n)] - x[Cap(n)])
  BY <1>2, Zenon DEF update_history, InOneGo
<1>4. update_history(x, h, q)[Cf(n)] = ChargeInOneGo(q.gCf, h[Cf(n)], x[Cap(n)])
  BY <1>2, Zenon DEF update_history, ChargeInOneGo
<1>5. update_history(x, h, q)[Lgrid(n)]
        = InOneGo(q.gLgrid, q.betaLgrid, h[Lgrid(n)], x[Cap(n)] - x[Grid(n)])
  BY <1>2 DEF update_history, InOneGo
<1> QED
  BY <1>3, <1>4, <1>5, Zenon

\* The histories of the two agree after a step.
LEMMA HistoriesAgree ==
  ASSUME NetworkInv, SameState, Advance, NEW n \in Phase
  PROVE  /\ update_history(v', sHist, p)[Lf(n)] = hLf'[n]
         /\ update_history(v', sHist, p)[Cf(n)] = hCf'[n]
         /\ update_history(v', sHist, p)[Lgrid(n)] = hLgrid'[n]
<1> DEFINE u == v'[Inverter(n)] - v'[Cap(n)]
           w == v'[Cap(n)] - v'[Grid(n)]
<1>1. /\ p.gLf \in Int /\ p.betaLf \in Int /\ p.gCf \in Int /\ p.gLgrid \in Int /\ p.betaLgrid \in Int
      /\ hLf[n] \in Int /\ hCf[n] \in Int /\ hLgrid[n] \in Int
  BY StateTypes, Conductances, Zenon
<1>2. v'[Inverter(n)] \in Int /\ v'[Cap(n)] \in Int /\ v'[Grid(n)] \in Int
  BY AdvanceIs, Nodes, Entries, Zenon
<1>3. u \in Int /\ w \in Int
  BY <1>2
<1>4. sHist[Lf(n)] = hLf[n] /\ sHist[Cf(n)] = hCf[n] /\ sHist[Lgrid(n)] = hLgrid[n]
  BY DEF SameState
<1>5. /\ iLf'[n] = (p.gLf * (u % P) + hLf[n]) % P
      /\ iCf'[n] = (p.gCf * v'[Cap(n)] + hCf[n]) % P
      /\ iLgrid'[n] = (p.gLgrid * (w % P) + hLgrid[n]) % P
  BY AdvanceIs, Zenon DEF BranchCurrent, AcrossLf, AcrossCf, AcrossLgrid
<1>6. /\ hLf'[n] = (p.gLf * (u % P) + p.betaLf * iLf'[n]) % P
      /\ hCf'[n] = (-iCf'[n] - p.gCf * v'[Cap(n)]) % P
      /\ hLgrid'[n] = (p.gLgrid * (w % P) + p.betaLgrid * iLgrid'[n]) % P
  BY AdvanceIs, Zenon DEF InductorHistory, CapacitorHistory, AcrossLf, AcrossCf, AcrossLgrid
<1>7. /\ update_history(v', sHist, p)[Lf(n)] = InOneGo(p.gLf, p.betaLf, hLf[n], u)
      /\ update_history(v', sHist, p)[Cf(n)] = ChargeInOneGo(p.gCf, hCf[n], v'[Cap(n)])
      /\ update_history(v', sHist, p)[Lgrid(n)] = InOneGo(p.gLgrid, p.betaLgrid, hLgrid[n], w)
  BY <1>4, NewHistories, ZenonT(60)
<1> HIDE DEF u, w
<1>8. /\ hLf'[n] = ByCurrent(p.gLf, p.betaLf, hLf[n], u)
      /\ hCf'[n] = ByCharge(p.gCf, hCf[n], v'[Cap(n)])
      /\ hLgrid'[n] = ByCurrent(p.gLgrid, p.betaLgrid, hLgrid[n], w)
  BY <1>5, <1>6, Zenon DEF ByCurrent, ByCharge
<1>9. ByCurrent(p.gLf, p.betaLf, hLf[n], u) = InOneGo(p.gLf, p.betaLf, hLf[n], u)
  BY <1>1, <1>3, InductorKernel, SMTT(30)
<1>10. ByCharge(p.gCf, hCf[n], v'[Cap(n)]) = ChargeInOneGo(p.gCf, hCf[n], v'[Cap(n)])
  BY <1>1, <1>2, CapacitorKernel, Zenon
<1>11. ByCurrent(p.gLgrid, p.betaLgrid, hLgrid[n], w) = InOneGo(p.gLgrid, p.betaLgrid, hLgrid[n], w)
  BY <1>1, <1>3, InductorKernel, SMTT(30)
<1> QED
  BY <1>7, <1>8, <1>9, <1>10, <1>11, Zenon

\* The kernel and the network agree when they are built.
LEMMA InitKernel ==
  ASSUME KernelInit
  PROVE  IInv
<1>1. NetworkInv /\ factoredFor = Unwritten /\ at # "done"
  BY InitNetwork, Zenon DEF KernelInit, Init
<1>2. sV = v
  BY Zenon DEF KernelInit, Init
<1>3. ASSUME NEW n \in Phase
      PROVE  sHist[Lf(n)] = hLf[n] /\ sHist[Cf(n)] = hCf[n] /\ sHist[Lgrid(n)] = hLgrid[n]
  <2>1. Lf(n) \in Idx /\ Cf(n) \in Idx /\ Lgrid(n) \in Idx
    BY Nodes, Zenon DEF Lf, Cf, Lgrid, Inverter, Cap, Grid
  <2> QED
    BY <2>1, Zenon DEF KernelInit, Init, Zero
<1> QED
  BY <1>1, <1>2, <1>3, Zenon DEF IInv, KernelFollows, SameState

\* The invariant is kept by a step that leaves the kernel and the state of the network
\* alone, and the factors too where the gates are the ones of the kernel.
LEMMA KernelRests ==
  ASSUME IInv, NetworkInv', UNCHANGED kernelVars, UNCHANGED state,
         calling' = "construct" => calling = "construct" /\ (at' = "done" => at = "done"),
         alike /\ factoredFor # Unwritten =>
           /\ gate' = factoredFor => UNCHANGED <<gate, luVars>>
           /\ calling' = "none" => UNCHANGED <<calling, gate>>
  PROVE  IInv'
<1>1. SameState' <=> SameState
  BY Zenon DEF SameState, state, kernelVars, Lf, Cf, Lgrid
<1>2. /\ sLU' = sLU /\ sPiv' = sPiv /\ factoredFor' = factoredFor /\ alike' = alike
      /\ UNCHANGED luVars => A' = A /\ at' = at /\ RowOf' = RowOf
  BY Zenon DEF kernelVars, luVars, RowOf
<1>3. KernelFollows'
  BY <1>1, <1>2, Zenon DEF IInv, KernelFollows
<1>4. at' = "done" \/ factoredFor' # Unwritten => calling' # "construct"
  BY <1>2, Zenon DEF IInv
<1>5. ASSUME alike', factoredFor' # Unwritten
      PROVE  /\ gate' = factoredFor' => at' = "done" /\ sLU' = A' /\ sPiv' = RowOf'
             /\ calling' = "none" => gate' = factoredFor'
  BY <1>2, <1>5, ZenonT(60) DEF IInv
<1> QED
  BY <1>3, <1>4, <1>5, ZenonT(60) DEF IInv, Unwritten

\* They agree after every step of the kernel.
LEMMA NextKernel ==
  ASSUME IInv, KernelNext
  PROVE  IInv'
<1>1. /\ NetworkInv /\ KernelFollows
      /\ at = "done" \/ factoredFor # Unwritten => calling # "construct"
      /\ alike /\ factoredFor # Unwritten =>
           /\ gate = factoredFor => at = "done" /\ sLU = A /\ sPiv = RowOf
           /\ calling = "none" => gate = factoredFor
  BY DEF IInv
<1>2. NetworkInv'
  <2>1. CASE Next
    BY <1>1, <2>1, NextNetwork, Zenon
  <2>2. CASE UNCHANGED vars
    BY <1>1, <2>2, Zenon DEF vars, luVars, state, NetworkInv, FactorInv
  <2> QED
    BY <2>1, <2>2, NetworkNext, Zenon
<1>3. ASSUME NEW g \in Gate, NEW src \in [Phase -> GridVoltage], StepCalled(g, src), UNCHANGED kernelVars
      PROVE  IInv'
  <2>1. /\ calling = "none" /\ calling' = "step" /\ UNCHANGED state /\ gate' = g
        /\ UNCHANGED luVars \/ g # gateFactored
    BY <1>3, Zenon DEF StepCalled, Stale
  <2>2. gateFactored = gate
    BY <1>1, <2>1, Zenon DEF NetworkInv
  <2>3. alike /\ factoredFor # Unwritten /\ gate' = factoredFor => UNCHANGED <<gate, luVars>>
    BY <1>1, <2>1, <2>2, Zenon
  <2> QED
    BY <1>2, <1>3, <2>1, <2>3, KernelRests, Zenon
<1>4. ASSUME Factoring \/ Factored, UNCHANGED kernelVars PROVE IInv'
  <2>1. /\ at = "factor" /\ UNCHANGED state /\ gate' = gate
        /\ \/ calling' = calling /\ at' # "done"
           \/ calling' = IF calling = "construct" THEN "none" ELSE calling
    BY <1>4, ZenonT(60) DEF Factoring, Factored, Column, Singular, Return
  <2>2. calling # "none"
    BY <1>1, <2>1, Zenon DEF NetworkInv
  <2>3. alike /\ factoredFor # Unwritten => gate' # factoredFor /\ calling' # "none"
    BY <1>1, <2>1, <2>2, Zenon
  <2>4. calling' = "construct" => calling = "construct" /\ at' # "done"
    BY <2>1, Zenon
  <2> QED
    BY <1>2, <1>4, <2>1, <2>3, <2>4, KernelRests, Zenon
<1>5. CASE WriteFactors
  <2>1. /\ at = "done" /\ sLU' = A /\ sPiv' = pivot /\ factoredFor' = gate
        /\ alike' = (alike /\ pivot = RowOf)
        /\ UNCHANGED vars /\ UNCHANGED <<sV, sHist>>
    BY <1>5, Zenon DEF WriteFactors
  <2>2. /\ gate' = gate /\ at' = at /\ A' = A /\ RowOf' = RowOf /\ calling' = calling
        /\ SameState' <=> SameState
    BY <2>1, Zenon DEF vars, luVars, state, RowOf, SameState, Lf, Cf, Lgrid
  <2>3. calling # "construct"
    BY <1>1, <2>1, Zenon
  <2>4. alike' => alike /\ pivot = RowOf
    BY <2>1, Zenon
  <2>5. KernelFollows'
    BY <1>1, <2>2, <2>4, Zenon DEF KernelFollows
  <2>6. alike' => gate' = factoredFor' /\ at' = "done" /\ sLU' = A' /\ sPiv' = RowOf'
    BY <2>1, <2>2, <2>4, Zenon
  <2> QED
    BY <1>2, <2>2, <2>3, <2>5, <2>6, Zenon DEF IInv
<1>6. CASE Advance /\ factoredFor # Unwritten /\ solver_top
  <2>1. /\ at = "done" /\ v' = Solve(A, pivot, Injected) /\ UNCHANGED luVars
        /\ gate' = gate /\ calling' = "none"
    BY <1>1, <1>6, AdvanceIs, Zenon DEF Advance
  <2>2. /\ alike' = (alike /\ Alike) /\ sLU' = sLU /\ sPiv' = sPiv /\ factoredFor' = factoredFor
        /\ sHist' = update_history(sV', sHist, p)
    BY <1>6, Zenon DEF solver_top
  <2>3. ASSUME alike' PROVE SameState'
    <3>1. alike /\ gate = factoredFor /\ p.mains
      BY <2>2, <2>3, Zenon DEF Alike
    <3>2. SameState /\ sLU = A /\ sPiv = RowOf
      BY <1>1, <1>6, <3>1, Zenon DEF KernelFollows
    <3>3. sV' = v'
      <4>1. Injected \in Vector /\ pivot \in [Idx -> Idx]
        BY <1>1, InjectedType, Zenon DEF NetworkInv, FactorInv
      <4>2. KernelSource = {source}
        BY <3>1, Zenon DEF KernelSource
      <4>3. sV' = lu_solve(sLU, sPiv, norton_update(sHist, gate, source, p))
        BY <1>6, <4>2, Zenon DEF solver_top
      <4>4. sV' = lu_solve(A, RowOf, Injected)
        BY <3>2, <4>3, NortonIs, Zenon
      <4> QED
        BY <2>1, <4>1, <4>4, LuSolveIs, Zenon
    <3>4. \A n \in Phase : sHist'[Lf(n)] = hLf'[n] /\ sHist'[Cf(n)] = hCf'[n] /\ sHist'[Lgrid(n)] = hLgrid'[n]
      BY <1>1, <1>6, <2>2, <3>2, <3>3, HistoriesAgree, Zenon
    <3> QED
      BY <3>3, <3>4, Zenon DEF SameState, Lf, Cf, Lgrid
  <2>4. alike' => alike /\ gate = factoredFor
    BY <2>2, Zenon DEF Alike
  <2>5. at' = at /\ A' = A /\ RowOf' = RowOf
    BY <2>1, Zenon DEF luVars, RowOf
  <2>6. alike' => gate' = factoredFor' /\ at' = "done" /\ sLU' = A' /\ sPiv' = RowOf'
    BY <1>1, <1>6, <2>1, <2>2, <2>4, <2>5, Zenon
  <2>7. calling' # "construct"
    BY <2>1, Zenon
  <2> QED
    BY <1>2, <2>3, <2>6, <2>7, Zenon DEF IInv, KernelFollows
<1>7. CASE Ended /\ UNCHANGED kernelVars
  <2>1. UNCHANGED <<state, calling, gate, luVars>> /\ at' = at
    BY <1>7, Zenon DEF Ended, vars, luVars
  <2> QED
    BY <1>2, <1>7, <2>1, KernelRests, Zenon
<1> QED
  BY <1>3, <1>4, <1>5, <1>6, <1>7, ZenonT(60) DEF KernelNext

\* The invariant of the network, and the agreement, in every state of the kernel.
THEOREM KernelInvariance == KernelSpec => []IInv
<1>1. KernelInit => IInv
  BY InitKernel, Zenon
<1>2. IInv /\ [KernelNext]_<<vars, kernelVars>> => IInv'
  <2> SUFFICES ASSUME IInv, [KernelNext]_<<vars, kernelVars>> PROVE IInv'
    OBVIOUS
  <2>1. CASE KernelNext
    BY <2>1, NextKernel, Zenon
  <2>2. CASE UNCHANGED <<vars, kernelVars>>
    <3>1. NetworkInv' /\ UNCHANGED <<state, calling, gate, luVars>> /\ at' = at
      BY <2>2, Zenon DEF vars, luVars, state, IInv, NetworkInv, FactorInv
    <3> QED
      BY <2>2, <3>1, KernelRests, Zenon
  <2> QED
    BY <2>1, <2>2, Zenon
<1> QED
  BY <1>1, <1>2, PTL DEF KernelSpec

\* The node voltages and the history currents of the HLS kernel are those of VscNetwork
\* as long as all steps have the gates that the factors were written for, the grid is
\* one of 230 V and 50 Hz and pivot[] was the permutation: the gathered right side and
\* the fused history update change no result.
THEOREM KernelAgrees == KernelSpec => []KernelFollows
<1>1. IInv => KernelFollows
  BY DEF IInv
<1> QED
  BY <1>1, KernelInvariance, PTL
===============================================================================
