------------------------- MODULE PartitionTableProofs -------------------------
(***************************************************************************)
(* Lemmas about PartitionTable: where structures start, rounding to        *)
(* sectors, and the entries and numbers of a table.                        *)
(***************************************************************************)
EXTENDS PartitionTable, FiniteSetTheorems, WellFoundedInduction, TLAPS

(***************************************************************************)
(* Induction and recursion over the naturals.                              *)
(***************************************************************************)
Less == {ss \in Nat \X Nat : ss[1] < ss[2]}

\* The order of the naturals is well founded, so that a set of them has a least
\* element: induction on a set, where the library's theorems have an operator.
LEMMA LessWF == IsWellFoundedOn(Less, Nat)
  BY NatLessThanWellFounded, Zenon DEF OpToRel, Less

LEMMA Least ==
    ASSUME NEW T \in SUBSET Nat, T # {}
    PROVE  \E x \in T : \A y \in T : x <= y
<1>1. PICK x \in T : \A y \in T : ~(<<y, x>> \in Less)
  BY LessWF, WFMin
<1>2. ASSUME NEW y \in T PROVE x <= y
  <2>1. x \in Nat /\ y \in Nat
    OBVIOUS
  <2>2. ~(y < x)
    BY <1>1, <2>1 DEF Less
  <2>3. QED
    BY <2>1, <2>2
<1>3. QED
  BY <1>2

LEMMA Induction ==
    ASSUME NEW T \in SUBSET Nat, 0 \in T, \A n \in T : n + 1 \in T
    PROVE  T = Nat
<1>1. ASSUME NEW n \in Nat, n \notin T PROVE FALSE
  <2>1. PICK x \in Nat \ T : \A y \in Nat \ T : x <= y
     BY <1>1, Least
  <2>2. x # 0 /\ x - 1 \in Nat
    BY <2>1
  <2>3. x - 1 \in T
    BY <2>1, <2>2
  <2>4. QED
    BY <2>1, <2>2, <2>3
<1>2. QED
  BY <1>1

\* A function on the naturals defined from its value at the predecessor.
Recurs(f, a, next) == f[0] = a /\ \A n \in Nat : f[n + 1] = next[n][f[n]]

LEMMA Recursion ==
    ASSUME NEW V, NEW a \in V, NEW next \in [Nat -> [V -> V]]
    PROVE  \E f \in [Nat -> V] : Recurs(f, a, next)
<1> DEFINE Begins(n, f) == f[0] = a /\ \A i \in 0..n - 1 : f[i + 1] = next[i][f[i]]
           T == {n \in Nat : \E f \in [0..n -> V] : Begins(n, f)}
<1>1. 0 \in T
  <2>1. [i \in 0..0 |-> a] \in [0..0 -> V] /\ Begins(0, [i \in 0..0 |-> a])
    OBVIOUS
  <2>2. QED
    BY <2>1
<1>2. ASSUME NEW n \in T PROVE n + 1 \in T
  <2>1. PICK f \in [0..n -> V] : Begins(n, f)
    OBVIOUS
  <2> DEFINE g == [i \in 0..n + 1 |-> IF i <= n THEN f[i] ELSE next[n][f[n]]]
  <2>2. g \in [0..n + 1 -> V]
    OBVIOUS
  <2>3. Begins(n + 1, g)
    <3>1. g[0] = a
      BY <2>1
    <3>2. ASSUME NEW i \in 0..n PROVE g[i + 1] = next[i][g[i]]
      <4>1. CASE i = n
        BY <4>1
      <4>2. CASE i # n
        BY <2>1, <4>2
      <4>3. QED
        BY <4>1, <4>2
    <3>3. 0..(n + 1) - 1 = 0..n
      OBVIOUS
    <3> HIDE DEF g
    <3>4. QED
      BY <3>1, <3>2, <3>3
  <2> HIDE DEF g
  <2>4. \E f_1 \in [0..n + 1 -> V] : Begins(n + 1, f_1)
    BY <2>2, <2>3
  <2>5. n + 1 \in Nat
    OBVIOUS
  <2> HIDE DEF Begins
  <2>6. QED
    BY <2>4, <2>5
<1>3. T = Nat
  BY <1>1, <1>2, Induction
<1>4. ASSUME NEW m \in Nat, NEW n \in Nat, NEW f \in [0..m -> V], NEW g \in [0..n -> V],
             Begins(m, f), Begins(n, g)
      PROVE  \A i \in Nat : i <= m /\ i <= n => f[i] = g[i]
  <2> DEFINE U == {i \in Nat : i <= m /\ i <= n => f[i] = g[i]}
  <2>1. 0 \in U
    BY <1>4
  <2>2. ASSUME NEW i \in U PROVE i + 1 \in U
    BY <1>4, <2>2
  <2>3. U = Nat
    BY <2>1, <2>2, Induction
  <2>4. QED
    BY <2>3
<1> DEFINE part == [n \in Nat |-> CHOOSE f \in [0..n -> V] : Begins(n, f)]
           whole == [n \in Nat |-> part[n][n]]
<1>5. \A n \in Nat : part[n] \in [0..n -> V] /\ Begins(n, part[n])
  BY <1>3
<1> HIDE DEF part
<1>6. whole \in [Nat -> V]
  BY <1>5
<1>7. whole[0] = a
  BY <1>5
<1>8. ASSUME NEW n \in Nat PROVE whole[n + 1] = next[n][whole[n]]
  <2>1. part[n + 1][n + 1] = next[n][part[n + 1][n]]
    BY <1>5
  <2>2. part[n + 1][n] = part[n][n]
    <3> HIDE DEF Begins, T, whole
    <3>1. /\ n + 1 \in Nat /\ part[n + 1] \in [0..n + 1 -> V] /\ Begins(n + 1, part[n + 1])
          /\ part[n] \in [0..n -> V] /\ Begins(n, part[n])
      <4>1. n + 1 \in Nat
        OBVIOUS
      <4>2. QED
        BY <1>5, <4>1
    <3>2. \A i \in Nat : i <= n + 1 /\ i <= n => part[n + 1][i] = part[n][i]
      BY <1>4, <3>1
    <3>3. QED
      BY <3>2
  <2>3. QED
    BY <2>1, <2>2
<1>9. QED
  BY <1>6, <1>7, <1>8 DEF Recurs

-----------------------------------------------------------------------------
(***************************************************************************)
(* Where structures start, as a function of offsets and sizes.             *)
(***************************************************************************)
Laid(f, n, offset, size) ==
    /\ f \in [1..n -> Nat]
    /\ \A i \in 1..n : f[i] = IF offset[i] # Unknown THEN offset[i]
                             ELSE IF i = 1 THEN 0 ELSE f[i - 1] + size[i - 1]

Offsets(v) == [i \in DOMAIN v.structure |-> v.structure[i].offset]

\* There is such a function.
LEMMA LaidExists ==
    ASSUME NEW n \in Nat, NEW offset \in [1..n -> Nat \cup {Unknown}],
           NEW size \in [1..n -> Nat]
    PROVE  \E f : Laid(f, n, offset, size)
<1> DEFINE step(i, x) == IF i \notin 1..n THEN 0
                         ELSE IF offset[i] # Unknown THEN offset[i]
                         ELSE IF i = 1 THEN 0 ELSE x + size[i - 1]
           next == [i \in Nat |-> [x \in Nat |-> step(i + 1, x)]]
<1>1. \A i \in Nat, x \in Nat : step(i + 1, x) \in Nat
  <2> TAKE i \in Nat, x \in Nat
  <2>1. CASE i + 1 \notin 1..n
    BY <2>1
  <2>2. CASE i + 1 \in 1..n /\ i # 0
    <3>1. i \in 1..n /\ (i + 1) - 1 = i
      BY <2>2
    <3>2. size[i] \in Nat /\ offset[i + 1] \in Nat \cup {Unknown}
      BY <2>2, <3>1
    <3>3. QED
      BY <2>2, <3>1, <3>2
  <2>3. CASE i + 1 \in 1..n /\ i = 0
    <3>1. offset[i + 1] \in Nat \cup {Unknown}
      BY <2>3
    <3>2. QED
      BY <2>3, <3>1
  <2>4. QED
    BY <2>1, <2>2, <2>3
<1>2. next \in [Nat -> [Nat -> Nat]]
  BY <1>1
<1>3. PICK g \in [Nat -> Nat] : Recurs(g, 0, next)
  <2> HIDE DEF next
  <2>1. 0 \in Nat
    OBVIOUS
  <2>2. QED
    BY <1>2, <2>1, Recursion
<1>4. \A i \in Nat : g[i + 1] = step(i + 1, g[i])
  BY <1>3 DEF Recurs
<1>5. ASSUME NEW i \in 1..n
      PROVE  g[i] = IF offset[i] # Unknown THEN offset[i]
                    ELSE IF i = 1 THEN 0 ELSE g[i - 1] + size[i - 1]
  <2>1. i - 1 \in Nat /\ (i - 1) + 1 = i
    BY <1>5
  <2>2. g[i] = step(i, g[i - 1])
    <3> HIDE DEF step
    <3>1. g[(i - 1) + 1] = step((i - 1) + 1, g[i - 1])
      BY <1>4, <2>1
    <3>2. QED
      BY <2>1, <3>1
  <2>3. QED
    BY <2>2
<1> DEFINE f == [i \in 1..n |-> g[i]]
<1>6. f \in [1..n -> Nat]
  BY <1>3
<1>7. ASSUME NEW i \in 1..n
      PROVE  f[i] = IF offset[i] # Unknown THEN offset[i]
                    ELSE IF i = 1 THEN 0 ELSE f[i - 1] + size[i - 1]
  <2>1. CASE i = 1
    BY <1>5, <2>1
  <2>2. CASE i # 1
    <3>1. i - 1 \in 1..n
      BY <2>2
    <3>2. f[i] = g[i] /\ f[i - 1] = g[i - 1]
      BY <3>1
    <3> HIDE DEF f
    <3>3. QED
      BY <1>5, <2>2, <3>2
  <2>3. QED
    BY <2>1, <2>2
<1>8. Laid(f, n, offset, size)
  <2> HIDE DEF f
  <2>1. QED
    BY <1>6, <1>7 DEF Laid
<1>9. QED
  BY <1>8

LEMMA StartsLaid ==
    ASSUME NEW v, v.structure \in Seq(Structures), NEW size \in [DOMAIN v.structure -> Nat]
    PROVE  Laid(Starts(v, size), Len(v.structure), Offsets(v), size)
<1> DEFINE s == v.structure
           n == Len(s)
           Unfolded(f) == f = [i \in 1..n |-> IF s[i].offset # Unknown THEN s[i].offset
                                 ELSE IF i = 1 THEN 0 ELSE f[i - 1] + size[i - 1]]
<1>1. n \in Nat /\ DOMAIN s = 1..n /\ \A i \in 1..n : s[i] \in Structures
  OBVIOUS
<1>2. Offsets(v) \in [1..n -> Nat \cup {Unknown}] /\ size \in [1..n -> Nat]
  BY <1>1 DEF Offsets, Structures
<1>3. PICK f : Laid(f, n, Offsets(v), size)
  <2> HIDE DEF n
  <2>1. QED
    BY <1>1, <1>2, LaidExists
<1>4. \A i \in 1..n : Offsets(v)[i] = s[i].offset
  BY <1>1 DEF Offsets
<1>5. Unfolded(f)
  <2> HIDE DEF n, s
  <2>1. QED
    BY <1>3, <1>4 DEF Laid
<1>6. Starts(v, size) = CHOOSE g : Unfolded(g)
  BY DEF Starts
<1>7. Unfolded(CHOOSE g : Unfolded(g))
  <2> HIDE DEF Unfolded
  <2>1. QED
    BY <1>5, Zenon
<1>8. Unfolded(Starts(v, size))
  BY <1>6, <1>7
<1>9. PICK g : g = Starts(v, size)
  OBVIOUS
<1>10. Laid(g, n, Offsets(v), size)
  <2>1. Unfolded(g)
    BY <1>8, <1>9
  <2>2. \A i \in 1..n : g[i] = IF Offsets(v)[i] # Unknown THEN Offsets(v)[i]
                               ELSE IF i = 1 THEN 0 ELSE g[i - 1] + size[i - 1]
    <3> HIDE DEF n, s
    <3>1. QED
      BY <1>4, <2>1
  <2>3. \A i \in Nat : i \in 1..n => g[i] = f[i]
    <3> DEFINE T == {i \in Nat : i \in 1..n => g[i] = f[i]}
    <3> HIDE DEF n, s, Unfolded
    <3>1. 0 \in T
      OBVIOUS
    <3>2. ASSUME NEW i \in T PROVE i + 1 \in T
      <4>1. CASE i = 0
        BY <1>3, <2>2, <4>1 DEF Laid
      <4>2. CASE i + 1 \in 1..n /\ i # 0
        <5>1. i \in 1..n /\ (i + 1) - 1 = i /\ g[i] = f[i]
          BY <1>1, <4>2
        <5>2. QED
          BY <1>3, <2>2, <4>2, <5>1 DEF Laid
      <4>3. QED
        BY <4>1, <4>2
    <3>3. T = Nat
      BY <3>1, <3>2, Induction
    <3>4. QED
      BY <3>3
  <2>4. DOMAIN g = 1..n
    BY <2>1
  <2>5. g = f
    <3> HIDE DEF n, s, Unfolded
    <3>1. f \in [1..n -> Nat]
      BY <1>3 DEF Laid
    <3>2. g = [i \in 1..n |-> g[i]]
      BY <2>1 DEF Unfolded
    <3>3. QED
      BY <2>3, <3>1, <3>2, <1>1
  <2>6. QED
    BY <1>3, <2>5
<1>11. QED
  BY <1>9, <1>10

\* Larger structures start no earlier.
LEMMA LaidGrows ==
    ASSUME NEW n \in Nat, NEW offset, NEW size \in [1..n -> Nat], NEW more \in [1..n -> Nat],
           NEW f, NEW g, Laid(f, n, offset, size), Laid(g, n, offset, more),
           \A i \in 1..n : size[i] <= more[i]
    PROVE  \A i \in 1..n : f[i] <= g[i]
<1> DEFINE T == {i \in Nat : i \in 1..n => f[i] <= g[i]}
<1>1. 0 \in T
  OBVIOUS
<1>2. ASSUME NEW i \in T, i + 1 \in 1..n PROVE f[i + 1] <= g[i + 1]
  <2>1. f[i + 1] \in Nat /\ g[i + 1] \in Nat
    BY <1>2 DEF Laid
  <2>2. CASE offset[i + 1] # Unknown \/ i = 0
    <3> HIDE DEF T
    <3>1. \/ f[i + 1] = offset[i + 1] /\ g[i + 1] = offset[i + 1]
          \/ i = 0 /\ f[i + 1] = 0 /\ g[i + 1] = 0
      BY <1>2, <2>2 DEF Laid
    <3>2. QED
      BY <2>1, <3>1
  <2>3. CASE offset[i + 1] = Unknown /\ i # 0
    <3>1. i \in 1..n /\ (i + 1) - 1 = i
      BY <1>2, <2>3
    <3>2. f[i + 1] = f[i] + size[i] /\ g[i + 1] = g[i] + more[i]
      <4>1. i + 1 \in 1..n /\ i + 1 # 1
        BY <1>2, <3>1
      <4> HIDE DEF T
      <4>2. /\ f[i + 1] = f[(i + 1) - 1] + size[(i + 1) - 1]
            /\ g[i + 1] = g[(i + 1) - 1] + more[(i + 1) - 1]
        BY <2>3, <4>1 DEF Laid
      <4>3. QED
        BY <3>1, <4>2
    <3>3. f[i] \in Nat /\ g[i] \in Nat /\ f[i] <= g[i]
      BY <3>1 DEF Laid
    <3>4. size[i] \in Nat /\ more[i] \in Nat /\ size[i] <= more[i]
      BY <3>1
    <3>5. QED
      BY <3>2, <3>3, <3>4
  <2>4. QED
    BY <2>2, <2>3
<1>3. T \in SUBSET Nat /\ \A i \in T : i + 1 \in T
  BY <1>2
<1>4. ASSUME NEW i \in 1..n PROVE i \in T
  <2> HIDE DEF T
  <2>1. T = Nat
    BY <1>1, <1>3, Induction
  <2>2. QED
    BY <2>1
<1>5. QED
  BY <1>4

\* When a structure grows that no offset follows, what follows moves with it.
Grown(n, offset, size, more, r, delta) ==
    /\ n \in Nat /\ r \in 1..n /\ delta \in Nat
    /\ size \in [1..n -> Nat] /\ more \in [1..n -> Nat]
    /\ \A i \in 1..n : more[i] = IF i = r THEN size[i] + delta ELSE size[i]
    /\ \A i \in 1..n : r < i => offset[i] = Unknown

Moved(f, g, n, r, delta) ==
    \A i \in 1..n : g[i] = IF r < i THEN f[i] + delta ELSE f[i]

LEMMA LaidMoves ==
    ASSUME NEW n, NEW offset, NEW size, NEW more, NEW f, NEW g, NEW r, NEW delta,
           Laid(f, n, offset, size), Laid(g, n, offset, more),
           Grown(n, offset, size, more, r, delta)
    PROVE  Moved(f, g, n, r, delta)
<1>0. /\ n \in Nat /\ r \in 1..n /\ delta \in Nat
      /\ size \in [1..n -> Nat] /\ more \in [1..n -> Nat]
      /\ \A i \in 1..n : more[i] = IF i = r THEN size[i] + delta ELSE size[i]
      /\ \A i \in 1..n : r < i => offset[i] = Unknown
  BY DEF Grown
<1> DEFINE T == {i \in Nat : i \in 1..n => g[i] = IF r < i THEN f[i] + delta ELSE f[i]}
<1>1. 0 \in T
  BY <1>0
<1>2. ASSUME NEW i \in T, i + 1 \in 1..n
      PROVE  g[i + 1] = IF r < i + 1 THEN f[i + 1] + delta ELSE f[i + 1]
  <2>1. i \in Nat /\ (i \in 1..n => g[i] = IF r < i THEN f[i] + delta ELSE f[i])
    OBVIOUS
  <2>2. /\ f[i + 1] \in Nat
        /\ offset[i + 1] # Unknown => f[i + 1] = offset[i + 1]
        /\ offset[i + 1] = Unknown /\ i = 0 => f[i + 1] = 0
        /\ offset[i + 1] = Unknown /\ i # 0 =>
             i \in 1..n /\ f[i] \in Nat /\ f[i + 1] = f[i] + size[i]
    <3>1. f[i + 1] = IF offset[i + 1] # Unknown THEN offset[i + 1]
                     ELSE IF i + 1 = 1 THEN 0 ELSE f[(i + 1) - 1] + size[(i + 1) - 1]
      BY <1>2 DEF Laid
    <3>2. (i + 1) - 1 = i /\ (i + 1 = 1 <=> i = 0) /\ (i # 0 => i \in 1..n)
      BY <1>0, <1>2, <2>1
    <3>3. f[i + 1] \in Nat /\ (i \in 1..n => f[i] \in Nat)
      BY <1>2 DEF Laid
    <3> HIDE DEF T
    <3>4. QED
      BY <3>1, <3>2, <3>3
  <2>3. /\ g[i + 1] \in Nat
        /\ offset[i + 1] # Unknown => g[i + 1] = offset[i + 1]
        /\ offset[i + 1] = Unknown /\ i = 0 => g[i + 1] = 0
        /\ offset[i + 1] = Unknown /\ i # 0 =>
             i \in 1..n /\ g[i] \in Nat /\ g[i + 1] = g[i] + more[i]
    <3>1. g[i + 1] = IF offset[i + 1] # Unknown THEN offset[i + 1]
                     ELSE IF i + 1 = 1 THEN 0 ELSE g[(i + 1) - 1] + more[(i + 1) - 1]
      BY <1>2 DEF Laid
    <3>2. (i + 1) - 1 = i /\ (i + 1 = 1 <=> i = 0) /\ (i # 0 => i \in 1..n)
      BY <1>0, <1>2, <2>1
    <3>3. g[i + 1] \in Nat /\ (i \in 1..n => g[i] \in Nat)
      BY <1>2 DEF Laid
    <3> HIDE DEF T
    <3>4. QED
      BY <3>1, <3>2, <3>3
  <2>4. r < i + 1 => offset[i + 1] = Unknown
    BY <1>0, <1>2
  <2>5. i \in 1..n => /\ size[i] \in Nat
                      /\ more[i] = IF i = r THEN size[i] + delta ELSE size[i]
    BY <1>0
  <2> HIDE DEF T
  <2>6. CASE offset[i + 1] # Unknown \/ i = 0
    <3>1. ~(r < i + 1)
      BY <1>0, <2>4, <2>6
    <3>2. QED
      BY <2>2, <2>3, <2>6, <3>1
  <2>7. CASE offset[i + 1] = Unknown /\ i # 0
    <3>1. f[i + 1] = f[i] + size[i] /\ g[i + 1] = g[i] + more[i] /\ f[i] \in Nat
      BY <2>2, <2>3, <2>7
    <3>2. i \in 1..n
      BY <2>2, <2>7
    <3>3. /\ g[i] = IF r < i THEN f[i] + delta ELSE f[i]
          /\ i \in Nat /\ r \in Nat /\ delta \in Nat /\ size[i] \in Nat
          /\ more[i] = IF i = r THEN size[i] + delta ELSE size[i]
      BY <1>0, <2>1, <2>5, <3>2
    <3>4. CASE i < r
      BY <3>1, <3>3, <3>4
    <3>5. CASE i = r
      BY <3>1, <3>3, <3>5
    <3>6. CASE r < i
      BY <3>1, <3>3, <3>6
    <3>7. QED
      BY <3>3, <3>4, <3>5, <3>6
  <2>8. QED
    BY <2>6, <2>7
<1>3. T \in SUBSET Nat /\ \A i \in T : i + 1 \in T
  BY <1>2
<1>4. ASSUME NEW i \in 1..n PROVE i \in T
  <2> HIDE DEF T
  <2>1. T = Nat
    BY <1>1, <1>3, Induction
  <2>2. QED
    BY <2>1
<1>5. QED
  BY <1>4 DEF Moved

\* Where the structures of a volume start, and where it ends.
LEMMA Geometry ==
    ASSUME NEW u \in Volumes
    PROVE  LET n == Len(u.structure) IN
           /\ n \in Nat /\ DOMAIN u.structure = 1..n
           /\ \A i \in 1..n : u.structure[i] \in Structures
           /\ Offsets(u) = [i \in 1..n |-> u.structure[i].offset]
           /\ Sizes(u) \in [1..n -> Nat] /\ Sizes(u) = [i \in 1..n |-> u.structure[i].size]
           /\ Laid(StartOffset(u), n, Offsets(u), Sizes(u))
           /\ VolumeSize(u) = IF n = 0 THEN 0 ELSE StartOffset(u)[n] + Sizes(u)[n]
<1> DEFINE n == Len(u.structure)
<1>1. u.structure \in Seq(Structures)
  BY DEF Volumes
<1>2. /\ n \in Nat /\ DOMAIN u.structure = 1..n
      /\ \A i \in 1..n : u.structure[i] \in Structures
      /\ u.structure = <<>> <=> n = 0
  BY <1>1
<1> HIDE DEF n
<1>3. Sizes(u) \in [1..n -> Nat] /\ Sizes(u) = [i \in 1..n |-> u.structure[i].size]
  BY <1>2 DEF Sizes, Structures
<1>4. Laid(StartOffset(u), n, Offsets(u), Sizes(u))
  <2>1. Sizes(u) \in [DOMAIN u.structure -> Nat]
    BY <1>2, <1>3
  <2>2. QED
    BY <1>1, <2>1, StartsLaid DEF StartOffset, n
<1>5. VolumeSize(u) = IF n = 0 THEN 0 ELSE StartOffset(u)[n] + Sizes(u)[n]
  BY <1>2 DEF VolumeSize, VolumeEnd, StartOffset, n
<1>6. Offsets(u) = [i \in 1..n |-> u.structure[i].offset]
  BY <1>2 DEF Offsets
<1>7. QED
  BY <1>2, <1>3, <1>4, <1>5, <1>6 DEF n

LEMMA LeastFits ==
    ASSUME NEW u \in Volumes,
           \A i \in DOMAIN u.structure : u.structure[i].min <= u.structure[i].size
    PROVE  VolumeMinSize(u) <= VolumeSize(u)
<1> DEFINE n == Len(u.structure)
           least == [i \in DOMAIN u.structure |-> u.structure[i].min]
<1>1. /\ n \in Nat /\ DOMAIN u.structure = 1..n
      /\ \A i \in 1..n : u.structure[i] \in Structures
      /\ Sizes(u) \in [1..n -> Nat] /\ Sizes(u) = [i \in 1..n |-> u.structure[i].size]
      /\ Laid(StartOffset(u), n, Offsets(u), Sizes(u))
      /\ VolumeSize(u) = IF n = 0 THEN 0 ELSE StartOffset(u)[n] + Sizes(u)[n]
  BY Geometry
<1>2. /\ u.structure \in Seq(Structures)
      /\ u.structure = <<>> <=> n = 0
  BY DEF Volumes
<1>3. least \in [DOMAIN u.structure -> Nat]
  <2> HIDE DEF n
  <2>1. QED
    BY <1>1 DEF Structures
<1>4. Laid(Starts(u, least), n, Offsets(u), least)
  <2> HIDE DEF least
  <2>1. QED
    BY <1>2, <1>3, StartsLaid
<1>5. VolumeMinSize(u) = IF n = 0 THEN 0 ELSE Starts(u, least)[n] + least[n]
  BY <1>2 DEF VolumeMinSize, VolumeEnd
<1> HIDE DEF n
<1>6. \A i \in 1..n : least[i] <= Sizes(u)[i]
  BY <1>1
<1>7. least \in [1..n -> Nat]
  BY <1>1, <1>3
<1> HIDE DEF least
<1>8. \A i \in 1..n : Starts(u, least)[i] <= StartOffset(u)[i]
  <2>1. /\ n \in Nat /\ Sizes(u) \in [1..n -> Nat]
        /\ Laid(StartOffset(u), n, Offsets(u), Sizes(u))
    BY <1>1
  <2> DEFINE lower == Starts(u, least)
             upper == StartOffset(u)
             size == Sizes(u)
             offset == Offsets(u)
  <2>2. /\ n \in Nat /\ size \in [1..n -> Nat] /\ least \in [1..n -> Nat]
        /\ Laid(lower, n, offset, least) /\ Laid(upper, n, offset, size)
        /\ \A i \in 1..n : least[i] <= size[i]
    BY <1>4, <1>6, <1>7, <2>1
  <2> HIDE DEF lower, upper, size, offset
  <2>3. \A i \in 1..n : lower[i] <= upper[i]
    BY <2>2, LaidGrows
  <2>4. QED
    BY <2>3 DEF lower, upper
<1>9. CASE n = 0
  <2>1. VolumeMinSize(u) = 0 /\ VolumeSize(u) = 0
    BY <1>1, <1>5, <1>9
  <2>2. QED
    BY <2>1
<1>10. CASE n # 0
  <2>1. n \in 1..n
    BY <1>1, <1>10
  <2>2. StartOffset(u)[n] \in Nat /\ Starts(u, least)[n] \in Nat
    BY <1>1, <1>4, <2>1 DEF Laid
  <2>3. QED
    BY <1>1, <1>5, <1>6, <1>7, <1>8, <1>10, <2>1, <2>2
<1>11. QED
  BY <1>9, <1>10

-----------------------------------------------------------------------------
(***************************************************************************)
(* Rounding to sectors.                                                    *)
(***************************************************************************)
KnownSizes == {512, 4096}

LEMMA CeilTypes ==
    ASSUME NEW b \in KnownSizes, NEW a \in Nat
    PROVE  /\ Ceil(a, b) \in Nat /\ Ceil(a, b) * b \in Nat
           /\ a <= Ceil(a, b) * b /\ Ceil(a, b) * b < a + b
           /\ (Ceil(a, b) * b) % b = 0 /\ (Ceil(a, b) * b) \div b = Ceil(a, b)
<1>1. CASE b = 512
  BY <1>1 DEF Ceil
<1>2. CASE b = 4096
  BY <1>2 DEF Ceil
<1>3. QED
  BY <1>1, <1>2 DEF KnownSizes

LEMMA CeilExact ==
    ASSUME NEW b \in KnownSizes, NEW a \in Nat, a % b = 0
    PROVE  Ceil(a, b) = a \div b /\ Ceil(a, b) * b = a
<1>1. CASE b = 512
  BY <1>1 DEF Ceil
<1>2. CASE b = 4096
  BY <1>2 DEF Ceil
<1>3. QED
  BY <1>1, <1>2 DEF KnownSizes

LEMMA WholeParts ==
    ASSUME NEW b \in KnownSizes, NEW a \in Nat
    PROVE  /\ a \div b \in Nat /\ a \div b <= Ceil(a, b)
           /\ a % b = 0 => (a \div b) * b = a /\ Ceil(a, b) * b = a
<1>1. CASE b = 512
  BY <1>1 DEF Ceil
<1>2. CASE b = 4096
  BY <1>2 DEF Ceil
<1>3. QED
  BY <1>1, <1>2 DEF KnownSizes

LEMMA CeilGrows ==
    ASSUME NEW b \in KnownSizes, NEW a \in Nat, NEW c \in Nat, a <= c
    PROVE  Ceil(a, b) <= Ceil(c, b) /\ Ceil(a, b) * b <= Ceil(c, b) * b
<1>1. CASE b = 512
  BY <1>1 DEF Ceil
<1>2. CASE b = 4096
  BY <1>2 DEF Ceil
<1>3. QED
  BY <1>1, <1>2 DEF KnownSizes

LEMMA CeilSum ==
    ASSUME NEW b \in KnownSizes, NEW a \in Nat, NEW c \in Nat, a % b = 0
    PROVE  /\ Ceil(a, b) + Ceil(c, b) = Ceil(a + c, b)
           /\ c % b = 0 => (a + c) % b = 0
<1>1. CASE b = 512
  BY <1>1 DEF Ceil
<1>2. CASE b = 4096
  BY <1>2 DEF Ceil
<1>3. QED
  BY <1>1, <1>2 DEF KnownSizes

LEMMA Multiples ==
    ASSUME NEW b \in KnownSizes, NEW a \in Nat, NEW c \in Nat, a % b = 0, c % b = 0, a <= c
    PROVE  (c - a) % b = 0
<1>1. CASE b = 512
  BY <1>1
<1>2. CASE b = 4096
  BY <1>2
<1>3. QED
  BY <1>1, <1>2 DEF KnownSizes

\* What ends before a sector does so in sectors.
LEMMA SectorOrder ==
    ASSUME NEW b \in KnownSizes, NEW a \in Nat, NEW s \in Nat, NEW c \in Nat,
           a % b = 0, c % b = 0, a + s <= c
    PROVE  a \div b + Ceil(s, b) <= c \div b
<1>1. CASE b = 512
  BY <1>1 DEF Ceil
<1>2. CASE b = 4096
  BY <1>2 DEF Ceil
<1>3. QED
  BY <1>1, <1>2 DEF KnownSizes

LEMMA SmallRemainder ==
    ASSUME NEW x \in Nat, NEW m \in Nat, x < m PROVE x % m = x
  OBVIOUS

\* Multiples of a sector, in sectors.
LEMMA Sectors ==
    ASSUME NEW b \in KnownSizes, NEW a \in Nat, NEW k \in Nat, a % b = 0
    PROVE  /\ (a + k * b) \div b = a \div b + k /\ Ceil(a + k * b, b) = a \div b + k
           /\ a >= k * b => a \div b >= k
           /\ a \div b \in Nat
<1>1. CASE b = 512
  BY <1>1 DEF Ceil
<1>2. CASE b = 4096
  BY <1>2 DEF Ceil
<1>3. QED
  BY <1>1, <1>2 DEF KnownSizes

-----------------------------------------------------------------------------
(***************************************************************************)
(* Numbering the elements of a finite set of numbers by how many are less. *)
(***************************************************************************)
Before(A, i) == {j \in A : j < i}
Rank(A, i) == 1 + Cardinality(Before(A, i))

LEMMA RankTypes ==
    ASSUME NEW n \in Nat, NEW A \in SUBSET (1..n), NEW i \in A
    PROVE  Rank(A, i) \in 1..Cardinality(A) /\ Cardinality(A) \in Nat
<1>1. IsFiniteSet(1..n)
  BY FS_Interval
<1>2. IsFiniteSet(A)
  BY <1>1, FS_Subset
<1>3. Before(A, i) \subseteq A /\ i \notin Before(A, i)
  BY DEF Before
<1>4. IsFiniteSet(Before(A, i)) /\ Cardinality(Before(A, i)) <= Cardinality(A)
      /\ Cardinality(A) # Cardinality(Before(A, i))
  BY <1>2, <1>3, FS_Subset
<1>5. Cardinality(A) \in Nat /\ Cardinality(Before(A, i)) \in Nat
  BY <1>2, <1>4, FS_CardinalityType
<1>6. QED
  BY <1>4, <1>5 DEF Rank

LEMMA RankGrows ==
    ASSUME NEW n \in Nat, NEW A \in SUBSET (1..n), NEW i \in A, NEW k \in A, i < k
    PROVE  Rank(A, i) < Rank(A, k)
<1>1. IsFiniteSet(1..n)
  BY FS_Interval
<1>2. IsFiniteSet(A) /\ Before(A, k) \subseteq A
  BY <1>1, FS_Subset DEF Before
<1>3. Before(A, i) \subseteq Before(A, k)
  <2>1. A \subseteq Nat
    OBVIOUS
  <2>2. ASSUME NEW j \in A, j < i PROVE j < k
    BY <2>1, <2>2
  <2>3. QED
    BY <2>2 DEF Before
<1>4. i \in Before(A, k) /\ i \notin Before(A, i)
  BY DEF Before
<1>5. IsFiniteSet(Before(A, k))
  BY <1>2, FS_Subset
<1>6. /\ Cardinality(Before(A, i)) \in Nat /\ Cardinality(Before(A, k)) \in Nat
      /\ Cardinality(Before(A, i)) < Cardinality(Before(A, k))
  BY <1>3, <1>4, <1>5, FS_Subset, FS_CardinalityType
<1>7. QED
  BY <1>6 DEF Rank

LEMMA RankInjective ==
    ASSUME NEW n \in Nat, NEW A \in SUBSET (1..n), NEW i \in A, NEW k \in A,
           Rank(A, i) = Rank(A, k)
    PROVE  i = k
<1>1. i \in Nat /\ k \in Nat
  OBVIOUS
<1>2. /\ Rank(A, i) \in 1..Cardinality(A) /\ Rank(A, k) \in 1..Cardinality(A)
      /\ Cardinality(A) \in Nat
  BY RankTypes
<1>3. ~(Rank(A, i) < Rank(A, k)) /\ ~(Rank(A, k) < Rank(A, i))
  BY <1>2
<1>4. ~(i < k) /\ ~(k < i)
  BY <1>3, RankGrows
<1>5. QED
  BY <1>1, <1>4

\* Every number up to the size of the set is the number of an element.
LEMMA RankSurjective ==
    ASSUME NEW n \in Nat, NEW A \in SUBSET (1..n), NEW m \in 1..Cardinality(A)
    PROVE  \E i \in A : Rank(A, i) = m
<1> DEFINE rank == [i \in A |-> Rank(A, i)]
           ranks == {Rank(A, i) : i \in A}
<1>1. IsFiniteSet(A) /\ Cardinality(A) \in Nat
  <2>1. IsFiniteSet(1..n)
    BY FS_Interval
  <2>2. IsFiniteSet(A)
    BY <2>1, FS_Subset
  <2>3. QED
    BY <2>2, FS_CardinalityType
<1>2. rank \in Bijection(A, ranks)
  <2>1. rank \in Injection(A, ranks)
    BY RankInjective DEF Injection, IsInjective
  <2>2. rank \in Surjection(A, ranks)
    BY DEF Surjection
  <2>3. QED
    BY <2>1, <2>2 DEF Bijection
<1>3. IsFiniteSet(ranks) /\ Cardinality(ranks) = Cardinality(A)
  <2>1. ExistsBijection(A, ranks)
    BY <1>2 DEF ExistsBijection
  <2>2. QED
    BY <1>1, <2>1, FS_Bijection
<1>4. ranks \subseteq 1..Cardinality(A)
  BY RankTypes
<1>5. /\ IsFiniteSet(1..Cardinality(A))
      /\ Cardinality(1..Cardinality(A)) = Cardinality(A)
  BY <1>1, FS_Interval
<1>6. ranks = 1..Cardinality(A)
  BY <1>3, <1>4, <1>5, FS_Subset
<1>7. QED
  BY <1>6

LEMMA Largest ==
    ASSUME NEW n \in Nat, NEW A \in SUBSET (1..n), A # {}
    PROVE  \E i \in A : \A j \in A : j <= i
<1>1. PICK k \in A : TRUE
  OBVIOUS
<1>2. Cardinality(A) \in Nat /\ Rank(A, k) \in 1..Cardinality(A)
  BY RankTypes
<1>3. Cardinality(A) \in 1..Cardinality(A)
  BY <1>2
<1>4. PICK i \in A : Rank(A, i) = Cardinality(A)
  BY <1>3, RankSurjective
<1>5. ASSUME NEW j \in A PROVE ~(i < j)
  <2>1. Rank(A, j) \in 1..Cardinality(A)
    BY RankTypes
  <2>2. ~(Rank(A, i) < Rank(A, j))
    BY <1>2, <1>4, <2>1
  <2>3. QED
    BY <2>2, RankGrows
<1>6. A \subseteq Nat
  OBVIOUS
<1>7. QED
  BY <1>5, <1>6

-----------------------------------------------------------------------------
(***************************************************************************)
(* The entries of a table, and the numbers recorded with it.               *)
(***************************************************************************)
LEMMA TableEntries ==
    ASSUME NEW v, NEW n \in Nat, DOMAIN v.structure = 1..n,
           NEW isSeeded, NEW sectorSize, NEW diskSize
    PROVE  LET table == GeneratePartitionTable(v, sectorSize, diskSize, isSeeded)
               added == Added(v, isSeeded)
           IN  /\ added \in SUBSET (1..n)
               /\ \A i \in added : /\ Rank(added, i) \in DOMAIN table.partitions
                                   /\ table.partitions[Rank(added, i)].structure = i
               /\ \A m \in DOMAIN table.partitions :
                    /\ table.partitions[m].structure \in added
                    /\ Rank(added, table.partitions[m].structure) = m
                    /\ table.partitions[m] =
                         Partition(v, table.partitions[m].structure, sectorSize)
<1> DEFINE table == GeneratePartitionTable(v, sectorSize, diskSize, isSeeded)
           added == Added(v, isSeeded)
           numbered(m) == CHOOSE i \in added : PartitionNumber(v, isSeeded, i) = m
<1>1. added \in SUBSET (1..n)
  BY DEF Added
<1>2. \A i \in added : PartitionNumber(v, isSeeded, i) = Rank(added, i)
  BY DEF PartitionNumber, Rank, Before
<1>3. table.partitions = [m \in 1..Cardinality(added) |-> Partition(v, numbered(m), sectorSize)]
  BY DEF GeneratePartitionTable
<1>4. \A i : Partition(v, i, sectorSize).structure = i
  BY DEF Partition
<1> HIDE DEF added, table
<1>5. \A m \in 1..Cardinality(added) :
        numbered(m) \in added /\ Rank(added, numbered(m)) = m
  <2> TAKE m \in 1..Cardinality(added)
  <2>1. \E i \in added : Rank(added, i) = m
    BY <1>1, RankSurjective
  <2>2. numbered(m) \in added /\ PartitionNumber(v, isSeeded, numbered(m)) = m
    BY <1>2, <2>1
  <2>3. QED
    BY <1>2, <2>2
<1> HIDE DEF numbered
<1>6. \A m \in 1..Cardinality(added) :
        /\ table.partitions[m].structure = numbered(m)
        /\ table.partitions[m] = Partition(v, table.partitions[m].structure, sectorSize)
  BY <1>3, <1>4
<1>7. ASSUME NEW i \in added
      PROVE  /\ Rank(added, i) \in 1..Cardinality(added)
             /\ table.partitions[Rank(added, i)].structure = i
  <2>1. Rank(added, i) \in 1..Cardinality(added)
    BY <1>1, RankTypes
  <2>2. /\ numbered(Rank(added, i)) \in added
        /\ Rank(added, numbered(Rank(added, i))) = Rank(added, i)
    BY <1>5, <2>1
  <2>3. numbered(Rank(added, i)) = i
    BY <1>1, <2>2, RankInjective
  <2>4. QED
    BY <1>6, <2>1, <2>3
<1>8. DOMAIN table.partitions = 1..Cardinality(added)
  BY <1>3
<1>9. QED
  BY <1>1, <1>5, <1>6, <1>7, <1>8 DEF table, added

LEMMA LastNumbers ==
    ASSUME NEW v, NEW n \in Nat, DOMAIN v.structure = 1..n, NEW isSeeded,
           NEW S \in SUBSET Added(v, isSeeded), LastNumber(v, isSeeded, S) # -1
    PROVE  \E i \in S : LastNumber(v, isSeeded, S) = Rank(Added(v, isSeeded), i)
<1>1. S # {} /\ S \in SUBSET (1..n)
  BY DEF LastNumber, Added
<1> DEFINE last == CHOOSE i \in S : \A j \in S : j <= i
<1>2. last \in S
  BY <1>1, Largest
<1>3. LastNumber(v, isSeeded, S) = PartitionNumber(v, isSeeded, last)
  BY <1>1 DEF LastNumber
<1> HIDE DEF last
<1>4. PartitionNumber(v, isSeeded, last) = Rank(Added(v, isSeeded), last)
  BY DEF PartitionNumber, Rank, Before
<1>5. QED
  BY <1>2, <1>3, <1>4

\* A table with a rootfs partition has all of its numbers right: when the
\* rootfs is there the image is not seeded, and no boot structure is skipped.
LEMMA TableNumbers ==
    ASSUME NEW v, NEW n \in Nat, DOMAIN v.structure = 1..n,
           NEW isSeeded, NEW sectorSize, NEW diskSize, NEW table,
           table = GeneratePartitionTable(v, sectorSize, diskSize, isSeeded),
           table.rootfs # -1
    PROVE  /\ table.rootfs \in DOMAIN table.partitions
           /\ IsRootfsStructure(v.structure[table.partitions[table.rootfs].structure])
           /\ table.boot # -1 =>
                /\ table.boot \in DOMAIN table.partitions
                /\ IsSystemBootStructure(v.structure[table.partitions[table.boot].structure])
           /\ table.bios <=> \E m \in DOMAIN table.partitions :
                               IsBIOSBootStructure(v.structure[table.partitions[m].structure])
<1> DEFINE added == Added(v, isSeeded)
           rootfs == {i \in added : IsRootfsStructure(v.structure[i])}
           boot == {i \in DOMAIN v.structure : IsSystemBootStructure(v.structure[i])}
<1>1. /\ table.rootfs = LastNumber(v, isSeeded, rootfs)
      /\ table.boot = LastNumber(v, isSeeded, boot)
      /\ table.bios = \E s \in {v.structure[i] : i \in DOMAIN v.structure} : IsBIOSBootStructure(s)
  BY DEF GeneratePartitionTable, RootfsNumber, BootNumber
<1>2. /\ added \in SUBSET (1..n)
      /\ \A i \in added : /\ Rank(added, i) \in DOMAIN table.partitions
                          /\ table.partitions[Rank(added, i)].structure = i
      /\ \A m \in DOMAIN table.partitions : table.partitions[m].structure \in added
  BY TableEntries
<1>3. PICK r \in rootfs : table.rootfs = Rank(added, r)
  <2>1. rootfs \in SUBSET added
    OBVIOUS
  <2>2. LastNumber(v, isSeeded, rootfs) # -1
    BY <1>1
  <2> HIDE DEF rootfs
  <2>3. \E i \in rootfs : LastNumber(v, isSeeded, rootfs) = Rank(added, i)
    BY <2>1, <2>2, LastNumbers
  <2>4. QED
    BY <1>1, <2>3
<1>4. ~isSeeded
  BY <1>3 DEF Added, ShouldSkipStructure, IsRootfsStructure
<1>5. ASSUME NEW i \in DOMAIN v.structure, IsSystemBootStructure(v.structure[i])
      PROVE  i \in added
  BY <1>4, <1>5 DEF Added, ShouldSkipStructure, IsPartition, IsSystemBootStructure
<1>6. table.boot # -1 => \E b \in boot : table.boot = Rank(added, b)
  <2>1. boot \in SUBSET added
    BY <1>5
  <2> HIDE DEF boot, added
  <2>2. LastNumber(v, isSeeded, boot) # -1 =>
          \E i \in boot : LastNumber(v, isSeeded, boot) = Rank(added, i)
    BY <2>1, LastNumbers DEF added
  <2>3. QED
    BY <1>1, <2>2
<1>7. \A i \in DOMAIN v.structure : IsBIOSBootStructure(v.structure[i]) =>
        IsSystemBootStructure(v.structure[i])
  BY DEF IsBIOSBootStructure, IsSystemBootStructure
<1>8. table.bios <=> \E i \in DOMAIN v.structure : IsBIOSBootStructure(v.structure[i])
  BY <1>1
<1>9. added \subseteq DOMAIN v.structure
  BY <1>2
<1> HIDE DEF added
<1>10. table.bios => \E m \in DOMAIN table.partitions :
                       IsBIOSBootStructure(v.structure[table.partitions[m].structure])
  <2> SUFFICES ASSUME NEW i \in DOMAIN v.structure, IsBIOSBootStructure(v.structure[i])
               PROVE  \E m \in DOMAIN table.partitions :
                        IsBIOSBootStructure(v.structure[table.partitions[m].structure])
    BY <1>8
  <2>1. i \in added
    BY <1>5, <1>7
  <2>2. QED
    BY <1>2, <2>1
<1>11. (\E m \in DOMAIN table.partitions :
          IsBIOSBootStructure(v.structure[table.partitions[m].structure])) => table.bios
  BY <1>2, <1>8, <1>9
<1>12. /\ table.rootfs \in DOMAIN table.partitions
       /\ IsRootfsStructure(v.structure[table.partitions[table.rootfs].structure])
  <2>1. r \in added /\ IsRootfsStructure(v.structure[r])
    OBVIOUS
  <2>2. QED
    BY <1>2, <1>3, <2>1
<1>13. ASSUME table.boot # -1
       PROVE  /\ table.boot \in DOMAIN table.partitions
              /\ IsSystemBootStructure(v.structure[table.partitions[table.boot].structure])
  <2>1. PICK b \in boot : table.boot = Rank(added, b)
    BY <1>6, <1>13
  <2>2. b \in added /\ IsSystemBootStructure(v.structure[b])
    BY <1>5
  <2>3. QED
    BY <1>2, <2>1, <2>2
<1>14. QED
  BY <1>10, <1>11, <1>12, <1>13

-----------------------------------------------------------------------------
(***************************************************************************)
(* The table of a volume whose structures are in order on a disk that has  *)
(* room for them and for the table itself.                                 *)
(***************************************************************************)
\* Structures in order and apart, partitions at sectors after the table.
TidyAt(u, b, i) ==
    LET s == u.structure[i]
        start == StartOffset(u)
    IN  /\ start[i] \in Nat /\ s.min <= s.size
        /\ start[i] + s.size <= VolumeSize(u)
        /\ s.offsetWrite => s.offset = start[i]
        /\ \A j \in DOMAIN u.structure : i < j => start[i] + s.size <= start[j]
        /\ IsPartition(s) => start[i] % b = 0 /\ start[i] >= primaryGPTSectors(b) * b
Tidy(u, b) == \A i \in DOMAIN u.structure : TidyAt(u, b, i)

LEMMA TableSize ==
    ASSUME NEW v, NEW b \in KnownSizes
    PROVE  /\ PartitionTableSize(v, b) \in Nat /\ PartitionTableSize(v, b) >= b
           /\ PartitionTableSize(v, b) % b = 0
           /\ PartitionTableSize(v, b) =
                (IF v.schema = "mbr" THEN 1
                 ELSE primaryGPTSectors(b) + secondaryGPTSectors(b)) * b
           /\ primaryGPTSectors(b) \in Nat \ {0} /\ secondaryGPTSectors(b) \in Nat
<1>1. CASE b = 512
  BY <1>1 DEF PartitionTableSize, primaryGPTSectors, secondaryGPTSectors,
              gptPartitionEntriesSectors
<1>2. CASE b = 4096
  BY <1>2 DEF PartitionTableSize, primaryGPTSectors, secondaryGPTSectors,
              gptPartitionEntriesSectors
<1>3. QED
  BY <1>1, <1>2 DEF KnownSizes

\* A structure that is a partition, in sectors.
LEMMA StructureFits ==
    ASSUME NEW u \in Volumes, NEW b \in KnownSizes, Tidy(u, b),
           NEW x \in Nat, x % b = 0, VolumeSize(u) <= x,
           NEW i \in DOMAIN u.structure, IsPartition(u.structure[i]),
           NEW start, start = StartOffset(u)[i],
           NEW size, size = u.structure[i].size
    PROVE  /\ size \in Nat /\ Ceil(size, b) \in Nat /\ start \in Nat /\ start % b = 0
           /\ start \div b \in Nat /\ Ceil(start, b) = start \div b
           /\ primaryGPTSectors(b) <= start \div b
           /\ start \div b + Ceil(size, b) <= x \div b
<1>1. TidyAt(u, b, i)
  BY DEF Tidy
<1>2. size \in Nat
  <2>1. /\ DOMAIN u.structure = 1..Len(u.structure)
        /\ \A j \in 1..Len(u.structure) : u.structure[j] \in Structures
    BY Geometry
  <2>2. u.structure[i] \in Structures
    BY <2>1
  <2>3. QED
    BY <2>2 DEF Structures
<1>3. /\ start \in Nat /\ start % b = 0 /\ start >= primaryGPTSectors(b) * b
      /\ start + size <= VolumeSize(u)
  BY <1>1 DEF TidyAt
<1>4. start + size <= x
  <2>1. VolumeSize(u) \in Nat
    <3>1. /\ Len(u.structure) \in Nat /\ DOMAIN u.structure = 1..Len(u.structure)
          /\ Sizes(u) \in [1..Len(u.structure) -> Nat]
          /\ Laid(StartOffset(u), Len(u.structure), Offsets(u), Sizes(u))
          /\ VolumeSize(u) = IF Len(u.structure) = 0 THEN 0
                             ELSE StartOffset(u)[Len(u.structure)] + Sizes(u)[Len(u.structure)]
      BY Geometry
    <3> DEFINE n == Len(u.structure)
    <3> HIDE DEF n
    <3>2. n # 0 /\ n \in 1..n
      BY <3>1 DEF n
    <3>3. QED
      BY <3>1, <3>2 DEF Laid, n
  <2>2. QED
    BY <1>2, <1>3, <2>1
<1>5. start \div b + Ceil(size, b) <= x \div b
  BY <1>2, <1>3, <1>4, SectorOrder
<1>6. Ceil(size, b) \in Nat
  BY <1>2, CeilTypes
<1>7. Ceil(start, b) = start \div b
  BY <1>3, CeilExact
<1>8. start \div b \in Nat /\ primaryGPTSectors(b) <= start \div b
  <2>1. primaryGPTSectors(b) \in Nat
    BY TableSize
  <2>2. QED
    BY <1>3, <2>1, Sectors
<1>9. QED
  BY <1>2, <1>3, <1>5, <1>6, <1>7, <1>8

EntryRight(u, b, isSeeded, disk, p) ==
    LET i == p.structure IN
    /\ i \in Added(u, isSeeded)
    /\ p.start = StartOffset(u)[i] \div b /\ p.start \in Nat
    /\ p.sectors \in Nat /\ p.sectors <= Ceil(u.structure[i].size, b)
    /\ u.structure[i].size % b = 0 => p.sectors * b = u.structure[i].size
    /\ (IF u.schema = "mbr" THEN 1 ELSE primaryGPTSectors(b)) <= p.start
    /\ p.start + p.sectors
         <= disk \div b - IF u.schema = "mbr" THEN 0 ELSE secondaryGPTSectors(b)

LEMMA EntryFits ==
    ASSUME NEW u \in Volumes, NEW b \in KnownSizes, Tidy(u, b),
           NEW x \in Nat, x % b = 0, VolumeSize(u) <= x,
           NEW disk, disk = x + PartitionTableSize(u, b),
           disk \div b < IF u.schema = "mbr" THEN MBRWord ELSE Word,
           NEW isSeeded, NEW i \in Added(u, isSeeded)
    PROVE  /\ EntryRight(u, b, isSeeded, disk, Partition(u, i, b))
           /\ u.schema # "mbr" =>
                ~structureOverlapsTable(Ceil(StartOffset(u)[i], b), u.structure[i].size, disk, b)
<1> DEFINE start == StartOffset(u)[i]
           size == u.structure[i].size
           sectors == Ceil(size, b)
           whole == size \div b
           p == Partition(u, i, b)
           first == primaryGPTSectors(b)
           last == secondaryGPTSectors(b)
           k == IF u.schema = "mbr" THEN 1 ELSE first + last
<1>1. i \in DOMAIN u.structure /\ IsPartition(u.structure[i])
  BY DEF Added
<1>2. /\ size \in Nat /\ sectors \in Nat /\ start \in Nat /\ start % b = 0
      /\ start \div b \in Nat /\ Ceil(start, b) = start \div b
      /\ first <= start \div b
      /\ start \div b + sectors <= x \div b
  BY <1>1, StructureFits
<1>3. /\ PartitionTableSize(u, b) = k * b /\ first \in Nat \ {0} /\ last \in Nat
      /\ k \in Nat
  BY TableSize
<1>8. /\ whole \in Nat /\ whole <= sectors
      /\ size % b = 0 => whole * b = size /\ sectors * b = size
  <2>1. size \in Nat
    BY <1>2
  <2> HIDE DEF size
  <2>2. QED
    BY <2>1, WholeParts
<1> HIDE DEF start, size, sectors, whole, first, last
<1>4. disk \div b = x \div b + k /\ Ceil(disk, b) = x \div b + k /\ x \div b \in Nat
  <2> HIDE DEF k
  <2>1. QED
    BY <1>3, Sectors
<1>5. CASE u.schema = "mbr"
  <2>1. start \div b < MBRWord /\ sectors < MBRWord
    BY <1>2, <1>4, <1>5, WordAssumption
  <2>2. p = [structure |-> i, start |-> Ceil(start, b) % MBRWord,
             sectors |-> sectors % MBRWord,
             bootable |-> IsSystemBootStructure(u.structure[i])]
    BY <1>5 DEF Partition, start, size, sectors
  <2>3. (start \div b) % MBRWord = start \div b /\ sectors % MBRWord = sectors
    BY <1>2, <2>1, WordAssumption, SmallRemainder
  <2>4. p.structure = i /\ p.start = start \div b /\ p.sectors = sectors
    BY <1>2, <2>2, <2>3
  <2> HIDE DEF p
  <2>5. EntryRight(u, b, isSeeded, disk, p)
    <3>1. 1 <= p.start /\ p.start + p.sectors <= disk \div b - 0
      BY <1>2, <1>3, <1>4, <1>5, <2>4
    <3>2. QED
      BY <1>2, <1>5, <1>8, <2>4, <3>1 DEF EntryRight, start, size, sectors
  <2>6. QED
    BY <1>5, <2>5 DEF p
<1>6. CASE u.schema # "mbr"
  <2>1. p = [structure |-> i, start |-> Ceil(start, b), sectors |-> whole, bootable |-> FALSE]
    BY <1>6 DEF Partition, start, size, whole
  <2>2. p.structure = i /\ p.start = start \div b /\ p.sectors = whole
    BY <1>2, <2>1
  <2> HIDE DEF p
  <2>3. EntryRight(u, b, isSeeded, disk, p)
    <3>1. first <= p.start /\ p.start + p.sectors <= disk \div b - last
      BY <1>2, <1>3, <1>4, <1>6, <1>8, <2>2
    <3>2. QED
      BY <1>2, <1>6, <1>8, <2>2, <3>1 DEF EntryRight, start, size, sectors, first, last
  <2>4. (Ceil(disk, b) - last) % Word = x \div b + first
    <3>1. Ceil(disk, b) - last = x \div b + first /\ x \div b + first \in Nat
      BY <1>3, <1>4, <1>6
    <3>2. x \div b + first < Word
      BY <1>3, <1>4, <1>6, WordAssumption
    <3>3. QED
      BY <3>1, <3>2, WordAssumption, SmallRemainder
  <2>5. ~structureOverlapsTable(Ceil(start, b), size, disk, b)
    <3>1. ~(Ceil(start, b) < first) /\ ~(Ceil(start, b) + sectors > x \div b + first)
      BY <1>2, <1>3, <1>4
    <3>2. QED
      BY <2>4, <3>1 DEF structureOverlapsTable, first, last, sectors
  <2>6. QED
    BY <2>3, <2>5 DEF p, start, size
<1>7. QED
  BY <1>5, <1>6

LEMMA TableFits ==
    ASSUME NEW u \in Volumes, NEW b \in KnownSizes, Tidy(u, b),
           NEW x \in Nat, x % b = 0, VolumeSize(u) <= x,
           NEW disk, disk = x + PartitionTableSize(u, b),
           disk \div b < IF u.schema = "mbr" THEN MBRWord ELSE Word,
           NEW isSeeded, NEW table, table = GeneratePartitionTable(u, b, disk, isSeeded)
    PROVE  /\ table.ok
           /\ \A m \in DOMAIN table.partitions :
                EntryRight(u, b, isSeeded, disk, table.partitions[m])
           /\ \A m, k \in DOMAIN table.partitions :
                LET p == table.partitions[m]
                    q == table.partitions[k]
                IN  m = k \/ p.start + p.sectors <= q.start \/ q.start + q.sectors <= p.start
<1> DEFINE added == Added(u, isSeeded)
           n == Len(u.structure)
<1>1. n \in Nat /\ DOMAIN u.structure = 1..n
  BY Geometry
<1>2. \A m \in DOMAIN table.partitions :
        /\ table.partitions[m].structure \in added
        /\ Rank(added, table.partitions[m].structure) = m
        /\ table.partitions[m] = Partition(u, table.partitions[m].structure, b)
  <2> HIDE DEF n
  <2>1. n \in Nat /\ DOMAIN u.structure = 1..n
    BY <1>1
  <2> HIDE DEF added
  <2>2. \A m \in DOMAIN GeneratePartitionTable(u, b, disk, isSeeded).partitions :
          /\ table.partitions[m].structure \in added
          /\ Rank(added, table.partitions[m].structure) = m
          /\ table.partitions[m] = Partition(u, table.partitions[m].structure, b)
    BY <2>1, TableEntries DEF added
  <2>3. QED
    BY <2>2
<1>3. table.ok
  <2>1. table.ok <=> \/ u.schema = "mbr"
                     \/ \A i \in added :
                          ~structureOverlapsTable(Ceil(StartOffset(u)[i], b),
                                                  u.structure[i].size, disk, b)
    BY DEF GeneratePartitionTable
  <2>2. QED
    BY <2>1, EntryFits
<1>4. ASSUME NEW m \in DOMAIN table.partitions
      PROVE  EntryRight(u, b, isSeeded, disk, table.partitions[m])
  <2>1. EntryRight(u, b, isSeeded, disk, Partition(u, table.partitions[m].structure, b))
    BY <1>2, EntryFits
  <2>2. QED
    BY <1>2, <2>1
<1>5. ASSUME NEW m \in DOMAIN table.partitions, NEW k \in DOMAIN table.partitions,
             table.partitions[m].structure < table.partitions[k].structure
      PROVE  table.partitions[m].start + table.partitions[m].sectors
               <= table.partitions[k].start
  <2> DEFINE i == table.partitions[m].structure
             j == table.partitions[k].structure
             start(y) == StartOffset(u)[y]
             size == u.structure[i].size
  <2>1. /\ i \in added /\ j \in added
        /\ table.partitions[m].start = start(i) \div b
        /\ table.partitions[m].sectors \in Nat
        /\ table.partitions[m].sectors <= Ceil(size, b)
        /\ table.partitions[k].start = start(j) \div b
    BY <1>4 DEF EntryRight
  <2> HIDE DEF i, j
  <2>2. /\ i \in DOMAIN u.structure /\ j \in DOMAIN u.structure
        /\ IsPartition(u.structure[i]) /\ IsPartition(u.structure[j])
    BY <2>1 DEF Added
  <2>3. /\ size \in Nat /\ start(i) \in Nat /\ start(i) % b = 0
        /\ start(j) \in Nat /\ start(j) % b = 0
    BY <2>2, StructureFits
  <2>4. start(i) + size <= start(j)
    <3>1. TidyAt(u, b, i) /\ i < j
      BY <1>5, <2>2 DEF Tidy, i, j
    <3>2. QED
      BY <2>2, <3>1 DEF TidyAt
  <2> HIDE DEF start, size
  <2>5. start(i) \div b + Ceil(size, b) <= start(j) \div b
    BY <2>3, <2>4, SectorOrder
  <2>6. /\ start(i) \div b \in Nat /\ start(j) \div b \in Nat /\ Ceil(size, b) \in Nat
    BY <2>3, CeilTypes, CeilExact
  <2>7. QED
    BY <2>1, <2>5, <2>6
<1>6. ASSUME NEW m \in DOMAIN table.partitions, NEW k \in DOMAIN table.partitions, m # k
      PROVE  \/ table.partitions[m].structure < table.partitions[k].structure
             \/ table.partitions[k].structure < table.partitions[m].structure
  <2>1. /\ table.partitions[m].structure # table.partitions[k].structure
        /\ table.partitions[m].structure \in added /\ table.partitions[k].structure \in added
    BY <1>2, <1>6
  <2>2. added \subseteq 1..n
    BY <1>1 DEF Added
  <2>3. \A i, j \in 1..n : i # j => i < j \/ j < i
    OBVIOUS
  <2> HIDE DEF added, n
  <2>4. QED
    BY <2>1, <2>2, <2>3
<1>7. QED
  BY <1>3, <1>4, <1>5, <1>6
=============================================================================
