------------------------ MODULE AnalyticsSummaryProofs ------------------------
(***************************************************************************)
(* Proofs about AnalyticsSummary, for any tables, users, dates and any     *)
(* number of writes, and for either way in which a rounded half may go.    *)
(* First the arithmetic of _pct; then what one write does to the number of *)
(* jobs of some kinds; then, query by query, by how much what has been     *)
(* read may differ from what the later queries will find.                  *)
(***************************************************************************)
EXTENDS AnalyticsSummary, FiniteSetTheorems, TLAPS

-----------------------------------------------------------------------------
(* Rounding                                                                *)

\* The nearest per cent is off by half a per cent at most.
LEMMA PctNearest ==
    ASSUME NEW n \in Nat, NEW d \in Nat \ {0}
    PROVE  /\ Pct(n, d) \in Nat
           /\ 2 * (Pct(n, d) * d) <= 200 * n + d
           /\ 200 * n <= 2 * (Pct(n, d) * d) + d
<1> DEFINE down == (100 * n) \div d
           rest == (100 * n) % d
<1>1. down \in Nat /\ rest \in 0..(d - 1) /\ 100 * n = down * d + rest
  OBVIOUS
<1>2. /\ Pct(n, d) \in {down, down + 1}
      /\ Pct(n, d) = down + 1 => 2 * rest >= d
      /\ Pct(n, d) = down => 2 * rest <= d
  <2> HIDE DEF down, rest
  <2>1. Pct(n, d) = IF 2 * rest > d \/ (2 * rest = d /\ TieUp(n, d)) THEN down + 1 ELSE down
    BY DEF Pct, down, rest
  <2> QED  BY <1>1, <2>1
<1> HIDE DEF down, rest
<1> DEFINE product == down * d
<1>3. product \in Nat /\ (down + 1) * d = product + d
  BY <1>1
<1>4. 100 * n = product + rest
  BY <1>1
<1> HIDE DEF product
<1>5. CASE Pct(n, d) = down
  <2>1. Pct(n, d) * d = product
    BY <1>5 DEF product
  <2> QED  BY <1>1, <1>2, <1>3, <1>4, <1>5, <2>1
<1>6. CASE Pct(n, d) = down + 1
  <2>1. Pct(n, d) * d = product + d
    BY <1>3, <1>6
  <2> QED  BY <1>1, <1>2, <1>3, <1>4, <1>6, <2>1
<1> QED  BY <1>2, <1>5, <1>6

\* The same of an empty period too.
LEMMA PctIsNearest ==
    ASSUME NEW n \in Nat, NEW d \in Nat, n <= d
    PROVE  Pct(n, d) \in Nat /\ Nearest(Pct(n, d), n, d)
<1>1. CASE d = 0
  BY <1>1 DEF Pct, Nearest
<1>2. CASE d # 0
  <2> DEFINE product == Pct(n, d) * d
  <2>1. /\ Pct(n, d) \in Nat
        /\ 2 * product <= 200 * n + d /\ 200 * n <= 2 * product + d
    BY <1>2, PctNearest
  <2>2. product \in Nat
    BY <2>1
  <2> HIDE DEF product
  <2>3. -d <= 2 * (100 * n - product) /\ 2 * (100 * n - product) <= d
    BY <2>1, <2>2
  <2> QED  BY <2>1, <2>3 DEF Nearest, product
<1> QED  BY <1>1, <1>2

\* A missing delta of a rate says that the rate compared with rounded to 0.
LEMMA DeltaComparable ==
    ASSUME NEW c \in Nat, NEW n \in Nat, NEW d \in Nat, n <= d
    PROVE  Comparable(Delta(c, Pct(n, d)), n, d)
<1>1. Pct(n, d) \in Nat /\ Nearest(Pct(n, d), n, d)
  BY PctIsNearest
<1>2. Delta(c, Pct(n, d)) = None <=> Pct(n, d) = 0
  BY <1>1, SummaryAssumption DEF Delta
<1>3. n = 0 => Pct(n, d) = 0
  <2> SUFFICES ASSUME n = 0, d # 0 PROVE Pct(0, d) = 0
    BY DEF Pct
  <2>1. (100 * 0) \div d = 0 /\ (100 * 0) % d = 0
    OBVIOUS
  <2> QED  BY <2>1 DEF Pct
<1>4. Pct(n, d) = 0 => 200 * n <= d
  BY <1>1 DEF Nearest
<1> QED  BY <1>2, <1>3, <1>4 DEF Comparable

\* A part has no greater per cent than the whole, however halves are rounded.
LEMMA PctMonotone ==
    ASSUME NEW m \in Nat, NEW n \in Nat, NEW d \in Nat, m <= n
    PROVE  Pct(m, d) <= Pct(n, d)
<1>1. CASE d = 0
  BY <1>1 DEF Pct
<1>2. CASE d # 0 /\ m = n
  <2>1. Pct(n, d) \in Nat
    BY <1>2, PctNearest
  <2> QED  BY <1>2, <2>1
<1>3. CASE d # 0 /\ m < n
  <2> DEFINE p == Pct(m, d)
             q == Pct(n, d)
  <2>1. /\ p \in Nat /\ 2 * (p * d) <= 200 * m + d
        /\ q \in Nat /\ 200 * n <= 2 * (q * d) + d
    <3>1. p \in Nat /\ 2 * (p * d) <= 200 * m + d
      BY <1>3, PctNearest
    <3>2. q \in Nat /\ 200 * n <= 2 * (q * d) + d
      BY <1>3, PctNearest
    <3> QED  BY <3>1, <3>2
  <2> HIDE DEF p, q
  <2> SUFFICES ASSUME q < p PROVE FALSE
    BY <2>1 DEF p, q
  <2>2. PICK k \in Nat : p = q + 1 + k
    <3>1. p - q - 1 \in Nat /\ p = q + 1 + (p - q - 1)
      BY <2>1
    <3> QED  BY <3>1
  <2>3. p * d = q * d + d + k * d /\ k * d \in Nat /\ q * d \in Nat /\ p * d \in Nat
    BY <2>1, <2>2
  <2> QED  BY <1>3, <2>1, <2>3
<1> QED  BY <1>1, <1>2, <1>3

LEMMA PctType ==
    ASSUME NEW n \in Nat, NEW d \in Nat, n <= d
    PROVE  Pct(n, d) \in 0..100
<1>1. CASE d = 0
  BY <1>1 DEF Pct
<1>2. CASE d # 0
  <2> DEFINE p == Pct(n, d)
  <2>1. p \in Nat /\ 2 * (p * d) <= 200 * n + d
    BY <1>2, PctNearest
  <2> HIDE DEF p
  <2> SUFFICES ASSUME p > 100 PROVE FALSE
    BY <2>1 DEF p
  <2>2. PICK k \in Nat : p = 101 + k
    <3>1. p - 101 \in Nat /\ p = 101 + (p - 101)
      BY <2>1
    <3> QED  BY <3>1
  <2>3. p * d = 101 * d + k * d /\ k * d \in Nat
    BY <2>1, <2>2
  <2> QED  BY <1>2, <2>1, <2>3
<1> QED  BY <1>1, <1>2

-----------------------------------------------------------------------------
(* Counting rows                                                           *)

LEMMA RowsAre ==
    ASSUME NEW f, NEW S, \A x \in S : f[x] \in Nat
    PROVE  Rows(f, S) = {r \in S \X (Nat \ {0}) : r[2] <= f[r[1]]}
<1>1. \A r : r \in Rows(f, S) <=> \E x \in S : r \in {x} \X (1 .. f[x])
  BY DEF Rows
<1>2. ASSUME NEW r, r \in Rows(f, S)
      PROVE  r \in S \X (Nat \ {0}) /\ r[2] <= f[r[1]]
  <2>1. PICK x \in S : r \in {x} \X (1 .. f[x])
    BY <1>1, <1>2
  <2> QED  BY <2>1
<1>3. ASSUME NEW r \in S \X (Nat \ {0}), r[2] <= f[r[1]]
      PROVE  r \in Rows(f, S)
  <2>1. r[1] \in S /\ r \in {r[1]} \X (1 .. f[r[1]])
    BY <1>3
  <2> QED  BY <1>1, <2>1
<1> QED  BY <1>2, <1>3

LEMMA RowsOfChart ==
    ASSUME NEW c \in [Weeks -> Nat]
    PROVE  Rows(c, Weeks) = {x \in Weeks \X (Nat \ {0}) : x[2] <= c[x[1]]}
<1>1. \A w \in Weeks : c[w] \in Nat
  OBVIOUS
<1> QED  BY <1>1, RowsAre

\* Fewer kinds have fewer rows.
LEMMA RowsFewer ==
    ASSUME NEW f, NEW T, \A x \in T : f[x] \in Nat, IsFiniteSet(Rows(f, T)), NEW S \in SUBSET T
    PROVE  /\ IsFiniteSet(Rows(f, S)) /\ Cardinality(Rows(f, S)) \in Nat
           /\ Cardinality(Rows(f, T)) \in Nat
           /\ Cardinality(Rows(f, S)) <= Cardinality(Rows(f, T))
<1>1. Rows(f, S) \subseteq Rows(f, T)
  BY DEF Rows
<1> QED  BY <1>1, FS_Subset, FS_CardinalityType

\* Kinds that are told apart have rows of their own.
LEMMA RowsApart ==
    ASSUME NEW f, NEW S, NEW T, \A x \in S \cup T : f[x] \in Nat,
           IsFiniteSet(Rows(f, S \cup T)), S \cap T = {}
    PROVE  Cardinality(Rows(f, S \cup T)) = Cardinality(Rows(f, S)) + Cardinality(Rows(f, T))
<1>1. /\ IsFiniteSet(Rows(f, S)) /\ Cardinality(Rows(f, S)) \in Nat
      /\ IsFiniteSet(Rows(f, T)) /\ Cardinality(Rows(f, T)) \in Nat
  <2>1. S \in SUBSET (S \cup T) /\ T \in SUBSET (S \cup T)
    OBVIOUS
  <2> QED  BY <2>1, RowsFewer
<1>2. Rows(f, S \cup T) = Rows(f, S) \cup Rows(f, T)
  BY DEF Rows
<1>3. Rows(f, S) \cap Rows(f, T) = {}
  <2>1. Rows(f, S) = {r \in S \X (Nat \ {0}) : r[2] <= f[r[1]]}
    BY RowsAre
  <2>2. Rows(f, T) = {r \in T \X (Nat \ {0}) : r[2] <= f[r[1]]}
    BY RowsAre
  <2> QED  BY <2>1, <2>2
<1>4. Cardinality(Rows(f, S) \cap Rows(f, T)) = 0
  BY <1>3, FS_EmptySet
<1>5. Cardinality(Rows(f, S) \cup Rows(f, T))
         = Cardinality(Rows(f, S)) + Cardinality(Rows(f, T))
              - Cardinality(Rows(f, S) \cap Rows(f, T))
  BY <1>1, FS_Union, Zenon
<1>6. Cardinality(Rows(f, S)) + Cardinality(Rows(f, T)) - 0
         = Cardinality(Rows(f, S)) + Cardinality(Rows(f, T))
  BY <1>1
<1> QED  BY <1>2, <1>4, <1>5, <1>6, Zenon

\* One kind has as many rows as the function says.
LEMMA RowsOfOne ==
    ASSUME NEW f, NEW k, f[k] \in Nat
    PROVE  IsFiniteSet(Rows(f, {k})) /\ Cardinality(Rows(f, {k})) = f[k]
<1> DEFINE n == f[k]
           row == [i \in 1..n |-> <<k, i>>]
           column == {k} \X (1..n)
<1>1. Rows(f, {k}) = column
  BY DEF Rows
<1>2. row \in Bijection(1..n, column)
  <2>1. row \in [1..n -> column] /\ DOMAIN row = 1..n
    OBVIOUS
  <2>2. \A a, b \in 1..n : row[a] = row[b] => a = b
    OBVIOUS
  <2>3. \A x \in column : \E i \in 1..n : row[i] = x
    OBVIOUS
  <2> HIDE DEF row, column
  <2> QED  BY <2>1, <2>2, <2>3 DEF Bijection, Injection, Surjection, IsInjective
<1>3. IsFiniteSet(1..n) /\ Cardinality(1..n) = n
  <2>1. 1 \in Int /\ n \in Int /\ n \in Nat
    OBVIOUS
  <2> HIDE DEF n
  <2>2. IsFiniteSet(1..n) /\ Cardinality(1..n) = IF 1 > n THEN 0 ELSE n - 1 + 1
    BY <2>1, FS_Interval, Zenon
  <2> QED  BY <2>1, <2>2
<1> HIDE DEF row, column
<1>4. ExistsBijection(1..n, column)
  BY <1>2 DEF ExistsBijection
<1> QED  BY <1>1, <1>3, <1>4, FS_Bijection

\* A change of one number: every set of kinds gains or loses as much, if that
\* kind is among them.
LEMMA RowsChange ==
    ASSUME NEW T, NEW f \in [T -> Nat], NEW g \in [T -> Nat], NEW k \in T,
           \A x \in T \ {k} : g[x] = f[x], IsFiniteSet(Rows(f, T))
    PROVE  /\ IsFiniteSet(Rows(g, T))
           /\ \A S \in SUBSET T :
                 /\ Cardinality(Rows(f, S)) \in Nat /\ Cardinality(Rows(g, S)) \in Nat
                 /\ k \notin S => Cardinality(Rows(g, S)) = Cardinality(Rows(f, S))
                 /\ k \in S =>
                       Cardinality(Rows(g, S)) + f[k] = Cardinality(Rows(f, S)) + g[k]
<1>1. ASSUME NEW S \in SUBSET T, k \notin S PROVE Rows(g, S) = Rows(f, S)
  <2>1. \A x \in S : g[x] = f[x]
    BY <1>1
  <2> QED  BY <2>1 DEF Rows
<1>2. Rows(g, T) = Rows(g, T \ {k}) \cup Rows(g, {k})
  <2>1. T = (T \ {k}) \cup {k}
    OBVIOUS
  <2> QED  BY <2>1 DEF Rows
<1>3. IsFiniteSet(Rows(g, T))
  <2>1. T \ {k} \in SUBSET T
    OBVIOUS
  <2>2. Rows(g, T \ {k}) = Rows(f, T \ {k})
    BY <1>1, <2>1
  <2>3. IsFiniteSet(Rows(f, T \ {k}))
    BY <2>1, RowsFewer
  <2>4. IsFiniteSet(Rows(g, {k}))
    BY RowsOfOne
  <2> QED  BY <1>2, <2>2, <2>3, <2>4, FS_Union
<1>4. ASSUME NEW S \in SUBSET T
      PROVE  /\ Cardinality(Rows(f, S)) \in Nat /\ Cardinality(Rows(g, S)) \in Nat
             /\ k \notin S => Cardinality(Rows(g, S)) = Cardinality(Rows(f, S))
             /\ k \in S => Cardinality(Rows(g, S)) + f[k] = Cardinality(Rows(f, S)) + g[k]
  <2>1. /\ Cardinality(Rows(f, S)) \in Nat /\ IsFiniteSet(Rows(f, S))
        /\ Cardinality(Rows(g, S)) \in Nat /\ IsFiniteSet(Rows(g, S))
    BY <1>3, RowsFewer
  <2>2. ASSUME k \in S
        PROVE  Cardinality(Rows(g, S)) + f[k] = Cardinality(Rows(f, S)) + g[k]
    <3> DEFINE R == S \ {k}
    <3>1. S = R \cup {k} /\ R \cap {k} = {} /\ R \in SUBSET T /\ k \notin R
      BY <2>2
    <3>2. Cardinality(Rows(f, R)) \in Nat /\ Rows(g, R) = Rows(f, R)
      BY <1>1, <3>1, RowsFewer
    <3> HIDE DEF R
    <3>3. /\ \A x \in R \cup {k} : f[x] \in Nat /\ g[x] \in Nat
          /\ IsFiniteSet(Rows(f, R \cup {k})) /\ IsFiniteSet(Rows(g, R \cup {k}))
      BY <2>1, <3>1
    <3>4. Cardinality(Rows(f, R \cup {k}))
             = Cardinality(Rows(f, R)) + Cardinality(Rows(f, {k}))
      BY <3>1, <3>3, RowsApart
    <3>5. Cardinality(Rows(g, R \cup {k}))
             = Cardinality(Rows(g, R)) + Cardinality(Rows(g, {k}))
      BY <3>1, <3>3, RowsApart
    <3>6. Cardinality(Rows(f, {k})) = f[k] /\ Cardinality(Rows(g, {k})) = g[k]
      BY RowsOfOne
    <3>7. f[k] \in Nat /\ g[k] \in Nat
      OBVIOUS
    <3> QED  BY <3>1, <3>2, <3>4, <3>5, <3>6, <3>7
  <2> QED  BY <1>1, <2>1, <2>2
<1> QED  BY <1>3, <1>4

\* A chart adds up to what it was drawn from: counted by week, and the weeks
\* counted out, the rows of some kinds are as many as before.
LEMMA ChartComplete ==
    ASSUME NEW f \in [Jobs -> Nat], IsFiniteSet(Rows(f, Jobs)), NEW S \in SUBSET Jobs,
           NEW c, c = [w \in Weeks |-> Cardinality(Rows(f, {j \in S : Week(j.created) = w}))]
    PROVE  /\ c \in [Weeks -> Nat] /\ IsFiniteSet(Rows(c, Weeks))
           /\ Cardinality(Rows(c, Weeks)) = Cardinality(Rows(f, S))
<1> DEFINE kinds(w) == {j \in S : Week(j.created) = w}
           part(w) == Rows(f, kinds(w))
           week(r) == Week(r[1].created)
           nth == [w \in Weeks |-> CHOOSE b : b \in Bijection(part(w), 1 .. c[w])]
           mark == [r \in Rows(f, S) |-> <<week(r), nth[week(r)][r]>>]
<1>1. ASSUME NEW w \in Weeks
      PROVE  /\ IsFiniteSet(part(w)) /\ c[w] = Cardinality(part(w)) /\ c[w] \in Nat
             /\ nth[w] \in Bijection(part(w), 1 .. c[w])
  <2>1. kinds(w) \in SUBSET Jobs
    OBVIOUS
  <2>2. IsFiniteSet(part(w)) /\ c[w] = Cardinality(part(w)) /\ c[w] \in Nat
    BY <2>1, RowsFewer
  <2>3. IsFiniteSet(1 .. c[w]) /\ Cardinality(1 .. c[w]) = c[w]
    <3> DEFINE n == c[w]
    <3>1. 1 \in Int /\ n \in Int /\ n \in Nat
      BY <2>2
    <3> HIDE DEF n
    <3>2. IsFiniteSet(1..n) /\ Cardinality(1..n) = IF 1 > n THEN 0 ELSE n - 1 + 1
      BY <3>1, FS_Interval, Zenon
    <3>3. IsFiniteSet(1..n) /\ Cardinality(1..n) = n
      BY <3>1, <3>2
    <3> QED  BY <3>3 DEF n
  <2> HIDE DEF part
  <2>4. ExistsBijection(part(w), 1 .. c[w])
    BY <2>2, <2>3, FS_SameCardinalityBij
  <2>5. \E b : b \in Bijection(part(w), 1 .. c[w])
    BY <2>4 DEF ExistsBijection
  <2>6. nth[w] = CHOOSE b : b \in Bijection(part(w), 1 .. c[w])
    OBVIOUS
  <2> HIDE DEF nth
  <2> QED  BY <2>2, <2>5, <2>6
<1>2. c \in [Weeks -> Nat]
  <2>1. c = [w \in Weeks |-> c[w]]
    OBVIOUS
  <2> QED  BY <1>1, <2>1
<1>3. Rows(c, Weeks) = {x \in Weeks \X (Nat \ {0}) : x[2] <= c[x[1]]}
  BY <1>2, RowsOfChart
<1>4. \A r \in Rows(f, S) : r[1] \in S /\ week(r) \in Weeks /\ r \in part(week(r))
  <2>1. Rows(f, S) = {r \in S \X (Nat \ {0}) : r[2] <= f[r[1]]}
    BY RowsAre
  <2> SUFFICES ASSUME NEW r \in Rows(f, S)
               PROVE  r[1] \in S /\ week(r) \in Weeks /\ r \in part(week(r))
    OBVIOUS
  <2>2. r[1] \in S /\ r[1] \in Jobs /\ r \in S \X (Nat \ {0}) /\ r[2] <= f[r[1]]
    BY <2>1
  <2>3. week(r) \in Weeks
    BY <2>2 DEF Weeks, Jobs
  <2>4. r[1] \in kinds(week(r))
    BY <2>2
  <2>5. part(week(r)) = {x \in kinds(week(r)) \X (Nat \ {0}) : x[2] <= f[x[1]]}
    <3>1. \A x \in kinds(week(r)) : f[x] \in Nat
      OBVIOUS
    <3> HIDE DEF kinds
    <3> QED  BY <3>1, RowsAre
  <2>6. r \in kinds(week(r)) \X (Nat \ {0})
    <3> HIDE DEF kinds
    <3> QED  BY <2>2, <2>4
  <2> HIDE DEF kinds, part
  <2> QED  BY <2>2, <2>3, <2>5, <2>6
<1>5. ASSUME NEW w \in Weeks, NEW r \in part(w)
      PROVE  r \in Rows(f, S) /\ week(r) = w
  <2>1. part(w) = {x \in kinds(w) \X (Nat \ {0}) : x[2] <= f[x[1]]}
    <3>1. \A x \in kinds(w) : f[x] \in Nat
      OBVIOUS
    <3> HIDE DEF kinds
    <3> QED  BY <3>1, RowsAre
  <2>2. Rows(f, S) = {x \in S \X (Nat \ {0}) : x[2] <= f[x[1]]}
    BY RowsAre
  <2> QED  BY <2>1, <2>2
<1> HIDE DEF nth, part, week
<1>6. \A w \in Weeks : /\ \A r \in part(w) : nth[w][r] \in 1 .. c[w]
                       /\ \A q, r \in part(w) : nth[w][q] = nth[w][r] => q = r
                       /\ \A i \in 1 .. c[w] : \E r \in part(w) : nth[w][r] = i
  BY <1>1, ZenonT(30) DEF Bijection, Injection, Surjection, IsInjective
<1>7. mark \in Bijection(Rows(f, S), Rows(c, Weeks))
  <2>1. \A r \in Rows(f, S) : mark[r] = <<week(r), nth[week(r)][r]>>
    OBVIOUS
  <2>2. ASSUME NEW r \in Rows(f, S) PROVE mark[r] \in Rows(c, Weeks)
    <3>1. week(r) \in Weeks /\ nth[week(r)][r] \in 1 .. c[week(r)] /\ c[week(r)] \in Nat
      BY <1>1, <1>4, <1>6
    <3> DEFINE w == week(r)
               i == nth[week(r)][r]
    <3>2. <<w, i>> \in Weeks \X (Nat \ {0}) /\ <<w, i>>[2] <= c[<<w, i>>[1]]
      BY <3>1
    <3> HIDE DEF mark, w, i
    <3>3. <<w, i>> \in Rows(c, Weeks)
      BY <1>3, <3>2
    <3> QED  BY <2>1, <3>3 DEF w, i
  <2>3. mark \in [Rows(f, S) -> Rows(c, Weeks)] /\ DOMAIN mark = Rows(f, S)
    BY <2>2
  <2> HIDE DEF mark
  <2>4. ASSUME NEW q \in Rows(f, S), NEW r \in Rows(f, S), mark[q] = mark[r] PROVE q = r
    <3>1. week(q) = week(r) /\ nth[week(q)][q] = nth[week(r)][r]
      BY <2>1, <2>4
    <3> QED  BY <1>4, <1>6, <3>1
  <2>5. ASSUME NEW x \in Rows(c, Weeks) PROVE \E r \in Rows(f, S) : mark[r] = x
    <3>1. x[1] \in Weeks /\ x[2] \in 1 .. c[x[1]] /\ x = <<x[1], x[2]>>
      <4>1. x \in Weeks \X (Nat \ {0}) /\ x[2] <= c[x[1]]
        BY <1>3
      <4> QED  BY <1>1, <4>1
    <3>2. PICK r \in part(x[1]) : nth[x[1]][r] = x[2]
      BY <1>6, <3>1
    <3>3. r \in Rows(f, S) /\ week(r) = x[1]
      BY <1>5, <3>1
    <3> QED  BY <2>1, <3>1, <3>2, <3>3
  <2> QED  BY <2>3, <2>4, <2>5 DEF Bijection, Injection, Surjection, IsInjective
<1> HIDE DEF mark
<1>8. ExistsBijection(Rows(f, S), Rows(c, Weeks))
  BY <1>7 DEF ExistsBijection
<1>9. IsFiniteSet(Rows(f, S))
  BY RowsFewer
<1> QED  BY <1>2, <1>8, <1>9, FS_Bijection

-----------------------------------------------------------------------------
(* The invariant                                                           *)

SinceType == [{"inserted", "changed", "deleted", "late"} -> Nat]

SummaryTyped ==
    /\ table \in [Jobs -> Nat] /\ IsFiniteSet(Rows(table, Jobs))
    /\ days \in Nat
    /\ next \in 1..5
    /\ curr \in [Statuses -> Nat] /\ prev \in [Statuses -> Nat] /\ all \in [Statuses -> Nat]
    /\ weekly \in [Weeks -> Nat] /\ IsFiniteSet(Rows(weekly, Weeks))
    /\ since \in SinceType

\* The user's jobs, and those that the queries look at.
Owned == {j \in Jobs : Own(j)}
Between(start, end) == {j \in Owned : Since(j, start) /\ ~ Since(j, end)}
From(start) == {j \in Owned : Since(j, start)}
Earlier == Between(-2 * days, - days)

\* Those of some jobs that got to an interview.
Reached(js) == {j \in js : j.status \in {"interview", "offer"}}

Chart == Cardinality(Rows(weekly, Weeks))

\* What has been read is no more than what there still is and what was deleted, and
\* what there still is no more than what was read and what came later.
Drift ==
    /\ next = 2 =>
          /\ Total(curr) <= CountOf(Owned \ Earlier) + since.deleted
          /\ ReachedInterview(curr)
                <= CountOf(Reached(Owned \ Earlier)) + since.changed + since.deleted
    /\ next \in {2, 3} =>
          /\ Total(curr) <= CountOf(From(- days)) + since.deleted
          /\ CountOf(From(- days)) <= Total(curr) + since.inserted + since.late
    /\ next \in {3, 4} =>
          /\ Total(curr) + Total(prev) <= CountOf(Owned) + since.deleted
          /\ ReachedInterview(curr) + ReachedInterview(prev)
                <= CountOf(Reached(Owned)) + since.changed + since.deleted
    /\ next = 4 => Chart <= CountOf(Owned) + since.deleted
    /\ next \in {4, 5} =>
          /\ Total(curr) <= Chart + since.deleted
          /\ Chart <= Total(curr) + since.inserted + since.late
    /\ next = 5 =>
          /\ Total(curr) + Total(prev) <= Total(all) + since.deleted
          /\ Chart <= Total(all) + since.deleted
          /\ ReachedInterview(curr) + ReachedInterview(prev)
                <= ReachedInterview(all) + since.changed + since.deleted

SummaryInv == SummaryTyped /\ Drift

LEMMA CountType ==
    ASSUME SummaryTyped, NEW S \in SUBSET Jobs
    PROVE  /\ CountOf(S) \in Nat /\ IsFiniteSet(Rows(table, S))
           /\ \A R \in SUBSET S : CountOf(R) \in Nat /\ CountOf(R) <= CountOf(S)
<1>1. \A x \in Jobs : table[x] \in Nat
  BY DEF SummaryTyped
<1>2. IsFiniteSet(Rows(table, S)) /\ CountOf(S) \in Nat
  BY <1>1, RowsFewer DEF SummaryTyped, CountOf
<1>3. ASSUME NEW R \in SUBSET S PROVE CountOf(R) \in Nat /\ CountOf(R) <= CountOf(S)
  <2>1. \A x \in S : table[x] \in Nat
    BY <1>1
  <2> QED  BY <1>2, <2>1, RowsFewer DEF CountOf
<1> QED  BY <1>2, <1>3

LEMMA CountApart ==
    ASSUME SummaryTyped, NEW S \in SUBSET Jobs, NEW T \in SUBSET Jobs, S \cap T = {}
    PROVE  CountOf(S \cup T) = CountOf(S) + CountOf(T)
<1>1. S \cup T \in SUBSET Jobs /\ \A x \in S \cup T : table[x] \in Nat
  BY DEF SummaryTyped
<1>2. IsFiniteSet(Rows(table, S \cup T))
  BY <1>1, CountType
<1> QED  BY <1>1, <1>2, RowsApart DEF CountOf

\* What a query that groups by status returns adds up.
LEMMA ByStatus ==
    ASSUME SummaryTyped, NEW S \in SUBSET Jobs
    PROVE  LET c == [s \in Statuses |-> CountOf({j \in S : j.status = s})]
           IN  /\ c \in [Statuses -> Nat]
               /\ Total(c) = CountOf(S)
               /\ ReachedInterview(c) = CountOf(Reached(S))
<1> DEFINE part(s) == {j \in S : j.status = s}
           c == [s \in Statuses |-> CountOf(part(s))]
<1>1. c \in [Statuses -> Nat]
  <2>1. \A s \in Statuses : part(s) \in SUBSET Jobs
    OBVIOUS
  <2> HIDE DEF part
  <2>2. \A s \in Statuses : CountOf(part(s)) \in Nat
    BY <2>1, CountType
  <2> QED  BY <2>2
<1>2. /\ c["applied"] = CountOf(part("applied"))
      /\ c["interview"] = CountOf(part("interview"))
      /\ c["offer"] = CountOf(part("offer"))
      /\ c["rejected"] = CountOf(part("rejected"))
  <2> HIDE DEF part
  <2> QED  BY DEF Statuses
<1> DEFINE three == part("applied") \cup Reached(S)
<1>3. /\ Reached(S) = part("interview") \cup part("offer")
      /\ part("interview") \cap part("offer") = {}
      /\ part("applied") \cap Reached(S) = {}
      /\ S = three \cup part("rejected") /\ three \cap part("rejected") = {}
      /\ Reached(S) \in SUBSET Jobs /\ three \in SUBSET Jobs
      /\ \A s \in Statuses : part(s) \in SUBSET Jobs
  <2>1. \A j \in S : j.status \in Statuses
    BY DEF Jobs
  <2> QED  BY <2>1 DEF Reached, Statuses
<1> HIDE DEF part, three
<1>4. CountOf(Reached(S)) = CountOf(part("interview")) + CountOf(part("offer"))
  BY <1>3, CountApart DEF Statuses
<1>5. CountOf(three) = CountOf(part("applied")) + CountOf(Reached(S))
  BY <1>3, CountApart DEF Statuses, three
<1>6. CountOf(S) = CountOf(three) + CountOf(part("rejected"))
  <2>1. CountOf(three \cup part("rejected")) = CountOf(three) + CountOf(part("rejected"))
    BY <1>3, CountApart DEF Statuses
  <2> QED  BY <1>3, <2>1
<1>7. \A s \in Statuses : c[s] \in Nat
  BY <1>1
<1> HIDE DEF c
<1>8. Total(c) = CountOf(S) /\ ReachedInterview(c) = CountOf(Reached(S))
  BY <1>2, <1>4, <1>5, <1>6, <1>7 DEF Total, ReachedInterview, Statuses
<1> QED  BY <1>1, <1>8 DEF c, part

\* Sets of the user's jobs that a change of a status does not leave or enter.
Closed(S) ==
    \A j \in Jobs, s \in Statuses : j \in S <=> [j EXCEPT !.status = s] \in S

Writing ==
    \E j \in Jobs : Insert(j) \/ Delete(j) \/ \E s \in Statuses : Change(j, s)

\* What a write may do to the number of some jobs of the user.
LEMMA WriteCounts ==
    ASSUME SummaryTyped, Writing
    PROVE  /\ table' \in [Jobs -> Nat] /\ IsFiniteSet(Rows(table', Jobs))
           /\ since' \in SinceType
           /\ UNCHANGED <<days, next, curr, prev, weekly, all>>
           /\ next # 1 =>
                 /\ since'.late = since.late
                 /\ since.inserted <= since'.inserted
                 /\ since.deleted <= since'.deleted
                 /\ since.changed <= since'.changed
                 /\ \A S \in SUBSET Owned :
                       LET now == CountOf(S)
                           later == Cardinality(Rows(table', S))
                       IN  /\ now \in Nat /\ later \in Nat
                           /\ now + since.changed + since.deleted
                                 <= later + since'.changed + since'.deleted
                           /\ Closed(S) =>
                                 /\ now + since.deleted <= later + since'.deleted
                                 /\ later + since.inserted <= now + since'.inserted
<1>0. /\ table \in [Jobs -> Nat] /\ IsFiniteSet(Rows(table, Jobs)) /\ since \in SinceType
      /\ \A k \in Jobs : table[k] \in Nat
      /\ \A x \in {"inserted", "changed", "deleted", "late"} : since[x] \in Nat
      /\ Owned \subseteq Jobs
  BY DEF SummaryTyped, SinceType, Owned
\* How much one count may move.
<1> DEFINE later(S) == Cardinality(Rows(table', S))
<1>1. ASSUME NEW j \in Jobs, Insert(j)
      PROVE  /\ table' \in [Jobs -> Nat] /\ IsFiniteSet(Rows(table', Jobs))
             /\ \A S \in SUBSET Jobs :
                   /\ CountOf(S) \in Nat /\ later(S) \in Nat
                   /\ later(S) = CountOf(S) + (IF j \in S THEN 1 ELSE 0)
  <2>1. table' = [table EXCEPT ![j] = table[j] + 1]
    BY <1>1 DEF Insert, Recount
  <2>2. /\ table' \in [Jobs -> Nat] /\ table'[j] = table[j] + 1
        /\ \A x \in Jobs \ {j} : table'[x] = table[x]
    BY <1>0, <2>1
  <2>3. /\ IsFiniteSet(Rows(table', Jobs))
        /\ \A S \in SUBSET Jobs :
              /\ CountOf(S) \in Nat /\ later(S) \in Nat
              /\ j \notin S => later(S) = CountOf(S)
              /\ j \in S => later(S) + table[j] = CountOf(S) + table'[j]
    BY <1>0, <2>2, RowsChange DEF CountOf
  <2> HIDE DEF later
  <2> QED  BY <1>0, <2>2, <2>3
<1>2. ASSUME NEW j \in Jobs, Delete(j)
      PROVE  /\ table' \in [Jobs -> Nat] /\ IsFiniteSet(Rows(table', Jobs))
             /\ \A S \in SUBSET Jobs :
                   /\ CountOf(S) \in Nat /\ later(S) \in Nat
                   /\ later(S) + (IF j \in S THEN 1 ELSE 0) = CountOf(S)
  <2>1. table' = [table EXCEPT ![j] = table[j] - 1] /\ table[j] > 0
    BY <1>2 DEF Delete, Recount
  <2>2. /\ table' \in [Jobs -> Nat] /\ table'[j] = table[j] - 1 /\ table'[j] \in Nat
        /\ \A x \in Jobs \ {j} : table'[x] = table[x]
    BY <1>0, <2>1
  <2>3. /\ IsFiniteSet(Rows(table', Jobs))
        /\ \A S \in SUBSET Jobs :
              /\ CountOf(S) \in Nat /\ later(S) \in Nat
              /\ j \notin S => later(S) = CountOf(S)
              /\ j \in S => later(S) + table[j] = CountOf(S) + table'[j]
    BY <1>0, <2>2, RowsChange DEF CountOf
  <2> HIDE DEF later
  <2> QED  BY <1>0, <2>2, <2>3
<1>3. ASSUME NEW j \in Jobs, NEW s \in Statuses, Change(j, s), NEW k \in Jobs,
             k = [j EXCEPT !.status = s]
      PROVE  /\ table' \in [Jobs -> Nat] /\ IsFiniteSet(Rows(table', Jobs))
             /\ \A S \in SUBSET Jobs :
                   /\ CountOf(S) \in Nat /\ later(S) \in Nat
                   /\ later(S) + (IF j \in S THEN 1 ELSE 0)
                         = CountOf(S) + (IF k \in S THEN 1 ELSE 0)
  <2>1. /\ table' = [table EXCEPT ![j] = @ - 1, ![k] = @ + 1]
        /\ table[j] > 0 /\ s # j.status
    BY <1>3 DEF Change, Recount
  <2>2. j # k
    BY <1>3, <2>1 DEF Jobs
  <2> DEFINE middle == [table EXCEPT ![j] = table[j] - 1]
  <2>3. /\ middle \in [Jobs -> Nat] /\ middle[j] = table[j] - 1 /\ middle[j] \in Nat
        /\ \A x \in Jobs \ {j} : middle[x] = table[x]
    BY <1>0, <2>1
  <2>4. /\ table' \in [Jobs -> Nat] /\ table'[k] = middle[k] + 1 /\ middle[k] \in Nat
        /\ \A x \in Jobs \ {k} : table'[x] = middle[x]
    BY <1>0, <2>1, <2>2
  <2> HIDE DEF middle
  <2>5. /\ IsFiniteSet(Rows(middle, Jobs))
        /\ \A S \in SUBSET Jobs :
              /\ CountOf(S) \in Nat /\ Cardinality(Rows(middle, S)) \in Nat
              /\ j \notin S => Cardinality(Rows(middle, S)) = CountOf(S)
              /\ j \in S => Cardinality(Rows(middle, S)) + table[j] = CountOf(S) + middle[j]
    BY <1>0, <2>3, RowsChange DEF CountOf
  <2>6. /\ IsFiniteSet(Rows(table', Jobs))
        /\ \A S \in SUBSET Jobs :
              /\ later(S) \in Nat
              /\ k \notin S => later(S) = Cardinality(Rows(middle, S))
              /\ k \in S => later(S) + middle[k] = Cardinality(Rows(middle, S)) + table'[k]
    BY <2>3, <2>4, <2>5, RowsChange
  <2> HIDE DEF later
  <2>7. ASSUME NEW S \in SUBSET Jobs
        PROVE  later(S) + (IF j \in S THEN 1 ELSE 0) = CountOf(S) + (IF k \in S THEN 1 ELSE 0)
    <3>1. /\ CountOf(S) \in Nat /\ later(S) \in Nat /\ Cardinality(Rows(middle, S)) \in Nat
          /\ table[j] \in Nat /\ middle[k] \in Nat
      BY <1>0, <2>4, <2>5, <2>6
    <3>2. Cardinality(Rows(middle, S)) + (IF j \in S THEN 1 ELSE 0) = CountOf(S)
      BY <2>3, <2>5, <3>1
    <3>3. later(S) = Cardinality(Rows(middle, S)) + (IF k \in S THEN 1 ELSE 0)
      BY <2>4, <2>6, <3>1
    <3> QED  BY <3>1, <3>2, <3>3
  <2> QED  BY <2>4, <2>5, <2>6, <2>7
<1> HIDE DEF later
<1>4. ASSUME NEW j \in Jobs, Insert(j) \/ Delete(j) \/ \E s \in Statuses : Change(j, s)
      PROVE  UNCHANGED <<days, next, curr, prev, weekly, all>>
  BY <1>4 DEF Insert, Delete, Change, Recount
\* The history of a write.
<1>5. ASSUME NEW j \in Jobs, NEW x \in {"inserted", "changed", "deleted"},
             since' = IF next = 1 THEN since
                      ELSE IF j.owner = User THEN [since EXCEPT ![x] = @ + 1] ELSE since
      PROVE  /\ since' \in SinceType
             /\ next # 1 =>
                   /\ since'.late = since.late
                   /\ since'[x] = since[x] + (IF Own(j) THEN 1 ELSE 0)
                   /\ \A y \in {"inserted", "changed", "deleted"} \ {x} : since'[y] = since[y]
  BY <1>0, <1>5 DEF SinceType, Own
<1>6. ASSUME NEW j \in Jobs, NEW S \in SUBSET Owned, j \in S PROVE Own(j)
  BY <1>6 DEF Owned
<1>7. ASSUME NEW j \in Jobs, Insert(j) PROVE
        /\ since' \in SinceType
        /\ next # 1 =>
              /\ since'.late = since.late
              /\ since'.inserted = since.inserted + (IF Own(j) THEN 1 ELSE 0)
              /\ since'.changed = since.changed /\ since'.deleted = since.deleted
  <2>1. since' = IF next = 1 THEN since
                 ELSE IF j.owner = User THEN [since EXCEPT !["inserted"] = @ + 1] ELSE since
    BY <1>7 DEF Insert, Recount
  <2> QED  BY <1>5, <2>1
<1>8. ASSUME NEW j \in Jobs, Delete(j) PROVE
        /\ since' \in SinceType
        /\ next # 1 =>
              /\ since'.late = since.late
              /\ since'.deleted = since.deleted + (IF Own(j) THEN 1 ELSE 0)
              /\ since'.changed = since.changed /\ since'.inserted = since.inserted
  <2>1. since' = IF next = 1 THEN since
                 ELSE IF j.owner = User THEN [since EXCEPT !["deleted"] = @ + 1] ELSE since
    BY <1>8 DEF Delete, Recount
  <2> QED  BY <1>5, <2>1
<1>9. ASSUME NEW j \in Jobs, NEW s \in Statuses, Change(j, s) PROVE
        /\ since' \in SinceType
        /\ next # 1 =>
              /\ since'.late = since.late
              /\ since'.changed = since.changed + (IF Own(j) THEN 1 ELSE 0)
              /\ since'.inserted = since.inserted /\ since'.deleted = since.deleted
  <2>1. since' = IF next = 1 THEN since
                 ELSE IF j.owner = User THEN [since EXCEPT !["changed"] = @ + 1] ELSE since
    BY <1>9 DEF Change, Recount
  <2> QED  BY <1>5, <2>1
<1> DEFINE Goal ==
        /\ table' \in [Jobs -> Nat] /\ IsFiniteSet(Rows(table', Jobs))
        /\ since' \in SinceType
        /\ UNCHANGED <<days, next, curr, prev, weekly, all>>
        /\ next # 1 =>
              /\ since'.late = since.late
              /\ since.inserted <= since'.inserted
              /\ since.deleted <= since'.deleted
              /\ since.changed <= since'.changed
              /\ \A S \in SUBSET Owned :
                    /\ CountOf(S) \in Nat /\ later(S) \in Nat
                    /\ CountOf(S) + since.changed + since.deleted
                          <= later(S) + since'.changed + since'.deleted
                    /\ Closed(S) =>
                          /\ CountOf(S) + since.deleted <= later(S) + since'.deleted
                          /\ later(S) + since.inserted <= CountOf(S) + since'.inserted
<1>10. ASSUME NEW j \in Jobs, Insert(j) PROVE Goal
  <2>1. ASSUME NEW S \in SUBSET Owned
        PROVE  /\ CountOf(S) \in Nat /\ later(S) \in Nat
               /\ CountOf(S) <= later(S)
               /\ later(S) <= CountOf(S) + (IF Own(j) THEN 1 ELSE 0)
    BY <1>0, <1>1, <1>6, <1>10
  <2> QED  BY <1>0, <1>1, <1>4, <1>7, <1>10, <2>1
<1>11. ASSUME NEW j \in Jobs, Delete(j) PROVE Goal
  <2>1. ASSUME NEW S \in SUBSET Owned
        PROVE  /\ CountOf(S) \in Nat /\ later(S) \in Nat
               /\ CountOf(S) <= later(S) + (IF Own(j) THEN 1 ELSE 0)
               /\ later(S) <= CountOf(S)
    BY <1>0, <1>2, <1>6, <1>11
  <2> QED  BY <1>0, <1>2, <1>4, <1>8, <1>11, <2>1
<1>12. ASSUME NEW j \in Jobs, NEW s \in Statuses, Change(j, s) PROVE Goal
  <2> DEFINE k == [j EXCEPT !.status = s]
  <2>0. k \in Jobs
    BY DEF Jobs
  <2>1. ASSUME NEW S \in SUBSET Owned
        PROVE  /\ CountOf(S) \in Nat /\ later(S) \in Nat
               /\ CountOf(S) <= later(S) + (IF Own(j) THEN 1 ELSE 0)
               /\ Closed(S) => later(S) = CountOf(S)
    <3>1. Closed(S) => (j \in S <=> k \in S)
      BY DEF Closed
    <3> HIDE DEF k
    <3>2. /\ CountOf(S) \in Nat /\ later(S) \in Nat
          /\ later(S) + (IF j \in S THEN 1 ELSE 0) = CountOf(S) + (IF k \in S THEN 1 ELSE 0)
      BY <1>0, <1>3, <1>12, <2>0 DEF k
    <3> QED  BY <1>6, <3>1, <3>2
  <2>2. table' \in [Jobs -> Nat] /\ IsFiniteSet(Rows(table', Jobs))
    BY <1>3, <1>12, <2>0
  <2> HIDE DEF k
  <2> QED  BY <1>0, <1>4, <1>9, <1>12, <2>1, <2>2
<1>13. Goal
  BY <1>10, <1>11, <1>12 DEF Writing
<1> QED  BY <1>13 DEF later

LEMMA QueryNumbers ==
    /\ Queries[1] = "current" /\ Queries[2] = "previous" /\ Queries[3] = "weekly"
    /\ Queries[4] = "funnel" /\ Queries[5] = "done"
    /\ \A n \in 1..5 : /\ Queries[n] = "current" => n = 1
                       /\ Queries[n] = "previous" => n = 2
                       /\ Queries[n] = "weekly" => n = 3
                       /\ Queries[n] = "funnel" => n = 4
                       /\ Queries[n] = "done" => n = 5
  BY DEF Queries

\* What the queries look at does not depend on the status.
LEMMA ClosedSets ==
    /\ Closed(Owned) /\ Closed(Owned \ Earlier) /\ Closed(From(- days))
    /\ Owned \in SUBSET Jobs /\ Owned \ Earlier \in SUBSET Owned
    /\ From(- days) \in SUBSET Owned /\ Earlier \in SUBSET Owned
<1>1. ASSUME NEW j \in Jobs, NEW s \in Statuses
      PROVE  /\ [j EXCEPT !.status = s] \in Jobs
             /\ [j EXCEPT !.status = s].owner = j.owner
             /\ [j EXCEPT !.status = s].created = j.created
  BY DEF Jobs
<1>2. Owned \in SUBSET Jobs /\ Owned \ Earlier \in SUBSET Owned
      /\ From(- days) \in SUBSET Owned /\ Earlier \in SUBSET Owned
  BY DEF Owned, Earlier, From, Between
<1>3. ASSUME NEW j \in Jobs, NEW s \in Statuses, NEW k, k = [j EXCEPT !.status = s]
      PROVE  /\ j \in Owned <=> k \in Owned
             /\ j \in Owned \ Earlier <=> k \in Owned \ Earlier
             /\ j \in From(- days) <=> k \in From(- days)
  <2>1. k \in Jobs /\ k.owner = j.owner /\ k.created = j.created
    BY <1>1, <1>3
  <2> QED  BY <2>1 DEF Owned, Earlier, From, Between, Own, Since
<1> QED  BY <1>1, <1>2, <1>3 DEF Closed

LEMMA CountsInAdd ==
    ASSUME SummaryTyped, NEW start \in Int, NEW end \in Int
    PROVE  /\ CountsIn(start, end) \in [Statuses -> Nat]
           /\ Total(CountsIn(start, end)) = CountOf(Between(start, end))
           /\ ReachedInterview(CountsIn(start, end)) = CountOf(Reached(Between(start, end)))
<1>1. ASSUME NEW s \in Statuses
      PROVE  {j \in Jobs : Own(j) /\ j.status = s /\ Since(j, start) /\ ~ Since(j, end)}
                = {j \in Between(start, end) : j.status = s}
  BY DEF Between, Owned
<1>2. CountsIn(start, end)
         = [s \in Statuses |-> CountOf({j \in Between(start, end) : j.status = s})]
  BY <1>1 DEF CountsIn
<1>3. Between(start, end) \in SUBSET Jobs
  BY DEF Between, Owned
<1> QED  BY <1>2, <1>3, ByStatus

LEMMA TotalsType ==
    ASSUME NEW d \in [Statuses -> Nat]
    PROVE  /\ Total(d) \in Nat /\ ReachedInterview(d) \in Nat /\ ReachedResponse(d) \in Nat
           /\ d["offer"] <= ReachedInterview(d)
           /\ ReachedInterview(d) <= ReachedResponse(d) /\ ReachedResponse(d) <= Total(d)
           /\ Total(d) - d["applied"] = ReachedResponse(d)
           /\ d["offer"] \in Nat
<1>1. d["applied"] \in Nat /\ d["interview"] \in Nat /\ d["offer"] \in Nat /\ d["rejected"] \in Nat
  BY DEF Statuses
<1> QED  BY <1>1 DEF Total, ReachedInterview, ReachedResponse

LEMMA InitSummary == Init => SummaryInv
<1> SUFFICES ASSUME Init PROVE SummaryInv
  OBVIOUS
<1>1. days \in Nat
  BY DEF Init, RangeToDays
<1>2. table \in [Jobs -> Nat] /\ IsFiniteSet(Rows(table, Jobs))
  BY SummaryAssumption DEF Init
<1>3. weekly \in [Weeks -> Nat] /\ Rows(weekly, Weeks) = {}
  <2>1. weekly \in [Weeks -> Nat] /\ \A w \in Weeks : weekly[w] = 0
    BY DEF Init, Zero
  <2>2. Rows(weekly, Weeks) = {x \in Weeks \X (Nat \ {0}) : x[2] <= weekly[x[1]]}
    BY <2>1, RowsOfChart
  <2> QED  BY <2>1, <2>2
<1>4. IsFiniteSet(Rows(weekly, Weeks))
  BY <1>3, FS_EmptySet
<1>5. next = 1 /\ since \in SinceType
      /\ curr \in [Statuses -> Nat] /\ prev \in [Statuses -> Nat] /\ all \in [Statuses -> Nat]
  BY DEF Init, Zero, SinceType
<1> QED  BY <1>1, <1>2, <1>3, <1>4, <1>5 DEF SummaryInv, SummaryTyped, Drift

LEMMA WriteSummary ==
    ASSUME SummaryInv, Writing
    PROVE  SummaryInv'
<1>0. SummaryTyped /\ Drift
  BY DEF SummaryInv
<1>1. /\ table' \in [Jobs -> Nat] /\ IsFiniteSet(Rows(table', Jobs))
      /\ since' \in SinceType
      /\ UNCHANGED <<days, next, curr, prev, weekly, all>>
  BY <1>0, WriteCounts
<1>2. SummaryTyped'
  BY <1>0, <1>1 DEF SummaryTyped
<1>3. CASE next = 1
  BY <1>1, <1>2, <1>3 DEF SummaryInv, Drift
<1>4. CASE next # 1
  <2> DEFINE rest == Owned \ Earlier
             period == From(- days)
  <2>1. /\ rest' = rest /\ period' = period /\ Owned' = Owned
    BY <1>1 DEF Earlier, Between, From, Owned, Since, Own
  <2>2. /\ Closed(Owned) /\ Closed(rest) /\ Closed(period)
        /\ Owned \in SUBSET Owned /\ rest \in SUBSET Owned /\ period \in SUBSET Owned
        /\ Reached(rest) \in SUBSET Owned /\ Reached(Owned) \in SUBSET Owned
    BY ClosedSets DEF Reached
  <2>3. /\ CountOf(rest)' = Cardinality(Rows(table', rest))
        /\ CountOf(period)' = Cardinality(Rows(table', period))
        /\ CountOf(Owned)' = Cardinality(Rows(table', Owned))
        /\ CountOf(Reached(rest))' = Cardinality(Rows(table', Reached(rest)))
        /\ CountOf(Reached(Owned))' = Cardinality(Rows(table', Reached(Owned)))
    BY <2>1 DEF CountOf, Reached
  <2> HIDE DEF rest, period
  <2>4. /\ CountOf(rest) + since.deleted <= CountOf(rest)' + since'.deleted
        /\ CountOf(period) + since.deleted <= CountOf(period)' + since'.deleted
        /\ CountOf(period)' + since.inserted <= CountOf(period) + since'.inserted
        /\ CountOf(Owned) + since.deleted <= CountOf(Owned)' + since'.deleted
        /\ CountOf(Reached(rest)) + since.changed + since.deleted
              <= CountOf(Reached(rest))' + since'.changed + since'.deleted
        /\ CountOf(Reached(Owned)) + since.changed + since.deleted
              <= CountOf(Reached(Owned))' + since'.changed + since'.deleted
        /\ CountOf(rest) \in Nat /\ CountOf(period) \in Nat /\ CountOf(Owned) \in Nat
        /\ CountOf(Reached(rest)) \in Nat /\ CountOf(Reached(Owned)) \in Nat
        /\ CountOf(rest)' \in Nat /\ CountOf(period)' \in Nat /\ CountOf(Owned)' \in Nat
        /\ CountOf(Reached(rest))' \in Nat /\ CountOf(Reached(Owned))' \in Nat
        /\ since'.late = since.late /\ since.inserted <= since'.inserted
        /\ since.deleted <= since'.deleted /\ since.changed <= since'.changed
    BY <1>0, <1>4, <2>2, <2>3, WriteCounts
  <2>5. /\ since.late \in Nat /\ since.inserted \in Nat /\ since.deleted \in Nat
        /\ since.changed \in Nat /\ since'.inserted \in Nat /\ since'.deleted \in Nat
        /\ since'.changed \in Nat
    BY <1>0, <1>1 DEF SummaryTyped, SinceType
  <2>6. /\ Total(curr)' = Total(curr) /\ Total(prev)' = Total(prev) /\ Total(all)' = Total(all)
        /\ ReachedInterview(curr)' = ReachedInterview(curr)
        /\ ReachedInterview(prev)' = ReachedInterview(prev)
        /\ ReachedInterview(all)' = ReachedInterview(all)
        /\ Chart' = Chart
    BY <1>1 DEF Total, ReachedInterview, Chart
  <2>7. /\ Total(curr) \in Nat /\ Total(prev) \in Nat /\ Total(all) \in Nat
        /\ ReachedInterview(curr) \in Nat /\ ReachedInterview(prev) \in Nat
        /\ ReachedInterview(all) \in Nat /\ Chart \in Nat
    BY <1>0, TotalsType, FS_CardinalityType DEF SummaryTyped, Chart
  <2>8. CASE next = 2
    <3>1. /\ Total(curr) <= CountOf(rest) + since.deleted
          /\ ReachedInterview(curr) <= CountOf(Reached(rest)) + since.changed + since.deleted
          /\ Total(curr) <= CountOf(period) + since.deleted
          /\ CountOf(period) <= Total(curr) + since.inserted + since.late
      BY <1>0, <2>8 DEF Drift, rest, period
    <3>2. /\ Total(curr)' <= CountOf(rest)' + since'.deleted
          /\ ReachedInterview(curr)'
                <= CountOf(Reached(rest))' + since'.changed + since'.deleted
          /\ Total(curr)' <= CountOf(period)' + since'.deleted
          /\ CountOf(period)' <= Total(curr)' + since'.inserted + since'.late
      BY <2>4, <2>5, <2>6, <2>7, <3>1
    <3> QED  BY <1>1, <1>2, <2>8, <3>2 DEF SummaryInv, Drift, rest, period
  <2>9. CASE next = 3
    <3>1. /\ Total(curr) <= CountOf(period) + since.deleted
          /\ CountOf(period) <= Total(curr) + since.inserted + since.late
          /\ Total(curr) + Total(prev) <= CountOf(Owned) + since.deleted
          /\ ReachedInterview(curr) + ReachedInterview(prev)
                <= CountOf(Reached(Owned)) + since.changed + since.deleted
      BY <1>0, <2>9 DEF Drift, period
    <3>2. /\ Total(curr)' <= CountOf(period)' + since'.deleted
          /\ CountOf(period)' <= Total(curr)' + since'.inserted + since'.late
          /\ Total(curr)' + Total(prev)' <= CountOf(Owned)' + since'.deleted
          /\ ReachedInterview(curr)' + ReachedInterview(prev)'
                <= CountOf(Reached(Owned))' + since'.changed + since'.deleted
      BY <2>4, <2>5, <2>6, <2>7, <3>1
    <3> QED  BY <1>1, <1>2, <2>9, <3>2 DEF SummaryInv, Drift, period
  <2>10. CASE next = 4
    <3>1. /\ Total(curr) + Total(prev) <= CountOf(Owned) + since.deleted
          /\ ReachedInterview(curr) + ReachedInterview(prev)
                <= CountOf(Reached(Owned)) + since.changed + since.deleted
          /\ Chart <= CountOf(Owned) + since.deleted
          /\ Total(curr) <= Chart + since.deleted
          /\ Chart <= Total(curr) + since.inserted + since.late
      BY <1>0, <2>10 DEF Drift
    <3>2. /\ Total(curr)' + Total(prev)' <= CountOf(Owned)' + since'.deleted
          /\ ReachedInterview(curr)' + ReachedInterview(prev)'
                <= CountOf(Reached(Owned))' + since'.changed + since'.deleted
          /\ Chart' <= CountOf(Owned)' + since'.deleted
          /\ Total(curr)' <= Chart' + since'.deleted
          /\ Chart' <= Total(curr)' + since'.inserted + since'.late
      BY <2>4, <2>5, <2>6, <2>7, <3>1
    <3> QED  BY <1>1, <1>2, <2>10, <3>2 DEF SummaryInv, Drift
  <2>11. CASE next = 5
    BY <2>11, QueryNumbers DEF Writing, Insert, Delete, Change, Recount
  <2> QED  BY <1>0, <1>4, <2>8, <2>9, <2>10, <2>11 DEF SummaryTyped
<1> QED  BY <1>3, <1>4

LEMMA QueryCurrent ==
    ASSUME SummaryInv, Query, next = 1
    PROVE  SummaryInv'
<1>0. SummaryTyped /\ days \in Int /\ - days \in Int /\ 0 \in Int
  BY DEF SummaryInv, SummaryTyped
<1> DEFINE period == Between(- days, 0)
           rest == Owned \ Earlier
<1>1. /\ curr' = CountsIn(- days, 0)
      /\ since' = [since EXCEPT !.late = CountOf({j \in Jobs : Own(j) /\ Since(j, 0)})]
      /\ UNCHANGED <<table, days, prev, weekly, all>> /\ next' = 2
  BY QueryNumbers DEF Query, CountCurrent, CountPrevious, CountWeekly, CountFunnel
<1>2. /\ curr' \in [Statuses -> Nat] /\ Total(curr') = CountOf(period)
      /\ ReachedInterview(curr') = CountOf(Reached(period))
  BY <1>0, <1>1, CountsInAdd
<1>3. {j \in Jobs : Own(j) /\ Since(j, 0)} = From(0)
  BY DEF From, Owned
<1>4. /\ From(- days) = period \cup From(0) /\ period \cap From(0) = {}
      /\ period \in SUBSET rest /\ Reached(period) \in SUBSET Reached(rest)
      /\ period \in SUBSET Jobs /\ From(0) \in SUBSET Jobs /\ From(- days) \in SUBSET Jobs
      /\ rest \in SUBSET Jobs /\ Reached(rest) \in SUBSET Jobs
  <2>1. \A j \in Owned : j \in Jobs /\ j.created \in Int
    BY SummaryAssumption DEF Owned, Jobs
  <2>2. days \in Nat
    BY <1>0 DEF SummaryTyped
  <2>3. \A j \in Owned : Since(j, 0) => Since(j, - days)
    BY <2>1, <2>2 DEF Since
  <2> QED  BY <2>1, <2>3 DEF Between, From, Earlier, Reached
<1> HIDE DEF period, rest
<1>5. /\ CountOf(From(- days)) = CountOf(period) + CountOf(From(0))
      /\ CountOf(period) \in Nat /\ CountOf(From(0)) \in Nat /\ CountOf(From(- days)) \in Nat
      /\ CountOf(period) <= CountOf(rest) /\ CountOf(rest) \in Nat
      /\ CountOf(Reached(period)) <= CountOf(Reached(rest))
      /\ CountOf(Reached(period)) \in Nat /\ CountOf(Reached(rest)) \in Nat
  BY <1>0, <1>4, CountApart, CountType
<1>6. /\ since' \in SinceType /\ since'.late = CountOf(From(0))
      /\ since'.deleted \in Nat /\ since'.changed \in Nat /\ since'.inserted \in Nat
  <2>1. since \in SinceType
    BY <1>0 DEF SummaryTyped
  <2> QED  BY <1>1, <1>3, <1>5, <2>1 DEF SinceType
<1>7. SummaryTyped'
  BY <1>0, <1>1, <1>2, <1>6 DEF SummaryTyped
<1>8. /\ CountOf(From(- days))' = CountOf(From(- days))
      /\ CountOf(Owned \ Earlier)' = CountOf(rest)
      /\ CountOf(Reached(Owned \ Earlier))' = CountOf(Reached(rest))
  BY <1>1 DEF rest, CountOf, From, Earlier, Between, Owned, Own, Since, Reached
<1>9. /\ Total(curr)' = CountOf(period) /\ ReachedInterview(curr)' = CountOf(Reached(period))
  BY <1>2 DEF Total, ReachedInterview
<1>10. /\ Total(curr)' <= CountOf(Owned \ Earlier)' + since'.deleted
       /\ ReachedInterview(curr)'
             <= CountOf(Reached(Owned \ Earlier))' + since'.changed + since'.deleted
       /\ Total(curr)' <= CountOf(From(- days))' + since'.deleted
       /\ CountOf(From(- days))' <= Total(curr)' + since'.inserted + since'.late
  BY <1>5, <1>6, <1>8, <1>9
<1> QED  BY <1>1, <1>7, <1>10 DEF SummaryInv, Drift

LEMMA QueryPrevious ==
    ASSUME SummaryInv, Query, next = 2
    PROVE  SummaryInv'
<1>0. SummaryTyped /\ - days \in Int /\ -2 * days \in Int
  BY DEF SummaryInv, SummaryTyped
<1> DEFINE rest == Owned \ Earlier
<1>1. prev' = CountsIn(-2 * days, - days)
      /\ UNCHANGED <<table, days, curr, weekly, all, since>> /\ next' = 3
  BY QueryNumbers DEF Query, CountCurrent, CountPrevious, CountWeekly, CountFunnel
<1>2. /\ prev' \in [Statuses -> Nat] /\ Total(prev') = CountOf(Earlier)
      /\ ReachedInterview(prev') = CountOf(Reached(Earlier))
  BY <1>0, <1>1, CountsInAdd DEF Earlier
<1>3. /\ Owned = rest \cup Earlier /\ rest \cap Earlier = {}
      /\ Reached(Owned) = Reached(rest) \cup Reached(Earlier)
      /\ Reached(rest) \cap Reached(Earlier) = {}
      /\ rest \in SUBSET Jobs /\ Earlier \in SUBSET Jobs
      /\ Reached(rest) \in SUBSET Jobs /\ Reached(Earlier) \in SUBSET Jobs
  BY ClosedSets DEF Reached
<1>4. /\ Total(curr) <= CountOf(rest) + since.deleted
      /\ ReachedInterview(curr) <= CountOf(Reached(rest)) + since.changed + since.deleted
      /\ Total(curr) <= CountOf(From(- days)) + since.deleted
      /\ CountOf(From(- days)) <= Total(curr) + since.inserted + since.late
  BY DEF SummaryInv, Drift
<1> HIDE DEF rest
<1>5. /\ CountOf(Owned) = CountOf(rest) + CountOf(Earlier)
      /\ CountOf(Reached(Owned)) = CountOf(Reached(rest)) + CountOf(Reached(Earlier))
      /\ CountOf(rest) \in Nat /\ CountOf(Earlier) \in Nat
      /\ CountOf(Reached(rest)) \in Nat /\ CountOf(Reached(Earlier)) \in Nat
  BY <1>0, <1>3, CountApart, CountType
<1>6. /\ since.deleted \in Nat /\ since.changed \in Nat
      /\ Total(curr) \in Nat /\ ReachedInterview(curr) \in Nat
  BY <1>0, TotalsType DEF SummaryTyped, SinceType
<1>7. /\ Total(curr) + Total(prev') <= CountOf(Owned) + since.deleted
      /\ ReachedInterview(curr) + ReachedInterview(prev')
            <= CountOf(Reached(Owned)) + since.changed + since.deleted
  BY <1>2, <1>4, <1>5, <1>6
<1>8. SummaryTyped'
  BY <1>0, <1>1, <1>2 DEF SummaryTyped
<1>9. /\ CountOf(From(- days))' = CountOf(From(- days)) /\ CountOf(Owned)' = CountOf(Owned)
      /\ CountOf(Reached(Owned))' = CountOf(Reached(Owned))
      /\ Total(curr)' = Total(curr) /\ Total(prev)' = Total(prev')
      /\ ReachedInterview(curr)' = ReachedInterview(curr)
      /\ ReachedInterview(prev)' = ReachedInterview(prev')
  BY <1>1 DEF CountOf, From, Owned, Own, Since, Reached, Total, ReachedInterview
<1> QED  BY <1>1, <1>4, <1>7, <1>8, <1>9 DEF SummaryInv, Drift

LEMMA QueryWeekly ==
    ASSUME SummaryInv, Query, next = 3
    PROVE  SummaryInv'
<1>0. SummaryTyped
  BY DEF SummaryInv
<1> DEFINE period == From(- days)
<1>1. /\ weekly' = [w \in Weeks |->
            CountOf({j \in Jobs : Own(j) /\ Week(j.created) = w /\ Since(j, - days)})]
      /\ UNCHANGED <<table, days, curr, prev, all, since>> /\ next' = 4
  BY QueryNumbers DEF Query, CountCurrent, CountPrevious, CountWeekly, CountFunnel
<1>2. \A w \in Weeks : {j \in Jobs : Own(j) /\ Week(j.created) = w /\ Since(j, - days)}
                          = {j \in period : Week(j.created) = w}
  BY DEF From, Owned
<1>3. period \in SUBSET Jobs /\ period \in SUBSET Owned /\ Owned \in SUBSET Jobs
  BY DEF From, Owned
<1> HIDE DEF period
<1>4. weekly' = [w \in Weeks |-> Cardinality(Rows(table, {j \in period : Week(j.created) = w}))]
  BY <1>1, <1>2 DEF CountOf
<1>5. /\ weekly' \in [Weeks -> Nat] /\ IsFiniteSet(Rows(weekly', Weeks))
      /\ Cardinality(Rows(weekly', Weeks)) = CountOf(period)
  BY <1>0, <1>3, <1>4, ChartComplete DEF SummaryTyped, CountOf
<1>6. SummaryTyped'
  BY <1>0, <1>1, <1>5 DEF SummaryTyped
<1>7. /\ Total(curr) <= CountOf(period) + since.deleted
      /\ CountOf(period) <= Total(curr) + since.inserted + since.late
      /\ Total(curr) + Total(prev) <= CountOf(Owned) + since.deleted
      /\ ReachedInterview(curr) + ReachedInterview(prev)
            <= CountOf(Reached(Owned)) + since.changed + since.deleted
  BY DEF SummaryInv, Drift, period
<1>8. /\ CountOf(period) <= CountOf(Owned) /\ CountOf(period) \in Nat /\ CountOf(Owned) \in Nat
      /\ since.deleted \in Nat
  BY <1>0, <1>3, CountType DEF SummaryTyped, SinceType
<1>9. CountOf(period) <= CountOf(Owned) + since.deleted
  BY <1>8
<1>10. /\ CountOf(Owned)' = CountOf(Owned) /\ CountOf(Reached(Owned))' = CountOf(Reached(Owned))
       /\ Total(curr)' = Total(curr) /\ Total(prev)' = Total(prev)
       /\ ReachedInterview(curr)' = ReachedInterview(curr)
       /\ ReachedInterview(prev)' = ReachedInterview(prev)
       /\ Chart' = CountOf(period)
  BY <1>1, <1>5 DEF CountOf, Owned, Own, Reached, Total, ReachedInterview, Chart
<1> QED  BY <1>1, <1>6, <1>7, <1>9, <1>10 DEF SummaryInv, Drift

LEMMA QueryFunnel ==
    ASSUME SummaryInv, Query, next = 4
    PROVE  SummaryInv'
<1>0. SummaryTyped
  BY DEF SummaryInv
<1>1. /\ all' = [s \in Statuses |-> CountOf({j \in Jobs : Own(j) /\ j.status = s})]
      /\ UNCHANGED <<table, days, curr, prev, weekly, since>> /\ next' = 5
  BY QueryNumbers DEF Query, CountCurrent, CountPrevious, CountWeekly, CountFunnel
<1>2. \A s \in Statuses : {j \in Jobs : Own(j) /\ j.status = s} = {j \in Owned : j.status = s}
  BY DEF Owned
<1>3. Owned \in SUBSET Jobs
  BY DEF Owned
<1>4. all' = [s \in Statuses |-> CountOf({j \in Owned : j.status = s})]
  BY <1>1, <1>2
<1>5. /\ all' \in [Statuses -> Nat] /\ Total(all') = CountOf(Owned)
      /\ ReachedInterview(all') = CountOf(Reached(Owned))
  BY <1>0, <1>3, <1>4, ByStatus
<1>6. SummaryTyped'
  BY <1>0, <1>1, <1>5 DEF SummaryTyped
<1>7. /\ Total(curr) + Total(prev) <= CountOf(Owned) + since.deleted
      /\ ReachedInterview(curr) + ReachedInterview(prev)
            <= CountOf(Reached(Owned)) + since.changed + since.deleted
      /\ Chart <= CountOf(Owned) + since.deleted
      /\ Total(curr) <= Chart + since.deleted
      /\ Chart <= Total(curr) + since.inserted + since.late
  BY DEF SummaryInv, Drift
<1>8. /\ Total(curr)' = Total(curr) /\ Total(prev)' = Total(prev)
      /\ ReachedInterview(curr)' = ReachedInterview(curr)
      /\ ReachedInterview(prev)' = ReachedInterview(prev)
      /\ Total(all)' = CountOf(Owned) /\ ReachedInterview(all)' = CountOf(Reached(Owned))
      /\ Chart' = Chart
  BY <1>1, <1>5 DEF Total, ReachedInterview, Chart
<1> QED  BY <1>1, <1>6, <1>7, <1>8 DEF SummaryInv, Drift

LEMMA StepSummary == SummaryInv /\ [Next]_vars => SummaryInv'
<1>1. ASSUME SummaryInv, Query PROVE SummaryInv'
  <2>1. next \in 1..5
    BY <1>1 DEF SummaryInv, SummaryTyped
  <2>2. next # 5
    BY <1>1, QueryNumbers DEF Query, CountCurrent, CountPrevious, CountWeekly, CountFunnel
  <2> QED  BY <1>1, <2>1, <2>2, QueryCurrent, QueryPrevious, QueryWeekly, QueryFunnel
<1>2. ASSUME SummaryInv, UNCHANGED vars PROVE SummaryInv'
  BY <1>2 DEF vars, SummaryInv, SummaryTyped, Drift, CountOf, Owned, Earlier, Between, From,
              Own, Since, Reached, Total, ReachedInterview, Chart
<1> QED  BY <1>1, <1>2, WriteSummary DEF Next, Writing

-----------------------------------------------------------------------------
(* The theorems                                                            *)

\* The summary has the shape that the schema promises, with rates from 0 to 100;
\* the delta of the applications is missing exactly when the period before was
\* empty, that of a rate when none of its jobs, or too few, got so far.
THEOREM TypeCorrect == Spec => []TypeOK
<1>1. SummaryInv => TypeOK
  <2> SUFFICES ASSUME SummaryInv PROVE TypeOK
    OBVIOUS
  <2>0. SummaryTyped
    BY DEF SummaryInv
  <2>1. ASSUME NEW d \in [Statuses -> Nat]
        PROVE  ResponseRate(d) \in 0..100 /\ InterviewRate(d) \in 0..100
    <3>1. /\ Total(d) \in Nat /\ ReachedInterview(d) \in Nat /\ ReachedResponse(d) \in Nat
          /\ ReachedInterview(d) <= Total(d) /\ ReachedResponse(d) <= Total(d)
      BY TotalsType
    <3> QED  BY <3>1, PctType DEF ResponseRate, InterviewRate
  <2>2. \A m, n \in 0..100 : Delta(m, n) \in -100 .. 100 \cup {None}
    BY DEF Delta
  <2>3. \A m, n \in Nat : /\ Delta(m, n) \in Int \cup {None}
                          /\ Delta(m, n) = None <=> n = 0
    BY SummaryAssumption DEF Delta
  <2>4. /\ Total(curr) \in Nat /\ Total(prev) \in Nat
        /\ Funnel \in Nat \X Nat \X Nat /\ weekly \in [Weeks -> Nat]
    <3>1. Total(all) \in Nat /\ ReachedInterview(all) \in Nat /\ all["offer"] \in Nat
      BY <2>0, TotalsType DEF SummaryTyped
    <3> QED  BY <2>0, <3>1, TotalsType DEF SummaryTyped, Funnel
  <2>5. /\ ResponseRate(curr) \in 0..100 /\ ResponseRate(prev) \in 0..100
        /\ InterviewRate(curr) \in 0..100 /\ InterviewRate(prev) \in 0..100
    BY <2>0, <2>1 DEF SummaryTyped
  <2>6. /\ Delta(Total(curr), Total(prev)) \in Int \cup {None}
        /\ Delta(Total(curr), Total(prev)) = None <=> Total(prev) = 0
        /\ Delta(ResponseRate(curr), ResponseRate(prev)) \in -100 .. 100 \cup {None}
        /\ Delta(InterviewRate(curr), InterviewRate(prev)) \in -100 .. 100 \cup {None}
    <3>1. /\ Delta(Total(curr), Total(prev)) \in Int \cup {None}
          /\ Delta(Total(curr), Total(prev)) = None <=> Total(prev) = 0
      BY <2>3, <2>4
    <3>2. /\ Delta(ResponseRate(curr), ResponseRate(prev)) \in -100 .. 100 \cup {None}
          /\ Delta(InterviewRate(curr), InterviewRate(prev)) \in -100 .. 100 \cup {None}
      BY <2>2, <2>5
    <3> QED  BY <3>1, <3>2
  <2>7. next \in DOMAIN Queries
    BY <2>0 DEF SummaryTyped, Queries
  <2>8. Summary \in
          [ total_applications : Nat, applications_delta : Int \cup {None},
            response_rate : 0 .. 100, response_delta : -100 .. 100 \cup {None},
            interview_rate : 0 .. 100, interview_delta : -100 .. 100 \cup {None},
            weekly : [Weeks -> Nat], funnel : Nat \X Nat \X Nat ]
    BY <2>4, <2>5, <2>6 DEF Summary
  <2>9. (Summary.applications_delta = None) <=> (Total(prev) = 0)
    BY <2>6 DEF Summary
  <2>10. /\ Comparable(Summary.response_delta, ReachedResponse(prev), Total(prev))
         /\ Comparable(Summary.interview_delta, ReachedInterview(prev), Total(prev))
    <3>1. /\ Total(prev) \in Nat /\ ReachedInterview(prev) \in Nat /\ ReachedResponse(prev) \in Nat
          /\ ReachedInterview(prev) <= Total(prev) /\ ReachedResponse(prev) <= Total(prev)
      BY <2>0, TotalsType DEF SummaryTyped
    <3>2. ResponseRate(curr) \in Nat /\ InterviewRate(curr) \in Nat
      BY <2>5
    <3>3. /\ Comparable(Delta(ResponseRate(curr), Pct(ReachedResponse(prev), Total(prev))),
                        ReachedResponse(prev), Total(prev))
          /\ Comparable(Delta(InterviewRate(curr), Pct(ReachedInterview(prev), Total(prev))),
                        ReachedInterview(prev), Total(prev))
      BY ONLY <3>1, <3>2, DeltaComparable
    <3>4. /\ Comparable(Delta(ResponseRate(curr), ResponseRate(prev)), ReachedResponse(prev), Total(prev))
          /\ Comparable(Delta(InterviewRate(curr), InterviewRate(prev)), ReachedInterview(prev), Total(prev))
      BY ONLY <3>3 DEF ResponseRate, InterviewRate
    <3> QED  BY ONLY <3>4 DEF Summary
  <2> QED  BY <2>0, <2>7, <2>8, <2>9, <2>10 DEF TypeOK, SummaryTyped, SinceType
<1> QED  BY InitSummary, StepSummary, <1>1, PTL DEF Spec

\* The stages are ordered, in the rates as in the funnel: rounding is monotone,
\* and the funnel counts an offer as an interview.
THEOREM StagesInOrder == Spec => []StagesOrdered
<1>1. SummaryInv => StagesOrdered
  <2> SUFFICES ASSUME SummaryInv PROVE StagesOrdered
    OBVIOUS
  <2>1. curr \in [Statuses -> Nat] /\ all \in [Statuses -> Nat]
    BY DEF SummaryInv, SummaryTyped
  <2>2. /\ Total(curr) \in Nat /\ ReachedInterview(curr) \in Nat /\ ReachedResponse(curr) \in Nat
        /\ ReachedInterview(curr) <= ReachedResponse(curr)
    BY <2>1, TotalsType
  <2>3. InterviewRate(curr) <= ResponseRate(curr)
    BY <2>2, PctMonotone DEF InterviewRate, ResponseRate
  <2>4. all["offer"] <= ReachedInterview(all) /\ ReachedInterview(all) <= Total(all)
    <3>1. /\ all["offer"] <= ReachedInterview(all)
          /\ ReachedInterview(all) <= ReachedResponse(all) /\ ReachedResponse(all) <= Total(all)
          /\ ReachedInterview(all) \in Nat /\ ReachedResponse(all) \in Nat /\ Total(all) \in Nat
      BY <2>1, TotalsType
    <3> QED  BY <3>1
  <2> QED  BY <2>3, <2>4 DEF StagesOrdered, Summary, Funnel
<1> QED  BY InitSummary, StepSummary, <1>1, PTL DEF Spec

\* A rate is the nearest per cent to the share that it stands for, for any
\* number of jobs and whichever way a half is rounded.
THEOREM RatesAreNearest == Spec => []RatesNearest
<1>1. SummaryInv => RatesNearest
  <2>1. ASSUME NEW d \in [Statuses -> Nat]
        PROVE  /\ Nearest(ResponseRate(d), Total(d) - d["applied"], Total(d))
               /\ Nearest(InterviewRate(d), Total(d) - d["applied"] - d["rejected"], Total(d))
    <3>1. /\ Total(d) \in Nat /\ ReachedResponse(d) \in Nat /\ ReachedInterview(d) \in Nat
          /\ ReachedResponse(d) <= Total(d) /\ ReachedInterview(d) <= Total(d)
          /\ Total(d) - d["applied"] = ReachedResponse(d)
          /\ Total(d) - d["applied"] - d["rejected"] = ReachedInterview(d)
      BY TotalsType DEF Total, ReachedResponse, ReachedInterview, Statuses
    <3> QED  BY <3>1, PctIsNearest DEF ResponseRate, InterviewRate
  <2> QED  BY <2>1 DEF RatesNearest, SummaryInv, SummaryTyped
<1> QED  BY InitSummary, StepSummary, <1>1, PTL DEF Spec

\* The numbers of one summary disagree by no more than what the user's own
\* requests committed since its first query, and by the jobs dated after `now`.
THEOREM SnapshotsDriftLittle == Spec => []DriftBounded
<1>1. SummaryInv => DriftBounded
  <2> SUFFICES ASSUME SummaryInv, Done PROVE DriftBounded
    BY DEF DriftBounded
  <2>1. next = 5
    BY QueryNumbers DEF SummaryInv, SummaryTyped, Done
  <2>2. /\ Summary.weekly = weekly /\ Summary.funnel[1] = Total(all)
        /\ Summary.funnel[2] = ReachedInterview(all)
    BY DEF Summary, Funnel
  <2> QED  BY <2>1, <2>2 DEF DriftBounded, SummaryInv, Drift, Chart
<1> QED  BY InitSummary, StepSummary, <1>1, PTL DEF Spec

=============================================================================
