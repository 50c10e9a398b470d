---------------------------- MODULE ImportProofs ----------------------------
(* Proofs about the import of products (CatalogImport): what the two loops    *)
(* over the rows of a file compute, for every file, and what the jobs, the    *)
(* writer and the purging of the CDN keep true, for every interleaving.       *)
EXTENDS CatalogImport, Sums, NaturalsInduction

-----------------------------------------------------------------------------
(* The two loops over the rows of a file. *)

\* A round of the filter.
Kept(u, skip, rows, i) == IF skip /\ i \in Invalid(u) THEN rows ELSE Append(rows, i)

\* A round of the grouping.
Grouped(u, groups, i) ==
    IF groups = <<>> \/ Named(u, i)
    THEN Append(groups, <<i>>)
    ELSE [groups EXCEPT ![Len(groups)] = Append(@, i)]

\* A round of either loop.
Round(loop, done, i) ==
    IF loop.filter THEN Kept(loop.upload, loop.skip, done, i) ELSE Grouped(loop.upload, done, i)

\* The equation of the recursion behind FoldLeft.
LoopRecursion(loop, seq, S, iter) ==
    iter = [s \in SUBSET S |-> IF s = {} THEN <<>>
                               ELSE Round(loop, iter[s \ {Max(s)}], seq[Max(s)])]

\* What the loop has made of the positions in S.
Made(loop, seq, S) == (CHOOSE iter : LoopRecursion(loop, seq, S, iter))[S]

\* The loops: the filter of commit over the numbers of the rows, and groupByProduct.
Filtering(u, skip) == [filter |-> TRUE, upload |-> u, skip |-> skip]
Grouping(u) == [filter |-> FALSE, upload |-> u]

Numbers(u) == [i \in DOMAIN FileOf[u] |-> i]

\* Both are the value of a solution of the recursion.
LEMMA LoopsAreChosen ==
    /\ \A u, skip : RowsToImport(u, skip) = Made(Filtering(u, skip), Numbers(u), DOMAIN Numbers(u))
    /\ \A u, rows : GroupByProduct(u, rows) = Made(Grouping(u), rows, DOMAIN rows)
<1>1. ASSUME NEW u, NEW skip
      PROVE  RowsToImport(u, skip) = Made(Filtering(u, skip), Numbers(u), DOMAIN Numbers(u))
    <2> DEFINE Filters(iter) ==
            iter = [s \in SUBSET DOMAIN Numbers(u) |->
                       IF s = {} THEN <<>>
                       ELSE Kept(u, skip, iter[s \ {Max(s)}], Numbers(u)[Max(s)])]
    <2>1. RowsToImport(u, skip) = (CHOOSE iter : Filters(iter))[DOMAIN Numbers(u)]
        BY DEF RowsToImport, FoldLeft, MapThenFoldSet, Kept, Numbers
    <2>2. \A iter : Filters(iter) <=> LoopRecursion(Filtering(u, skip), Numbers(u), DOMAIN Numbers(u), iter)
        BY DEF LoopRecursion, Round, Filtering
    <2> HIDE DEF Filters
    <2>3. (CHOOSE iter : Filters(iter))
          = CHOOSE iter : LoopRecursion(Filtering(u, skip), Numbers(u), DOMAIN Numbers(u), iter)
        BY <2>2
    <2> QED BY <2>1, <2>3 DEF Made
<1>2. ASSUME NEW u, NEW rows
      PROVE  GroupByProduct(u, rows) = Made(Grouping(u), rows, DOMAIN rows)
    <2> DEFINE Begins(iter) ==
            iter = [s \in SUBSET DOMAIN rows |->
                       IF s = {} THEN <<>> ELSE Grouped(u, iter[s \ {Max(s)}], rows[Max(s)])]
    <2>1. GroupByProduct(u, rows) = (CHOOSE iter : Begins(iter))[DOMAIN rows]
        BY DEF GroupByProduct, FoldLeft, MapThenFoldSet, Grouped
    <2>2. \A iter : Begins(iter) <=> LoopRecursion(Grouping(u), rows, DOMAIN rows, iter)
        BY DEF LoopRecursion, Round, Grouping
    <2> HIDE DEF Begins
    <2>3. (CHOOSE iter : Begins(iter)) = CHOOSE iter : LoopRecursion(Grouping(u), rows, DOMAIN rows, iter)
        BY <2>2
    <2> QED BY <2>1, <2>3 DEF Made
<1> QED BY <1>1, <1>2

\* The recursion goes on with a smaller set.
LEMMA RoundIsLess ==
    ASSUME NEW S, Positions(S), NEW s \in SUBSET S, s # {}
    PROVE  Max(s) \in s /\ s \ {Max(s)} \in SUBSET S /\ s \ {Max(s)} \subseteq s /\ s \ {Max(s)} # s
BY MaxIsGreatest, PartOfPositions

\* The recursion has at most one solution.
LEMMA LoopUnique ==
    ASSUME NEW loop, NEW seq, NEW S, Positions(S),
           NEW g, LoopRecursion(loop, seq, S, g),
           NEW R \in SUBSET S, NEW h, LoopRecursion(loop, seq, R, h)
    PROVE  \A s \in SUBSET R : g[s] = h[s]
<1> DEFINE T == {s \in SUBSET R : g[s] # h[s]}
<1> SUFFICES ASSUME T # {} PROVE FALSE
    OBVIOUS
<1>0. IsFiniteSet(R) /\ Positions(R)
    BY PartOfPositions
<1>1. PICK s \in T : \A t \in T : t \subseteq s => t = s
    <2>1. T \subseteq SUBSET R
        OBVIOUS
    <2> HIDE DEF T
    <2> QED BY <1>0, <2>1, SmallestSubset
<1>2. g[s] = (IF s = {} THEN <<>> ELSE Round(loop, g[s \ {Max(s)}], seq[Max(s)]))
    BY <1>1 DEF LoopRecursion
<1>3. h[s] = (IF s = {} THEN <<>> ELSE Round(loop, h[s \ {Max(s)}], seq[Max(s)]))
    BY <1>1 DEF LoopRecursion
<1>4. s # {}
    BY <1>1, <1>2, <1>3
<1>5. s \ {Max(s)} \in SUBSET R /\ s \ {Max(s)} \notin T
    BY <1>0, <1>1, <1>4, RoundIsLess
<1>6. g[s \ {Max(s)}] = h[s \ {Max(s)}]
    BY <1>5
<1> QED BY <1>1, <1>2, <1>3, <1>4, <1>6

\* The equation of the recursion, for what the loop makes.
LoopUnfolds(loop, seq, S) ==
    Made(loop, seq, S) = IF S = {} THEN <<>>
                         ELSE Round(loop, Made(loop, seq, S \ {Max(S)}), seq[Max(S)])

\* A solution on a set is what the loop makes of each part.
LEMMA LoopIsSolution ==
    ASSUME NEW loop, NEW seq, NEW S, Positions(S),
           NEW g, LoopRecursion(loop, seq, S, g)
    PROVE  \A R \in SUBSET S : Made(loop, seq, R) = g[R]
<1> SUFFICES ASSUME NEW R \in SUBSET S PROVE Made(loop, seq, R) = g[R]
    OBVIOUS
<1> DEFINE h == [s \in SUBSET R |-> g[s]]
<1>1. h = [s \in SUBSET R |-> IF s = {} THEN <<>>
                              ELSE Round(loop, h[s \ {Max(s)}], seq[Max(s)])]
    <2>1. ASSUME NEW s \in SUBSET R, s # {}
          PROVE  s \ {Max(s)} \in SUBSET R
        OBVIOUS
    <2>2. ASSUME NEW s \in SUBSET R
          PROVE  g[s] = IF s = {} THEN <<>> ELSE Round(loop, g[s \ {Max(s)}], seq[Max(s)])
        BY DEF LoopRecursion
    <2>3. ASSUME NEW s \in SUBSET R
          PROVE  h[s] = IF s = {} THEN <<>> ELSE Round(loop, h[s \ {Max(s)}], seq[Max(s)])
        BY <2>1, <2>2
    <2> QED BY <2>3
<1>2. LoopRecursion(loop, seq, R, h)
    BY <1>1 DEF LoopRecursion
<1> DEFINE i == CHOOSE iter : LoopRecursion(loop, seq, R, iter)
<1>3. LoopRecursion(loop, seq, R, i)
    <2> HIDE DEF h
    <2> QED BY <1>2
<1>4. g[R] = i[R]
    <2> HIDE DEF i
    <2> QED BY <1>3, LoopUnique
<1> QED BY <1>4 DEF Made

\* What a loop makes obeys the equation of its recursion.
LEMMA LoopsUnfold ==
    ASSUME NEW loop, NEW seq, NEW S, Positions(S)
    PROVE  LoopUnfolds(loop, seq, S)
<1> DEFINE T == {s \in SUBSET S : ~LoopUnfolds(loop, seq, s)}
<1> SUFFICES ASSUME T # {} PROVE FALSE
    OBVIOUS
<1>1. PICK s \in T : \A t \in T : t \subseteq s => t = s
    <2>1. T \subseteq SUBSET S /\ IsFiniteSet(S)
        BY DEF Positions
    <2> HIDE DEF T
    <2> QED BY <2>1, SmallestSubset
<1> DEFINE g == [r \in SUBSET s |->
                    IF r = {} THEN <<>>
                    ELSE Round(loop, Made(loop, seq, r \ {Max(r)}), seq[Max(r)])]
<1>2. ASSUME NEW r \in SUBSET s, r # {}
      PROVE  r \ {Max(r)} \in SUBSET s /\ g[r \ {Max(r)}] = Made(loop, seq, r \ {Max(r)})
    <2>1. r \ {Max(r)} \in SUBSET s /\ r \ {Max(r)} # s
        <3>1. r \in SUBSET S
            BY <1>1
        <3>2. Max(r) \in r
            BY <1>2, <3>1, RoundIsLess
        <3> QED BY <3>2
    <2>2. LoopUnfolds(loop, seq, r \ {Max(r)})
        BY <1>1, <2>1
    <2> QED BY <2>1, <2>2 DEF LoopUnfolds
<1>3. g = [r \in SUBSET s |-> IF r = {} THEN <<>>
                              ELSE Round(loop, g[r \ {Max(r)}], seq[Max(r)])]
    <2>1. ASSUME NEW r \in SUBSET s
          PROVE  g[r] = IF r = {} THEN <<>> ELSE Round(loop, g[r \ {Max(r)}], seq[Max(r)])
        BY <1>2
    <2> QED BY <2>1
<1>4. LoopRecursion(loop, seq, s, g) /\ Positions(s)
    BY <1>1, <1>3, PartOfPositions DEF LoopRecursion
<1>5. Made(loop, seq, s) = g[s]
    <2> HIDE DEF g
    <2> QED BY <1>4, LoopIsSolution
<1>6. LoopUnfolds(loop, seq, s)
    BY <1>5 DEF LoopUnfolds
<1> QED BY <1>1, <1>6

\* The loop, round by round.
LEMMA Rounds ==
    ASSUME NEW loop, NEW seq, NEW m \in Nat
    PROVE  /\ Made(loop, seq, 1..0) = <<>>
           /\ Made(loop, seq, 1..m+1) = Round(loop, Made(loop, seq, 1..m), seq[m+1])
<1>1. 1..0 = {} /\ Positions(1..0)
    BY FS_EmptySet DEF Positions
<1>2. Made(loop, seq, 1..0) = <<>>
    BY <1>1, LoopsUnfold DEF LoopUnfolds
<1>3. Positions(1..m+1) /\ 1..m+1 # {}
    <2>1. IsFiniteSet(1..m+1)
        BY FS_Interval
    <2>2. 1..m+1 \subseteq Nat /\ m+1 \in 1..m+1
        OBVIOUS
    <2> QED BY <2>1, <2>2 DEF Positions
<1>4. Max(1..m+1) = m+1
    <2>1. Max(1..m+1) \in 1..m+1 /\ Max(1..m+1) >= m+1
        BY <1>3, MaxIsGreatest
    <2> QED BY <2>1
<1>5. (1..m+1) \ {m+1} = 1..m
    OBVIOUS
<1>6. LoopUnfolds(loop, seq, 1..m+1)
    BY <1>3, LoopsUnfold
<1> QED BY <1>2, <1>3, <1>4, <1>5, <1>6 DEF LoopUnfolds

\* Induction up to a number, with the set of numbers for which the claim holds.
LEMMA UpTo ==
    ASSUME NEW n \in Nat, NEW T, 0 \in T, \A m \in 0..n-1 : m \in T => m+1 \in T
    PROVE  \A m \in 0..n : m \in T
<1> DEFINE F == {m \in 0..n : m \notin T}
<1> SUFFICES ASSUME F # {} PROVE FALSE
    OBVIOUS
<1>1. PICK m \in F : \A k \in F : ~ (<<k, m>> \in OpToRel(<, Nat))
    <2>1. F \subseteq Nat
        OBVIOUS
    <2> HIDE DEF F
    <2> QED BY <2>1, NatLessThanWellFounded, WFMin
<1>2. m \in Nat /\ m # 0 /\ m - 1 \in 0..n-1
    OBVIOUS
<1>3. m - 1 \notin F
    <2>1. m - 1 \in Nat /\ m - 1 < m
        BY <1>2
    <2>2. <<m - 1, m>> \in OpToRel(<, Nat)
        BY <1>2, <2>1, Zenon DEF OpToRel
    <2> QED BY <1>1, <2>2
<1>4. (m - 1) + 1 = m
    BY <1>2
<1> QED BY <1>2, <1>3, <1>4

-----------------------------------------------------------------------------
(* Which rows are imported, and how they are grouped. *)

\* A sequence with an element more.
LEMMA Appended ==
    ASSUME NEW S, NEW s \in Seq(S), NEW e \in S
    PROVE  /\ Append(s, e) \in Seq(S) /\ Len(Append(s, e)) = Len(s) + 1
           /\ Len(s) \in Nat
           /\ \A i \in 1..Len(s) : Append(s, e)[i] = s[i]
           /\ Append(s, e)[Len(s) + 1] = e
OBVIOUS

\* What the filter has made of the first m rows: in the order of the file, those that are
\* to be imported; what is missing among them is invalid.
Sieved(u, skip, m, rows) ==
    /\ rows \in Seq(1..m)
    /\ \A a \in 1..Len(rows) : skip => rows[a] \notin Invalid(u)
    /\ \A a, b \in 1..Len(rows) : a < b => rows[a] < rows[b]
    /\ \A r \in 1..m : r \in Invalid(u) \/ \E a \in 1..Len(rows) : rows[a] = r

\* One more row.
LEMMA SievedNext ==
    ASSUME NEW u, NEW skip, NEW m \in Nat, NEW rows, Sieved(u, skip, m, rows)
    PROVE  Sieved(u, skip, m + 1, Kept(u, skip, rows, m + 1))
<1>1. rows \in Seq(1..m+1) /\ Len(rows) \in Nat
    BY DEF Sieved
<1>2. \A a \in 1..Len(rows) : rows[a] \in 1..m
    BY DEF Sieved
<1>3. \A r \in 1..m+1 : r \in 1..m \/ r = m + 1
    OBVIOUS
<1>4. CASE skip /\ m + 1 \in Invalid(u)
    <2>1. \A r \in 1..m+1 : r \in Invalid(u) \/ \E a \in 1..Len(rows) : rows[a] = r
        BY <1>3, <1>4 DEF Sieved
    <2> QED BY <1>1, <1>4, <2>1 DEF Sieved, Kept
<1>5. CASE ~(skip /\ m + 1 \in Invalid(u))
    <2> DEFINE longer == Append(rows, m + 1)
    <2>1. m + 1 \in 1..m+1
        OBVIOUS
    <2>2. /\ longer \in Seq(1..m+1) /\ Len(longer) = Len(rows) + 1
          /\ \A a \in 1..Len(rows) : longer[a] = rows[a]
          /\ longer[Len(rows) + 1] = m + 1
        BY <1>1, <2>1, Appended
    <2>3. \A a \in 1..Len(longer) : a \in 1..Len(rows) \/ a = Len(rows) + 1
        BY <1>1, <2>2
    <2> HIDE DEF longer
    <2>4. \A a \in 1..Len(longer) : skip => longer[a] \notin Invalid(u)
        BY <1>5, <2>2, <2>3 DEF Sieved
    <2>5. ASSUME NEW a \in 1..Len(longer), NEW b \in 1..Len(longer), a < b
          PROVE  longer[a] < longer[b]
        <3>1. a \in 1..Len(rows)
            BY <1>1, <2>2, <2>5
        <3>2. CASE b \in 1..Len(rows)
            BY <2>2, <2>5, <3>1, <3>2 DEF Sieved
        <3>3. CASE b = Len(rows) + 1
            <4>1. longer[a] \in 1..m /\ longer[b] = m + 1
                BY <1>2, <2>2, <3>1, <3>3
            <4> QED BY <4>1
        <3> QED BY <2>3, <3>2, <3>3
    <2>6. ASSUME NEW r \in 1..m+1
          PROVE  r \in Invalid(u) \/ \E a \in 1..Len(longer) : longer[a] = r
        <3>1. CASE r = m + 1
            BY <1>1, <2>2, <3>1, SMTT(60)
        <3>2. CASE r \in 1..m
            <4>1. r \in Invalid(u) \/ \E a \in 1..Len(rows) : rows[a] = r
                BY <3>2 DEF Sieved
            <4>2. \A a \in 1..Len(rows) : a \in 1..Len(longer)
                BY <1>1, <2>2
            <4> QED BY <2>2, <4>1, <4>2
        <3> QED BY <1>3, <3>1, <3>2
    <2>7. Sieved(u, skip, m + 1, longer)
        BY <2>2, <2>4, <2>5, <2>6 DEF Sieved
    <2> QED BY <1>5, <2>7 DEF Kept, longer
<1> QED BY <1>4, <1>5

\* A round of either loop.
LEMMA FilterRounds ==
    ASSUME NEW u, NEW skip, NEW done, NEW i
    PROVE  Round(Filtering(u, skip), done, i) = Kept(u, skip, done, i)
BY DEF Round, Filtering

\* The same of the other loop.
LEMMA GroupingRounds ==
    ASSUME NEW u, NEW done, NEW i
    PROVE  Round(Grouping(u), done, i) = Grouped(u, done, i)
BY DEF Round, Grouping

\* The rows of a file that are to be imported.
LEMMA RowsAreSieved ==
    ASSUME NEW u \in Uploads, NEW skip \in BOOLEAN
    PROVE  Sieved(u, skip, Len(FileOf[u]), RowsOf[u][skip])
<1> DEFINE n == Len(FileOf[u])
           kept(m) == Made(Filtering(u, skip), Numbers(u), 1..m)
           T == {m \in 0..n : Sieved(u, skip, m, kept(m))}
<1>1. n \in Nat /\ DOMAIN Numbers(u) = 1..n /\ \A m \in 1..n : Numbers(u)[m] = m
    BY ImportAssumption DEF Numbers
<1>2. Sieved(u, skip, 0, <<>>)
    BY DEF Sieved
<1>3. 0 \in T
    BY <1>1, <1>2, Rounds
<1>4. ASSUME NEW m \in 0..n-1, m \in T PROVE m + 1 \in T
    <2>1. m \in Nat /\ m + 1 \in 1..n /\ m + 1 \in 0..n
        BY <1>1
    <2>2. kept(m + 1) = Kept(u, skip, kept(m), m + 1)
        <3>1. Numbers(u)[m + 1] = m + 1
            BY <1>1, <2>1
        <3>2. kept(m + 1) = Round(Filtering(u, skip), kept(m), Numbers(u)[m + 1])
            BY <2>1, Rounds
        <3> HIDE DEF kept
        <3> QED BY <3>1, <3>2, FilterRounds
    <2>3. Sieved(u, skip, m, kept(m))
        BY <1>4
    <2> HIDE DEF kept
    <2> QED BY <2>1, <2>2, <2>3, SievedNext
<1>5. n \in T
    <2>1. \A m \in 0..n : m \in T
        <3> HIDE DEF T, n
        <3> QED BY <1>1, <1>3, <1>4, UpTo
    <2>2. n \in 0..n
        BY <1>1
    <2> QED BY <2>1, <2>2
<1>6. RowsOf[u][skip] = kept(n)
    BY <1>1, LoopsAreChosen DEF RowsOf
<1> QED BY <1>5, <1>6

\* Imported rows of which the later has no name follow the same naming row.
Continues(u, rows) ==
    \A a \in 2..Len(rows) :
        ~Named(u, rows[a]) => NamingRow(u, rows[a - 1]) = NamingRow(u, rows[a])

\* What groupByProduct has made of the first m rows: groups of exactly these rows, the last
\* of them at the end, and each group under one naming row.
Parted(u, rows, m, groups) ==
    /\ groups \in Seq(Seq(Nat))
    /\ \A g \in 1..Len(groups) : Len(groups[g]) > 0
    /\ m # 0 => Len(groups) > 0 /\ groups[Len(groups)][Len(groups[Len(groups)])] = rows[m]
    /\ \A g \in 1..Len(groups) : \A x \in 1..Len(groups[g]) : \E a \in 1..m : rows[a] = groups[g][x]
    /\ \A a \in 1..m : \E g \in 1..Len(groups) : \E x \in 1..Len(groups[g]) : groups[g][x] = rows[a]
    /\ Continues(u, rows) =>
          \A g \in 1..Len(groups) : \A x, y \in 1..Len(groups[g]) :
              NamingRow(u, groups[g][x]) = NamingRow(u, groups[g][y])

\* A group of its own for the next row.
LEMMA GroupBegun ==
    ASSUME NEW u, NEW rows \in Seq(Nat), NEW m \in 0..Len(rows)-1, NEW groups,
           Parted(u, rows, m, groups)
    PROVE  Parted(u, rows, m + 1, Append(groups, <<rows[m + 1]>>))
<1> DEFINE i == rows[m + 1]
           L == Len(groups)
           more == Append(groups, <<i>>)
<1>1. m \in Nat /\ m + 1 \in 1..Len(rows) /\ i \in Nat /\ L \in Nat
    BY DEF Parted
<1>2. /\ more \in Seq(Seq(Nat)) /\ Len(more) = L + 1
      /\ \A g \in 1..L : more[g] = groups[g]
      /\ more[L + 1] = <<i>>
    <2>1. <<i>> \in Seq(Nat) /\ groups \in Seq(Seq(Nat))
        BY <1>1 DEF Parted
    <2> HIDE DEF i
    <2> QED BY <2>1, Appended
<1>3. Len(<<i>>) = 1 /\ <<i>>[1] = i
    OBVIOUS
<1>4. \A g \in 1..L+1 : g \in 1..L \/ g = L + 1
    BY <1>1
<1>5. L + 1 \in 1..L+1 /\ \A g \in 1..L : g \in 1..L+1
    BY <1>1
<1>6. m + 1 \in 1..m+1 /\ (\A a \in 1..m : a \in 1..m+1) /\ \A a \in 1..m+1 : a \in 1..m \/ a = m + 1
    BY <1>1
<1> HIDE DEF more, L
<1>7. \A x \in 1..Len(more[L + 1]) : x = 1
    BY <1>2, <1>3
<1>8. ASSUME NEW g \in 1..Len(more)
      PROVE  Len(more[g]) > 0
    <2>1. CASE g \in 1..L
        <3>1. Len(groups[g]) > 0
            BY <2>1 DEF Parted, L
        <3> QED BY <1>2, <2>1, <3>1
    <2>2. CASE g = L + 1
        <3>1. more[g] = <<i>>
            BY <1>2, <2>2
        <3>2. Len(more[g]) = 1
            BY <1>3, <3>1
        <3> QED BY <3>2
    <2> QED BY <1>2, <1>4, <2>1, <2>2
<1>9. Len(more) > 0 /\ more[Len(more)][Len(more[Len(more)])] = rows[m + 1]
    BY <1>1, <1>2, <1>3
<1>10. ASSUME NEW g \in 1..Len(more), NEW x \in 1..Len(more[g])
       PROVE  \E a \in 1..m+1 : rows[a] = more[g][x]
    <2>1. CASE g \in 1..L
        <3>1. more[g] = groups[g]
            BY <1>2, <2>1
        <3>2. \E a \in 1..m : rows[a] = groups[g][x]
            BY <2>1, <1>10, <3>1 DEF Parted, L
        <3> QED BY <1>6, <3>1, <3>2
    <2>2. CASE g = L + 1
        BY <1>2, <1>3, <1>6, <1>7, <2>2, <1>10
    <2> QED BY <1>2, <1>4, <2>1, <2>2
<1>11. ASSUME NEW a \in 1..m+1
       PROVE  \E g \in 1..Len(more) : \E x \in 1..Len(more[g]) : more[g][x] = rows[a]
    <2>1. CASE a \in 1..m
        <3>1. PICK g \in 1..L : \E x \in 1..Len(groups[g]) : groups[g][x] = rows[a]
            BY <2>1 DEF Parted, L
        <3> QED BY <1>2, <1>5, <3>1
    <2>2. CASE a = m + 1
        <3>1. 1 \in 1..Len(more[L + 1]) /\ more[L + 1][1] = rows[a]
            BY <1>2, <1>3, <2>2
        <3> QED BY <1>2, <1>5, <3>1
    <2> QED BY <1>6, <2>1, <2>2
<1>12. ASSUME Continues(u, rows),
              NEW g \in 1..Len(more), NEW x \in 1..Len(more[g]), NEW y \in 1..Len(more[g])
       PROVE  NamingRow(u, more[g][x]) = NamingRow(u, more[g][y])
    <2>1. CASE g \in 1..L
        <3>1. more[g] = groups[g]
            BY <1>2, <2>1
        <3>2. \A a, b \in 1..Len(groups[g]) : NamingRow(u, groups[g][a]) = NamingRow(u, groups[g][b])
            BY <1>12, <2>1 DEF Parted, L
        <3>3. x \in 1..Len(groups[g]) /\ y \in 1..Len(groups[g])
            BY <1>12, <3>1
        <3> QED BY <3>1, <3>2, <3>3
    <2>2. CASE g = L + 1
        <3>1. x = 1 /\ y = 1
            BY <1>7, <2>2, <1>12
        <3> QED BY <3>1
    <2> QED BY <1>2, <1>4, <2>1, <2>2
<1>13. Parted(u, rows, m + 1, more)
    BY <1>2, <1>8, <1>9, <1>10, <1>11, <1>12 DEF Parted
<1> QED BY <1>13 DEF more

\* The next row goes on with the last group.
LEMMA GroupGoesOn ==
    ASSUME NEW u, NEW rows \in Seq(Nat), NEW m \in 0..Len(rows)-1, NEW groups,
           Parted(u, rows, m, groups), groups # <<>>, ~Named(u, rows[m + 1])
    PROVE  Parted(u, rows, m + 1,
                  [groups EXCEPT ![Len(groups)] = Append(@, rows[m + 1])])
<1> DEFINE i == rows[m + 1]
           L == Len(groups)
           K == Len(groups[L])
           longer == Append(groups[L], i)
           more == [groups EXCEPT ![L] = longer]
<1>1. m \in Nat /\ m + 1 \in 1..Len(rows) /\ i \in Nat /\ L \in Nat /\ L > 0
      /\ groups \in Seq(Seq(Nat))
    BY DEF Parted
<1>2. L \in 1..L /\ groups[L] \in Seq(Nat) /\ K \in Nat /\ K > 0
    BY <1>1 DEF Parted
<1>3. /\ longer \in Seq(Nat) /\ Len(longer) = K + 1
      /\ \A x \in 1..K : longer[x] = groups[L][x]
      /\ longer[K + 1] = i
    <2> HIDE DEF i, L
    <2> QED BY <1>1, <1>2, Appended, SMTT(60)
<1>4. /\ more \in Seq(Seq(Nat)) /\ Len(more) = L
      /\ \A g \in 1..L : g # L => more[g] = groups[g]
      /\ more[L] = longer
    <2> HIDE DEF longer
    <2> QED BY <1>1, <1>2, <1>3, SMTT(60)
<1>5. K + 1 \in 1..K+1 /\ (\A x \in 1..K : x \in 1..K+1) /\ \A x \in 1..K+1 : x \in 1..K \/ x = K + 1
    BY <1>2
<1>6. m + 1 \in 1..m+1 /\ (\A a \in 1..m : a \in 1..m+1) /\ \A a \in 1..m+1 : a \in 1..m \/ a = m + 1
    BY <1>1
<1>7. \A g \in 1..L : \A x \in 1..Len(groups[g]) : x \in 1..Len(more[g]) /\ more[g][x] = groups[g][x]
    BY <1>3, <1>4, <1>5
<1>8. \A g \in 1..L : \A x \in 1..Len(more[g]) :
          x \in 1..Len(groups[g]) \/ (g = L /\ x = K + 1 /\ more[g][x] = i)
    BY <1>3, <1>4, <1>5
<1>9. m # 0 /\ groups[L][K] = rows[m]
    <2>1. K \in 1..K
        BY <1>2
    <2>2. \E a \in 1..m : rows[a] = groups[L][K]
        BY <1>2, <2>1 DEF Parted
    <2> QED BY <1>1, <2>2, SMTT(60) DEF Parted
<1> HIDE DEF more, longer, L, K
<1>10. ASSUME NEW g \in 1..L
       PROVE  Len(more[g]) > 0
    <2>1. CASE g = L
        <3>1. more[g] = longer
            BY <1>4, <2>1
        <3>2. Len(longer) > 0
            BY <1>2, <1>3
        <3> QED BY <3>1, <3>2
    <2>2. CASE g # L
        <3>1. Len(groups[g]) > 0
            BY DEF Parted, L
        <3> QED BY <1>4, <2>2, <3>1
    <2> QED BY <2>1, <2>2
<1>11. ASSUME NEW g \in 1..L, NEW x \in 1..Len(more[g])
       PROVE  \E a \in 1..m+1 : rows[a] = more[g][x]
    <2>1. CASE x \in 1..Len(groups[g])
        <3>1. \E a \in 1..m : rows[a] = groups[g][x]
            BY <2>1 DEF Parted, L
        <3> QED BY <1>6, <1>7, <2>1, <3>1
    <2> QED BY <1>6, <1>8, <2>1
<1>12. ASSUME NEW a \in 1..m+1
       PROVE  \E g \in 1..L : \E x \in 1..Len(more[g]) : more[g][x] = rows[a]
    <2>1. CASE a \in 1..m
        <3>1. PICK g \in 1..L : \E x \in 1..Len(groups[g]) : groups[g][x] = rows[a]
            BY <2>1 DEF Parted, L
        <3> QED BY <1>7, <3>1
    <2>2. CASE a = m + 1
        <3>1. K + 1 \in 1..Len(more[L]) /\ more[L][K + 1] = rows[a]
            BY <1>3, <1>4, <1>5, <2>2
        <3> QED BY <1>2, <3>1
    <2> QED BY <1>6, <2>1, <2>2
<1>13. ASSUME Continues(u, rows)
       PROVE  \A g \in 1..L : \A x, y \in 1..Len(more[g]) :
                  NamingRow(u, more[g][x]) = NamingRow(u, more[g][y])
    <2>1. NamingRow(u, groups[L][K]) = NamingRow(u, i)
        <3>1. m + 1 \in 2..Len(rows) /\ (m + 1) - 1 = m
            BY <1>1, <1>9
        <3> QED BY <1>9, <1>13, <3>1 DEF Continues
    <2>2. \A g \in 1..L : \A x, y \in 1..Len(groups[g]) :
              NamingRow(u, groups[g][x]) = NamingRow(u, groups[g][y])
        BY <1>13 DEF Parted, L
    <2>3. K \in 1..Len(groups[L])
        BY <1>2 DEF K
    <2>4. ASSUME NEW g \in 1..L, NEW x \in 1..Len(more[g])
          PROVE  \E z \in 1..Len(groups[g]) : NamingRow(u, more[g][x]) = NamingRow(u, groups[g][z])
        BY <1>7, <1>8, <2>1, <2>3, <2>4
    <2> QED BY <2>2, <2>4
<1>14. rows[m + 1] = more[L][Len(more[L])]
    BY <1>3, <1>4
<1>15. Parted(u, rows, m + 1, more)
    BY <1>1, <1>4, <1>10, <1>11, <1>12, <1>13, <1>14 DEF Parted
<1> QED BY <1>15 DEF more, longer, L

\* The groups of a list of rows.
LEMMA RowsAreParted ==
    ASSUME NEW u, NEW rows \in Seq(Nat)
    PROVE  Parted(u, rows, Len(rows), GroupByProduct(u, rows))
<1> DEFINE n == Len(rows)
           made(m) == Made(Grouping(u), rows, 1..m)
           T == {m \in 0..n : Parted(u, rows, m, made(m))}
<1>1. n \in Nat /\ DOMAIN rows = 1..n
    OBVIOUS
<1>2. Parted(u, rows, 0, <<>>)
    BY DEF Parted
<1>3. 0 \in T
    BY <1>1, <1>2, Rounds
<1>4. ASSUME NEW m \in 0..n-1, m \in T PROVE m + 1 \in T
    <2>1. m \in Nat /\ m + 1 \in 0..n
        BY <1>1
    <2>2. made(m + 1) = Grouped(u, made(m), rows[m + 1])
        <3>1. made(m + 1) = Round(Grouping(u), made(m), rows[m + 1])
            BY <2>1, Rounds
        <3> HIDE DEF made
        <3> QED BY <3>1, GroupingRounds
    <2>3. Parted(u, rows, m, made(m))
        BY <1>4
    <2> HIDE DEF made
    <2>4. CASE made(m) = <<>> \/ Named(u, rows[m + 1])
        BY <2>1, <2>2, <2>3, <2>4, GroupBegun DEF Grouped
    <2>5. CASE ~(made(m) = <<>> \/ Named(u, rows[m + 1]))
        <3>1. made(m + 1) = [made(m) EXCEPT ![Len(made(m))] = Append(@, rows[m + 1])]
            BY <2>2, <2>5 DEF Grouped
        <3>2. Parted(u, rows, m + 1, made(m + 1))
            BY <2>3, <2>5, <3>1, GroupGoesOn, SMTT(60)
        <3> QED BY <2>1, <3>2
    <2> QED BY <2>4, <2>5
<1>5. n \in T
    <2>1. \A m \in 0..n : m \in T
        <3> HIDE DEF T, n
        <3> QED BY <1>1, <1>3, <1>4, UpTo
    <2>2. n \in 0..n
        BY <1>1
    <2> QED BY <2>1, <2>2
<1>6. GroupByProduct(u, rows) = made(n)
    BY <1>1, LoopsAreChosen
<1> QED BY <1>5, <1>6

\* The elements of a sequence.
LEMMA ElementsAreOf ==
    ASSUME NEW S, NEW s \in Seq(S) PROVE \A i \in 1..Len(s) : s[i] \in S
OBVIOUS

\* What LastOf chooses from a set of rows.
LEMMA LastOfRows ==
    ASSUME NEW i \in Nat, NEW named \in SUBSET (1..i), named # {}
    PROVE  LastOf(named) \in named /\ \A n \in named : n <= LastOf(named)
<1>1. Positions(named) /\ named # {}
    <2>1. IsFiniteSet(1..i)
        BY FS_Interval
    <2>2. IsFiniteSet(named)
        BY <2>1, FS_Subset
    <2> QED BY <2>2 DEF Positions
<1>2. Max(named) \in named /\ \A n \in named : n <= Max(named)
    <2>1. \A n \in named : n \in Nat
        OBVIOUS
    <2>2. Max(named) \in named /\ \A n \in named : Max(named) >= n
        BY <1>1, MaxIsGreatest
    <2> QED BY <2>1, <2>2
<1>3. LastOf(named) = CHOOSE n \in named : \A m \in named : m <= n
    BY DEF LastOf
<1> QED BY <1>2, <1>3

\* Between two rows imported one after the other there is no valid row, so that the later,
\* when it has no name, follows the naming row of the earlier.
LEMMA RowsContinue ==
    ASSUME NEW u \in Uploads, NEW skip \in BOOLEAN, Invalid(u) = {} \/ skip
    PROVE  Continues(u, RowsOf[u][skip])
<1> DEFINE n == Len(FileOf[u])
           rows == RowsOf[u][skip]
<1>1. Sieved(u, skip, n, rows) /\ n \in Nat /\ DOMAIN FileOf[u] = 1..n
    BY RowsAreSieved, ImportAssumption
<1> HIDE DEF rows, n
<1> SUFFICES ASSUME NEW a \in 2..Len(rows), ~Named(u, rows[a])
             PROVE  NamingRow(u, rows[a - 1]) = NamingRow(u, rows[a])
    BY DEF Continues, rows
<1> DEFINE p == rows[a - 1]
           q == rows[a]
<1>2. rows \in Seq(1..n) /\ Len(rows) \in Nat
    BY <1>1 DEF Sieved
<1>3. a - 1 \in 1..Len(rows) /\ a \in 1..Len(rows) /\ a - 1 < a /\ a \in Nat
    BY <1>2
<1>4. p \in 1..n /\ q \in 1..n
    <2>1. \A b \in 1..Len(rows) : rows[b] \in 1..n
        BY <1>1, ElementsAreOf DEF Sieved
    <2> QED BY <1>3, <2>1
<1>5. p < q
    BY <1>1, <1>3 DEF Sieved
<1> HIDE DEF p, q
<1>6. ASSUME NEW k \in 1..n, p < k, k < q
      PROVE  k \in Invalid(u)
    <2>1. SUFFICES ASSUME NEW b \in 1..Len(rows), rows[b] = k
                   PROVE  FALSE
        BY <1>1 DEF Sieved
    <2>2. b < a - 1 => rows[b] < p
        BY <1>1, <1>3 DEF Sieved, p
    <2>3. a < b => q < rows[b]
        BY <1>1, <1>3 DEF Sieved, q
    <2>4. b # a - 1 /\ b # a
        BY <1>4, <1>6, <2>1 DEF p, q
    <2>5. b < a - 1 \/ a < b
        BY <1>2, <1>3, <2>4
    <2>6. ~(k < p) /\ ~(q < k)
        BY <1>4, <1>6
    <2> QED BY <2>1, <2>2, <2>3, <2>5, <2>6
<1>7. ASSUME NEW k \in 1..q, Named(u, k), k \notin Invalid(u)
      PROVE  k \in 1..p
    <2>1. k # q
        BY <1>7 DEF q
    <2>2. ~(p < k)
        <3>1. k \in 1..n /\ k < q
            BY <1>1, <1>4, <1>7, <2>1
        <3> QED BY <1>6, <1>7, <3>1
    <2> QED BY <1>4, <1>7, <2>2
<1>8. {k \in 1..p : Named(u, k) /\ k \notin Invalid(u)}
      = {k \in 1..q : Named(u, k) /\ k \notin Invalid(u)}
    BY <1>4, <1>5, <1>7
<1>9. NamingRow(u, p) = NamingRow(u, q)
    BY <1>8 DEF NamingRow
<1> QED BY <1>9 DEF p, q

-----------------------------------------------------------------------------
(* The groups of a job that the server has permitted. *)

\* What is permitted: to import a file that has no invalid rows, or to skip them.
Permits(u, skip) == u \in Uploads /\ skip \in BOOLEAN /\ (Invalid(u) = {} \/ skip)

\* Groups that hold rows, each imported and valid, all the rows that were to be imported,
\* and in each those of one product.
OfProducts(u, rows, groups) ==
    /\ groups \in Seq(Seq(Nat))
    /\ \A g \in 1..Len(groups) : Len(groups[g]) > 0
    /\ \A g \in 1..Len(groups) : \A x \in 1..Len(groups[g]) : groups[g][x] \notin Invalid(u)
    /\ \A i \in Range(rows) :
           \E g \in 1..Len(groups) : \E x \in 1..Len(groups[g]) : groups[g][x] = i
    /\ \A g \in 1..Len(groups) : \A x, y \in 1..Len(groups[g]) :
           NamingRow(u, groups[g][x]) = NamingRow(u, groups[g][y])

\* Such are the groups of every job that may be queued.
LEMMA GroupsArePermitted ==
    ASSUME NEW u, NEW skip, Permits(u, skip)
    PROVE  OfProducts(u, RowsOf[u][skip], GroupsOf[u][skip])
<1> DEFINE groups == GroupsOf[u][skip]
           rows == RowsOf[u][skip]
<1>1. u \in Uploads /\ skip \in BOOLEAN
    BY DEF Permits
<1>2. Sieved(u, skip, Len(FileOf[u]), rows) /\ Len(FileOf[u]) \in Nat
    BY <1>1, RowsAreSieved, ImportAssumption
<1>3. rows \in Seq(Nat) /\ Len(rows) \in Nat /\ DOMAIN rows = 1..Len(rows)
    <2> HIDE DEF rows
    <2> QED BY <1>2 DEF Sieved
<1>4. groups = GroupByProduct(u, rows)
    BY <1>1 DEF GroupsOf
<1> HIDE DEF groups, rows
<1>5. Parted(u, rows, Len(rows), groups)
    BY <1>3, <1>4, RowsAreParted
<1>6. groups \in Seq(Seq(Nat)) /\ \A g \in 1..Len(groups) : Len(groups[g]) > 0
    BY <1>5 DEF Parted
<1>7. ASSUME NEW g \in 1..Len(groups), NEW x \in 1..Len(groups[g])
      PROVE  groups[g][x] \notin Invalid(u)
    <2>1. PICK a \in 1..Len(rows) : rows[a] = groups[g][x]
        BY <1>5 DEF Parted
    <2>2. skip => rows[a] \notin Invalid(u)
        BY <1>2 DEF Sieved
    <2>3. Invalid(u) = {} \/ skip
        BY DEF Permits
    <2> QED BY <2>1, <2>2, <2>3
<1>8. ASSUME NEW i \in Range(rows)
      PROVE  \E g \in 1..Len(groups) : \E x \in 1..Len(groups[g]) : groups[g][x] = i
    <2>1. PICK a \in 1..Len(rows) : rows[a] = i
        BY <1>3, <1>8 DEF Range
    <2> QED BY <1>5, <2>1 DEF Parted
<1>9. \A g \in 1..Len(groups) : \A x, y \in 1..Len(groups[g]) :
          NamingRow(u, groups[g][x]) = NamingRow(u, groups[g][y])
    <2>1. Continues(u, rows)
        BY RowsContinue DEF Permits, rows
    <2> QED BY <1>5, <2>1 DEF Parted
<1> QED BY <1>6, <1>7, <1>8, <1>9 DEF OfProducts, groups, rows

-----------------------------------------------------------------------------
(* The queue: each delivery but the first is owed to a fault. *)

\* The types of messages, orders and commits.
Messages == [state : {"unsent", "waiting", "leased", "acknowledged"},
             delivered : {0} \cup Deliveries]

Orders == [upload : Uploads, skip : BOOLEAN]
Commits == [state : {"queueing", "queued"}, upload : Uploads, skip : BOOLEAN]

\* The state of the server.
OrdersTyped ==
    /\ pending \in [Uploads -> {"none", "pending", "gone"}]
    /\ request \in [Requests -> {Idle} \cup Commits]
    /\ order \in [Jobs -> {NoOrder} \cup Orders]
    /\ retried \subseteq Uploads

\* Only what may be imported is requested and queued.
Permitted ==
    /\ \A r \in Requests : request[r] # Idle => Permits(request[r].upload, request[r].skip)
    /\ \A j \in Jobs : order[j] # NoOrder => Permits(order[j].upload, order[j].skip)

\* A message that waits to be delivered for the n-th time has met n - 1 faults.
Delivered ==
    \A j \in Jobs :
        /\ message[j].state = "unsent" => message[j].delivered = 0
        /\ message[j].state = "waiting" => message[j].delivered <= faults
        /\ message[j].delivered <= faults + 1

\* A worker handles deliveries that have been made, and is stopped by a fault.
Handled ==
    \A w \in Workers : \A run \in handling[w] :
        /\ run[2] <= message[run[1]].delivered
        /\ client[w] = "stopped" /\ run \in Leased({run}) => run[2] <= faults

\* A job that was published has its order.
Ordered == \A j \in Jobs : message[j].state = "unsent" <=> order[j] = NoOrder

\* The queue is sound.
QueueInv == QueueType /\ Delivered /\ Handled

\* An order is not the absence of one.
LEMMA OrdersAreGiven == \A o \in Orders : o # NoOrder
<1> SUFFICES ASSUME NEW o \in Orders, o = NoOrder PROVE FALSE
    OBVIOUS
<1>1. "skip" \in DOMAIN o
    BY DEF Orders
<1>2. DOMAIN NoOrder = {"upload"}
    BY DEF NoOrder
<1> QED BY <1>1, <1>2

\* Neither is a commit under way an idle request.
LEMMA CommitsAreMade == \A c \in Commits : c # Idle
BY DEF Commits, Idle

\* The messages that an ended handler gives back.
LEMMA ReturnedMessages ==
    ASSUME QueueType, NEW runs \in SUBSET Runs
    PROVE  /\ Returned(runs) \in [Jobs -> Messages]
           /\ \A j \in Jobs :
                 /\ Returned(runs)[j].delivered = message[j].delivered
                 /\ \/ Returned(runs)[j].state = message[j].state
                    \/ /\ Returned(runs)[j].state = "waiting" /\ message[j].state = "leased"
                       /\ \E run \in Leased(runs) : run[1] = j
<1>1. \A j \in Jobs : message[j] \in Messages
    BY DEF QueueType, Messages
<1>2. ASSUME NEW j \in Jobs
      PROVE  LET m == [message[j] EXCEPT !.state = "waiting"]
             IN  m \in Messages /\ m.delivered = message[j].delivered /\ m.state = "waiting"
    BY <1>1 DEF Messages
<1>3. \A run \in Leased(runs) : message[run[1]].state = "leased"
    BY DEF Leased
<1> QED BY <1>1, <1>2, <1>3 DEF Returned

\* What every step of the queue but a delivery keeps.
LEMMA QueueKept ==
    ASSUME QueueInv, faults' \in Nat, faults <= faults',
           \A j \in Jobs : message'[j].delivered = message[j].delivered,
           \A j \in Jobs : \/ message'[j].state = message[j].state
                           \/ message'[j].state = "acknowledged"
                           \/ message'[j].state = "waiting" /\ message[j].delivered <= faults',
           \A w \in Workers : handling'[w] \subseteq handling[w],
           \A w \in Workers : client'[w] = "stopped" => client[w] = "stopped" \/ faults < faults'
    PROVE  Delivered' /\ Handled'
<1>1. faults \in Nat /\ \A j \in Jobs : message[j].delivered \in Nat
    BY QueueAssumption DEF QueueInv, QueueType, Deliveries
<1>2. Delivered'
    BY <1>1 DEF QueueInv, Delivered
<1>3. ASSUME NEW w \in Workers, NEW run \in handling'[w]
      PROVE  /\ run[2] <= message'[run[1]].delivered
             /\ client'[w] = "stopped" /\ run \in Leased({run})' => run[2] <= faults'
    <2>1. run \in handling[w] /\ run[1] \in Jobs /\ run[2] \in Nat
        BY <1>3, QueueAssumption DEF QueueInv, QueueType, Runs, Deliveries
    <2>2. run[2] <= message[run[1]].delivered
        BY <2>1 DEF QueueInv, Handled
    <2>3. ASSUME client'[w] = "stopped", run \in Leased({run})'
          PROVE  run[2] <= faults'
        <3>1. message'[run[1]] = [state |-> "leased", delivered |-> run[2]]
            BY <2>3 DEF Leased
        <3>2. message'[run[1]].state = "leased" /\ message[run[1]].delivered = run[2]
            BY <2>1, <3>1
        <3>3. message[run[1]].state = "leased"
            BY <2>1, <3>2
        <3>4. CASE client[w] = "stopped"
            <4>1. message[run[1]] = [state |-> "leased", delivered |-> run[2]]
                BY <2>1, <3>2, <3>3 DEF QueueInv, QueueType
            <4>2. run \in Leased({run})
                BY <4>1 DEF Leased
            <4>3. run[2] <= faults
                BY <2>1, <3>4, <4>2 DEF QueueInv, Handled
            <4> QED BY <1>1, <2>1, <4>3
        <3>5. CASE faults < faults'
            <4>1. message[run[1]].delivered <= faults + 1
                BY <2>1 DEF QueueInv, Delivered
            <4> QED BY <1>1, <2>1, <3>2, <3>5, <4>1
        <3> QED BY <2>3, <3>4, <3>5
    <2> QED BY <2>1, <2>2, <2>3
<1>4. Handled'
    BY <1>3 DEF Handled
<1> QED BY <1>2, <1>4

-----------------------------------------------------------------------------
(* The steps, by what they change. *)

\* Of the server that takes commits.
ServerStep ==
    /\ \/ \E u \in Uploads : Validate(u)
       \/ \E r \in Requests, u \in Uploads, skip \in BOOLEAN : Commit(r, u, skip)
       \/ \E r \in Requests, j \in Jobs : Queue(r, j)
       \/ \E r \in Requests : Answer(r) \/ CommitFails(r)
    /\ UNCHANGED <<catalogVars, stellateVars>>

\* Of the queue and its clients.
QueueStep ==
    /\ \/ \E w \in Workers : Start(w) \/ Initialize(w) \/ Stop(w)
       \/ \E w \in Workers, j \in Jobs : Receive(w, j)
       \/ \E j \in Jobs : LeaseExpires(j)
    /\ UNCHANGED <<catalogVars, importVars, stellateVars>>

\* Of a run that writes.
WriteStep ==
    /\ \E w \in Workers : \E run \in handling[w] : CreateProduct(w, run) \/ CreateVariant(w, run)
    /\ UNCHANGED <<queueVars, importVars, stellateVars>>

\* Of a run that ends.
EndStep ==
    /\ \E w \in Workers : \E run \in handling[w] : JobDone(w, run) \/ JobFails(w, run)
    /\ UNCHANGED <<catalogVars, importVars, stellateVars>>

\* Of the administrator, the shoppers and the CDN.
ShopStep ==
    /\ \/ Administrator /\ UNCHANGED stellateVars
       \/ Shopper \/ Stellate
    /\ UNCHANGED <<queueVars, importVars>>

\* These are all steps.
LEMMA StepsAre ==
    ASSUME [Next]_vars
    PROVE  \/ UNCHANGED vars
           \/ ServerStep \/ QueueStep \/ WriteStep \/ EndStep \/ ShopStep
           \/ \E w \in Workers : WorkerExit(w)
           \/ PurgeLost
<1>1. CASE UNCHANGED vars
    BY <1>1
<1>2. ASSUME NEW u \in Uploads, Importing(Validate(u)) PROVE ServerStep
    BY <1>2 DEF ServerStep, Importing, Validate
<1>3. ASSUME NEW r \in Requests, NEW u \in Uploads, NEW skip \in BOOLEAN, Importing(Commit(r, u, skip))
      PROVE  ServerStep
    BY <1>3 DEF ServerStep, Importing, Commit
<1>4. ASSUME NEW r \in Requests, Importing(ImportServer(r)) \/ Importing(CommitFails(r))
      PROVE  ServerStep
    BY <1>4 DEF ServerStep, Importing, ImportServer, Queue, Answer, CommitFails
<1>5. ASSUME NEW w \in Workers, Queueing(Consumer(w)) PROVE QueueStep
    BY <1>5 DEF QueueStep, Queueing, Consumer
<1>6. ASSUME NEW w \in Workers, Importing(Writer(w)) PROVE WriteStep \/ EndStep
    <2>1. PICK run \in handling[w] : CreateProduct(w, run) \/ CreateVariant(w, run) \/ JobDone(w, run)
        BY <1>6 DEF Importing, Writer
    <2>2. UNCHANGED stellateVars
        BY <1>6 DEF Importing
    <2>3. CASE CreateProduct(w, run)
        BY <2>2, <2>3 DEF WriteStep, CreateProduct
    <2>4. CASE CreateVariant(w, run)
        BY <2>2, <2>4 DEF WriteStep, CreateVariant
    <2>5. CASE JobDone(w, run)
        BY <2>2, <2>5 DEF EndStep, JobDone
    <2> QED BY <2>1, <2>3, <2>4, <2>5
<1>7. ASSUME NEW w \in Workers, NEW run \in handling[w], Importing(JobFails(w, run)) PROVE EndStep
    BY <1>7 DEF EndStep, Importing, JobFails
<1>8. ASSUME NEW j \in Jobs, Queueing(LeaseExpires(j)) PROVE QueueStep
    BY <1>8 DEF QueueStep, Queueing
<1>9. ASSUME Administrator /\ UNCHANGED <<queueVars, importVars, stellateVars>> PROVE ShopStep
    BY <1>9 DEF ShopStep
<1>10. ASSUME Purging(Shopper) \/ Purging(Stellate) PROVE ShopStep
    BY <1>10 DEF ShopStep, Purging
<1> QED BY <1>2, <1>3, <1>4, <1>5, <1>6, <1>7, <1>8, <1>9, <1>10 DEF Next

\* Orders and commits keep their types and what they permit.
LEMMA OrdersStep ==
    ASSUME OrdersTyped, Permitted, [Next]_vars
    PROVE  OrdersTyped' /\ Permitted'
<1>1. ASSUME UNCHANGED importVars
      PROVE  OrdersTyped' /\ Permitted'
    BY <1>1 DEF importVars, OrdersTyped, Permitted
<1>2. ASSUME NEW u \in Uploads, Validate(u)
      PROVE  OrdersTyped' /\ Permitted'
    <2>1. request' = request /\ order' = order /\ retried' = retried
        BY <1>2 DEF Validate
    <2>2. pending' \in [Uploads -> {"none", "pending", "gone"}]
        BY <1>2 DEF Validate, OrdersTyped
    <2> QED BY <2>1, <2>2 DEF OrdersTyped, Permitted
<1>3. ASSUME NEW r \in Requests, NEW u \in Uploads, NEW skip \in BOOLEAN, Commit(r, u, skip)
      PROVE  OrdersTyped' /\ Permitted'
    <2> DEFINE c == [state |-> "queueing", upload |-> u, skip |-> skip]
    <2>1. request' = [request EXCEPT ![r] = c] /\ pending' = pending /\ order' = order
        BY <1>3 DEF Commit
    <2>7. retried' \subseteq Uploads
        BY <1>3 DEF Commit, OrdersTyped
    <2>2. c \in Commits /\ c.upload = u /\ c.skip = skip
        BY DEF Commits
    <2>3. Permits(u, skip)
        BY <1>3 DEF Commit, Permits
    <2> HIDE DEF c
    <2>4. \A q \in Requests : request'[q] = IF q = r THEN c ELSE request[q]
        BY <2>1 DEF OrdersTyped
    <2>5. OrdersTyped'
        BY <2>1, <2>2, <2>7 DEF OrdersTyped
    <2>6. Permitted'
        BY <2>1, <2>2, <2>3, <2>4 DEF Permitted
    <2> QED BY <2>5, <2>6
<1>4. ASSUME NEW r \in Requests, NEW j \in Jobs, Queue(r, j)
      PROVE  OrdersTyped' /\ Permitted'
    <2> DEFINE o == [upload |-> request[r].upload, skip |-> request[r].skip]
               c == [request[r] EXCEPT !.state = "queued"]
    <2>1. /\ request' = [request EXCEPT ![r] = c] /\ pending' = pending
          /\ order' = [order EXCEPT ![j] = o] /\ retried' = retried
        BY <1>4 DEF Queue
    <2>2. request[r] \in Commits
        BY <1>4 DEF Queue, OrdersTyped, Idle
    <2>3. o \in Orders /\ o.upload = request[r].upload /\ o.skip = request[r].skip
        BY <2>2 DEF Commits, Orders
    <2>4. c \in Commits /\ c.upload = request[r].upload /\ c.skip = request[r].skip
        BY <2>2 DEF Commits
    <2>5. Permits(request[r].upload, request[r].skip)
        BY <2>2, CommitsAreMade DEF Permitted
    <2> HIDE DEF c, o
    <2>6. \A q \in Requests : request'[q] = IF q = r THEN c ELSE request[q]
        BY <2>1 DEF OrdersTyped
    <2>7. \A i \in Jobs : order'[i] = IF i = j THEN o ELSE order[i]
        BY <2>1 DEF OrdersTyped
    <2>8. OrdersTyped'
        BY <2>1, <2>3, <2>4 DEF OrdersTyped
    <2>9. Permitted'
        BY <2>3, <2>4, <2>5, <2>6, <2>7 DEF Permitted
    <2> QED BY <2>8, <2>9
<1>5. ASSUME NEW r \in Requests, Answer(r) \/ CommitFails(r)
      PROVE  OrdersTyped' /\ Permitted'
    <2>1. request' = [request EXCEPT ![r] = Idle] /\ order' = order
        BY <1>5 DEF Answer, CommitFails
    <2>2. pending' \in [Uploads -> {"none", "pending", "gone"}]
        BY <1>5 DEF Answer, CommitFails, OrdersTyped
    <2>6. retried' \subseteq Uploads
        <3>1. request[r].state = "queued" => request[r].upload \in Uploads
            BY DEF OrdersTyped, Idle, Commits
        <3> QED BY <1>5, <3>1 DEF Answer, CommitFails, OrdersTyped
    <2>3. \A q \in Requests : request'[q] = IF q = r THEN Idle ELSE request[q]
        BY <2>1 DEF OrdersTyped
    <2>4. OrdersTyped'
        BY <2>1, <2>2, <2>6 DEF OrdersTyped
    <2>5. Permitted'
        BY <2>1, <2>3 DEF Permitted
    <2> QED BY <2>4, <2>5
<1>6. ServerStep => OrdersTyped' /\ Permitted'
    BY <1>2, <1>3, <1>4, <1>5 DEF ServerStep
<1>7. UNCHANGED vars \/ QueueStep \/ WriteStep \/ EndStep \/ ShopStep
        \/ (\E w \in Workers : WorkerExit(w)) \/ PurgeLost
      => UNCHANGED importVars
    BY DEF vars, importVars, QueueStep, WriteStep, EndStep, ShopStep, WorkerExit, PurgeLost
<1> QED BY <1>1, <1>6, <1>7, StepsAre

\* A fault counted is a number.
LEMMA FaultsCount ==
    ASSUME QueueType PROVE faults \in Nat /\ (Fault => faults' \in 0..MaxFaults /\ faults' = faults + 1)
BY QueueAssumption DEF QueueType, Fault

\* A delivery is a new run and stays within the faults.
LEMMA ReceiveKeeps ==
    ASSUME QueueInv, NEW w \in Workers, NEW j \in Jobs, Receive(w, j)
    PROVE  QueueInv' /\ \A i \in Jobs : message'[i].state = "unsent" <=> message[i].state = "unsent"
<1> DEFINE d == message[j].delivered + 1
           m == [state |-> "leased", delivered |-> d]
<1>1. /\ message' = [message EXCEPT ![j] = m] /\ handling' = [handling EXCEPT ![w] = @ \cup {<<j, d>>}]
      /\ client' = client /\ faults' = faults
      /\ message[j].state = "waiting" /\ client[w] = "listening"
    BY DEF Receive
<1>2. faults \in Nat /\ faults <= MaxFaults /\ \A i \in Jobs : message[i].delivered \in Nat
    BY QueueAssumption DEF QueueInv, QueueType, Deliveries
<1>3. d \in Deliveries /\ d <= faults + 1 /\ d \in Nat
    <2>1. message[j].delivered <= faults
        BY <1>1 DEF QueueInv, Delivered
    <2> QED BY <1>2, <2>1, QueueAssumption DEF Deliveries
<1>4. m \in Messages /\ m.state = "leased" /\ m.delivered = d
    BY <1>3 DEF Messages
<1>5. message[j].delivered < d
    BY <1>2
<1> HIDE DEF d, m
<1>6. \A i \in Jobs : message'[i] = IF i = j THEN m ELSE message[i]
    BY <1>1 DEF QueueInv, QueueType
<1>7. \A v \in Workers : handling'[v] = IF v = w THEN handling[w] \cup {<<j, d>>} ELSE handling[v]
    BY <1>1 DEF QueueInv, QueueType
<1>8. QueueType'
    <2>1. <<j, d>> \in Runs
        BY <1>3 DEF Runs
    <2>2. message' \in [Jobs -> Messages]
        BY <1>1, <1>4 DEF QueueInv, QueueType, Messages
    <2>3. handling' \in [Workers -> SUBSET Runs]
        BY <1>1, <2>1 DEF QueueInv, QueueType
    <2> QED BY <1>1, <2>2, <2>3 DEF QueueInv, QueueType, Messages, Deliveries
<1>9. Delivered'
    BY <1>1, <1>3, <1>4, <1>6 DEF QueueInv, Delivered
<1>10. ASSUME NEW v \in Workers, NEW run \in handling'[v]
       PROVE  /\ run[2] <= message'[run[1]].delivered
              /\ client'[v] = "stopped" /\ run \in Leased({run})' => run[2] <= faults'
    <2>1. CASE run = <<j, d>> /\ v = w
        <3>1. run[1] = j /\ run[2] = d
            BY <2>1
        <3>2. client'[v] # "stopped"
            BY <1>1, <2>1
        <3> QED BY <1>3, <1>4, <1>6, <3>1, <3>2
    <2>2. CASE run \in handling[v]
        <3>1. run[1] \in Jobs /\ run[2] \in Nat
            BY <2>2, QueueAssumption DEF QueueInv, QueueType, Runs, Deliveries
        <3>2. run[2] <= message[run[1]].delivered
            BY <2>2 DEF QueueInv, Handled
        <3>3. CASE run[1] = j
            <4>1. run[2] < d
                BY <1>2, <1>3, <1>5, <3>1, <3>2, <3>3
            <4>2. message'[run[1]].delivered = d
                BY <1>4, <1>6, <3>3
            <4>3. run \notin Leased({run})'
                <5>1. run \in Leased({run})' => message'[run[1]] = [state |-> "leased", delivered |-> run[2]]
                    BY DEF Leased
                <5>2. run \in Leased({run})' => message'[run[1]].delivered = run[2]
                    BY <5>1
                <5>3. d # run[2]
                    BY <1>3, <3>1, <4>1
                <5> QED BY <4>2, <5>2, <5>3
            <4>4. run[2] <= d
                BY <1>3, <3>1, <4>1
            <4> QED BY <4>2, <4>3, <4>4
        <3>4. CASE run[1] # j
            <4>1. message'[run[1]] = message[run[1]]
                BY <1>6, <3>1, <3>4
            <4>2. run \in Leased({run})' => run \in Leased({run})
                BY <4>1 DEF Leased
            <4>3. client[v] = "stopped" /\ run \in Leased({run}) => run[2] <= faults
                BY <2>2 DEF QueueInv, Handled
            <4> QED BY <1>1, <3>2, <4>1, <4>2, <4>3
        <3> QED BY <3>3, <3>4
    <2>3. (run = <<j, d>> /\ v = w) \/ run \in handling[v]
        BY <1>7, <1>10
    <2> QED BY <2>1, <2>2, <2>3
<1>11. Handled'
    BY <1>10 DEF Handled
<1>12. \A i \in Jobs : message'[i].state = "unsent" <=> message[i].state = "unsent"
    BY <1>1, <1>4, <1>6
<1> QED BY <1>8, <1>9, <1>11, <1>12 DEF QueueInv

\* Every step keeps the queue sound and the orders with their messages.
LEMMA QueueInvStep ==
    ASSUME QueueInv, Ordered, OrdersTyped, [Next]_vars
    PROVE  QueueInv' /\ Ordered'
<1> DEFINE Sent == \A j \in Jobs : message'[j].state = "unsent" <=> message[j].state = "unsent"
<1>0. faults \in Nat /\ faults \in 0..MaxFaults /\ QueueType
      /\ \A j \in Jobs : message[j].delivered \in Nat /\ message[j].delivered <= faults + 1
    BY QueueAssumption DEF QueueInv, QueueType, Deliveries, Delivered
<1>1. ASSUME UNCHANGED queueVars PROVE QueueInv' /\ Sent
    BY <1>1 DEF queueVars, QueueInv, QueueType, Delivered, Handled, Leased
<1>2. ASSUME UNCHANGED <<message, client, handling>>, Fault PROVE QueueInv' /\ Sent
    <2>1. QueueType' /\ faults' \in Nat /\ faults <= faults'
        BY <1>0, <1>2, FaultsCount DEF QueueType
    <2>2. Delivered' /\ Handled'
        BY <1>2, <2>1, QueueKept
    <2> QED BY <1>2, <2>1, <2>2 DEF QueueInv
<1>3. ASSUME NEW r \in Requests, NEW j \in Jobs, Queue(r, j)
      PROVE  QueueInv' /\ Ordered'
    <2> DEFINE m == [message[j] EXCEPT !.state = "waiting"]
               o == [upload |-> request[r].upload, skip |-> request[r].skip]
    <2>1. /\ message[j].state = "unsent" /\ message' = [message EXCEPT ![j] = m]
          /\ client' = client /\ handling' = handling /\ faults' = faults
          /\ order' = [order EXCEPT ![j] = o]
        BY <1>3 DEF Queue, Add
    <2>2. m \in Messages /\ m.state = "waiting" /\ m.delivered = message[j].delivered
        BY <1>0 DEF QueueType, Messages
    <2>3. o # NoOrder
        <3>1. request[r] \in Commits
            BY <1>3 DEF Queue, OrdersTyped, Idle
        <3>2. o \in Orders
            BY <3>1 DEF Commits, Orders
        <3> QED BY <3>2, OrdersAreGiven
    <2> HIDE DEF m, o
    <2>4. \A i \in Jobs : message'[i] = IF i = j THEN m ELSE message[i]
        BY <1>0, <2>1 DEF QueueType
    <2>5. \A i \in Jobs : order'[i] = IF i = j THEN o ELSE order[i]
        BY <2>1 DEF OrdersTyped
    <2>6. QueueType'
        BY <1>0, <2>1, <2>2 DEF QueueType, Messages, Deliveries
    <2>7. Delivered' /\ Handled'
        <3>1. message[j].delivered = 0
            BY <2>1 DEF QueueInv, Delivered
        <3>2. message[j].delivered <= faults
            BY <1>0, <3>1
        <3>3. \A i \in Jobs : message'[i].delivered = message[i].delivered
            BY <2>2, <2>4
        <3>4. \A i \in Jobs : \/ message'[i].state = message[i].state
                              \/ message'[i].state = "waiting" /\ message[i].delivered <= faults
            BY <2>2, <2>4, <3>2
        <3> QED BY <1>0, <2>1, <3>3, <3>4, QueueKept
    <2>8. Ordered'
        BY <2>2, <2>3, <2>4, <2>5 DEF Ordered
    <2> QED BY <2>6, <2>7, <2>8 DEF QueueInv
<1>4. ASSUME NEW w \in Workers, Start(w) \/ Initialize(w) \/ Stop(w)
      PROVE  QueueInv' /\ Sent
    <2>1. message' = message /\ handling' = handling
        BY <1>4 DEF Start, Initialize, Stop
    <2>2. client' \in [Workers -> {"new", "ready", "deferred", "listening", "stopped"}]
        BY <1>0, <1>4 DEF Start, Initialize, Stop, QueueType
    <2>3. faults' \in 0..MaxFaults /\ faults' \in Nat /\ faults <= faults'
        BY <1>0, <1>4, FaultsCount DEF Start, Initialize, Stop
    <2>4. \A v \in Workers : client'[v] = "stopped" => client[v] = "stopped" \/ faults < faults'
        <3>1. CASE Stop(w)
            BY <1>0, <3>1, FaultsCount DEF Stop
        <3>2. CASE Start(w) \/ Initialize(w)
            BY <1>0, <3>2 DEF Start, Initialize, QueueType
        <3> QED BY <1>4, <3>1, <3>2
    <2>5. Delivered' /\ Handled'
        BY <2>1, <2>3, <2>4, QueueKept
    <2> QED BY <1>0, <2>1, <2>2, <2>3, <2>5 DEF QueueInv, QueueType
<1>5. ASSUME NEW w \in Workers, NEW j \in Jobs, Receive(w, j)
      PROVE  QueueInv' /\ Sent
    BY <1>5, ReceiveKeeps
<1>6. ASSUME NEW j \in Jobs, LeaseExpires(j)
      PROVE  QueueInv' /\ Sent
    <2> DEFINE m == [message[j] EXCEPT !.state = "waiting"]
    <2>1. /\ message[j].state = "leased" /\ message' = [message EXCEPT ![j] = m]
          /\ client' = client /\ handling' = handling /\ Fault
        BY <1>6 DEF LeaseExpires
    <2>2. m \in Messages /\ m.state = "waiting" /\ m.delivered = message[j].delivered
        BY <1>0 DEF QueueType, Messages
    <2> HIDE DEF m
    <2>3. faults' \in 0..MaxFaults /\ faults' \in Nat /\ faults <= faults' /\ faults' = faults + 1
        BY <1>0, <2>1, FaultsCount
    <2>4. \A i \in Jobs : message'[i] = IF i = j THEN m ELSE message[i]
        BY <1>0, <2>1 DEF QueueType
    <2>5. QueueType'
        BY <1>0, <2>1, <2>2, <2>3 DEF QueueType, Messages, Deliveries
    <2>6. Delivered' /\ Handled'
        <3>1. \A i \in Jobs : message'[i].delivered = message[i].delivered
            BY <2>2, <2>4
        <3>2. \A i \in Jobs : \/ message'[i].state = message[i].state
                              \/ message'[i].state = "waiting" /\ message[i].delivered <= faults'
            BY <1>0, <2>2, <2>3, <2>4
        <3> QED BY <2>1, <2>3, <3>1, <3>2, QueueKept
    <2>7. Sent
        BY <2>1, <2>2, <2>4
    <2> QED BY <2>5, <2>6, <2>7 DEF QueueInv
<1>7. ASSUME NEW w \in Workers, NEW run \in handling[w], JobDone(w, run)
      PROVE  QueueInv' /\ Sent
    <2>1. run \in Runs /\ run[1] \in Jobs /\ message[run[1]].state # "unsent"
        <3>1. run \in Runs
            BY <1>0 DEF QueueType
        <3>2. run[1] \in Jobs /\ run[2] \in Nat /\ run[2] # 0
            BY <3>1, QueueAssumption DEF Runs, Deliveries
        <3>3. run[2] <= message[run[1]].delivered
            BY DEF QueueInv, Handled
        <3>4. message[run[1]].delivered # 0
            BY <1>0, <3>2, <3>3
        <3> QED BY <3>1, <3>2, <3>4 DEF QueueInv, Delivered
    <2> DEFINE m == [message[run[1]] EXCEPT !.state = "acknowledged"]
    <2>2. m \in Messages /\ m.state = "acknowledged" /\ m.delivered = message[run[1]].delivered
        BY <1>0, <2>1 DEF QueueType, Messages
    <2> HIDE DEF m
    <2>3. /\ message' = message \/ message' = [message EXCEPT ![run[1]] = m]
          /\ handling' = [handling EXCEPT ![w] = @ \ {run}]
          /\ client' = client /\ faults' = faults
        BY <1>7 DEF JobDone, Acknowledge, m
    <2>4. \A i \in Jobs : message'[i] = message[i] \/ (i = run[1] /\ message'[i] = m)
        BY <1>0, <2>3 DEF QueueType
    <2>5. \A v \in Workers : handling'[v] \subseteq handling[v]
        BY <1>0, <2>3 DEF QueueType
    <2>6. QueueType'
        <3>1. message' \in [Jobs -> Messages]
            BY <1>0, <2>2, <2>3 DEF QueueType, Messages
        <3>2. handling' \in [Workers -> SUBSET Runs]
            BY <1>0, <2>3 DEF QueueType
        <3> QED BY <1>0, <2>3, <3>1, <3>2 DEF QueueType, Messages, Deliveries
    <2>7. Delivered' /\ Handled'
        <3>1. \A i \in Jobs : message'[i].delivered = message[i].delivered
            BY <2>2, <2>4
        <3>2. \A i \in Jobs : message'[i].state = message[i].state \/ message'[i].state = "acknowledged"
            BY <2>2, <2>4
        <3> QED BY <1>0, <2>3, <2>5, <3>1, <3>2, QueueKept
    <2>8. Sent
        BY <2>1, <2>2, <2>4
    <2> QED BY <2>6, <2>7, <2>8 DEF QueueInv
<1>8. ASSUME NEW runs \in SUBSET Runs, message' = Returned(runs), faults' \in 0..MaxFaults,
             faults' = faults + 1 \/ (faults' = faults /\ \A run \in Leased(runs) : run[2] <= faults),
             \A v \in Workers : handling'[v] \subseteq handling[v],
             \A v \in Workers : client'[v] = "stopped" => client[v] = "stopped" \/ faults < faults'
      PROVE  Delivered' /\ Handled' /\ Sent /\ message' \in [Jobs -> Messages]
    <2>1. faults' \in Nat /\ faults <= faults'
        BY <1>0, <1>8
    <2>2. /\ message' \in [Jobs -> Messages]
          /\ \A j \in Jobs :
                /\ message'[j].delivered = message[j].delivered
                /\ \/ message'[j].state = message[j].state
                   \/ /\ message'[j].state = "waiting" /\ message[j].state = "leased"
                      /\ \E run \in Leased(runs) : run[1] = j
        BY <1>0, <1>8, ReturnedMessages
    <2>3. ASSUME NEW j \in Jobs, NEW run \in Leased(runs), run[1] = j
          PROVE  message[j].delivered <= faults'
        <3>1. message[j].delivered = run[2]
            BY <2>3 DEF Leased
        <3>2. faults' = faults => run[2] <= faults
            BY <1>0, <1>8
        <3>3. faults' = faults + 1 => message[j].delivered <= faults'
            BY <1>0
        <3> QED BY <1>8, <3>1, <3>2, <3>3
    <2>4. Delivered' /\ Handled'
        BY <1>8, <2>1, <2>2, <2>3, QueueKept
    <2>5. Sent
        BY <2>2
    <2> QED BY <2>2, <2>4, <2>5
<1>9. ASSUME NEW w \in Workers, NEW run \in handling[w], JobFails(w, run)
      PROVE  QueueInv' /\ Sent
    <2>1. /\ message' = Returned({run}) /\ handling' = [handling EXCEPT ![w] = @ \ {run}]
          /\ client' = client /\ Fault
        BY <1>9 DEF JobFails, Refuse
    <2>2. {run} \in SUBSET Runs
        BY <1>0 DEF QueueType
    <2>3. faults' \in 0..MaxFaults /\ faults' = faults + 1
        BY <1>0, <2>1, FaultsCount
    <2>4. \A v \in Workers : handling'[v] \subseteq handling[v]
        BY <1>0, <2>1 DEF QueueType
    <2>5. Delivered' /\ Handled' /\ Sent /\ message' \in [Jobs -> Messages]
        BY <1>8, <2>1, <2>2, <2>3, <2>4
    <2>6. handling' \in [Workers -> SUBSET Runs]
        BY <1>0, <2>1 DEF QueueType
    <2>7. QueueType'
        BY <1>0, <2>1, <2>3, <2>5, <2>6 DEF QueueType, Messages, Deliveries
    <2> QED BY <2>5, <2>7 DEF QueueInv
<1>10. ASSUME NEW w \in Workers, WorkerExit(w)
       PROVE  QueueInv' /\ Sent
    <2>1. /\ message' = Returned(handling[w]) /\ handling' = [handling EXCEPT ![w] = {}]
          /\ client' = [client EXCEPT ![w] = "new"]
          /\ (client[w] = "stopped" /\ faults' = faults) \/ Fault
        BY <1>10 DEF WorkerExit, Exit
    <2>2. handling[w] \in SUBSET Runs
        BY <1>0 DEF QueueType
    <2>3. ASSUME client[w] = "stopped", NEW run \in Leased(handling[w])
          PROVE  run[2] <= faults
        <3>1. run \in handling[w] /\ run \in Leased({run})
            BY <2>3 DEF Leased
        <3> QED BY <2>3, <3>1 DEF QueueInv, Handled
    <2>4. faults' \in 0..MaxFaults
          /\ (faults' = faults + 1 \/ (faults' = faults /\ \A run \in Leased(handling[w]) : run[2] <= faults))
        BY <1>0, <2>1, <2>3, FaultsCount
    <2>5. \A v \in Workers : handling'[v] \subseteq handling[v]
        BY <1>0, <2>1 DEF QueueType
    <2>6. \A v \in Workers : client'[v] = "stopped" => client[v] = "stopped"
        BY <1>0, <2>1 DEF QueueType
    <2>7. Delivered' /\ Handled' /\ Sent /\ message' \in [Jobs -> Messages]
        BY <1>8, <2>1, <2>2, <2>4, <2>5, <2>6
    <2>8. handling' \in [Workers -> SUBSET Runs]
          /\ client' \in [Workers -> {"new", "ready", "deferred", "listening", "stopped"}]
        BY <1>0, <2>1 DEF QueueType
    <2>9. QueueType'
        BY <2>4, <2>7, <2>8 DEF QueueType, Messages, Deliveries
    <2> QED BY <2>7, <2>9 DEF QueueInv
<1>11. ASSUME Sent, order' = order PROVE Ordered'
    BY <1>11 DEF Ordered
<1>12. ASSUME ServerStep PROVE QueueInv' /\ Ordered'
    <2>1. CASE \E r \in Requests, j \in Jobs : Queue(r, j)
        BY <1>3, <2>1
    <2>2. ASSUME NEW r \in Requests, CommitFails(r)
          PROVE  QueueInv' /\ Ordered'
        <3>1. UNCHANGED <<message, client, handling>> /\ Fault /\ order' = order
            BY <2>2 DEF CommitFails
        <3> QED BY <1>2, <1>11, <3>1
    <2>3. CASE (\E u \in Uploads : Validate(u)) \/ (\E r \in Requests : Answer(r))
               \/ \E r \in Requests, u \in Uploads, skip \in BOOLEAN : Commit(r, u, skip)
        <3>1. UNCHANGED queueVars /\ order' = order
            BY <2>3 DEF Validate, Answer, Commit
        <3> QED BY <1>1, <1>11, <3>1
    <2> QED BY <1>12, <2>1, <2>2, <2>3 DEF ServerStep
<1>13. ASSUME QueueStep PROVE QueueInv' /\ Ordered'
    <2>1. order' = order
        BY <1>13 DEF QueueStep, importVars
    <2>2. QueueInv' /\ Sent
        BY <1>4, <1>5, <1>6, <1>13 DEF QueueStep
    <2> QED BY <1>11, <2>1, <2>2
<1>14. ASSUME EndStep PROVE QueueInv' /\ Ordered'
    <2>1. order' = order
        BY <1>14 DEF EndStep, importVars
    <2>2. QueueInv' /\ Sent
        BY <1>7, <1>9, <1>14 DEF EndStep
    <2> QED BY <1>11, <2>1, <2>2
<1>15. ASSUME \E w \in Workers : WorkerExit(w) PROVE QueueInv' /\ Ordered'
    <2>1. order' = order
        BY <1>15 DEF WorkerExit, importVars
    <2> QED BY <1>10, <1>11, <1>15, <2>1
<1>16. ASSUME UNCHANGED vars \/ WriteStep \/ ShopStep PROVE QueueInv' /\ Ordered'
    <2>1. UNCHANGED queueVars /\ order' = order
        BY <1>16 DEF vars, WriteStep, ShopStep, importVars
    <2> QED BY <1>1, <1>11, <2>1
<1>17. ASSUME PurgeLost PROVE QueueInv' /\ Ordered'
    <2>1. UNCHANGED <<message, client, handling>> /\ Fault /\ order' = order
        BY <1>17 DEF PurgeLost, importVars
    <2> QED BY <1>2, <1>11, <2>1
<1> HIDE DEF Sent
<1> QED BY <1>12, <1>13, <1>14, <1>15, <1>16, <1>17, StepsAre

-----------------------------------------------------------------------------
(* A file is queued once. *)

\* What makes the token of a file spent: unless its commits may have doubled its jobs, a file
\* has one request at a time; a file that was queued is gone or about to be; and one whose
\* request has yet to queue it was not.
Files ==
    /\ \A q, r \in Requests :
          q # r /\ request[q] # Idle /\ request[r] # Idle /\ request[q].upload = request[r].upload
              => request[r].upload \in retried
    /\ \A j \in Jobs : order[j] # NoOrder =>
          \/ order[j].upload \in retried
          \/ pending[order[j].upload] = "gone"
          \/ \E r \in Requests : request[r].state = "queued" /\ request[r].upload = order[j].upload
    /\ \A r \in Requests, j \in Jobs :
          request[r].state = "queueing" /\ order[j] # NoOrder /\ order[j].upload = request[r].upload
              => request[r].upload \in retried
    /\ CommittedOnce

\* Each step keeps it so.
LEMMA FilesStep ==
    ASSUME OrdersTyped, Files, [Next]_vars
    PROVE  Files'
<1>1. ASSUME UNCHANGED importVars
      PROVE  Files'
    BY <1>1 DEF importVars, Files, CommittedOnce
<1>2. ASSUME NEW u \in Uploads, Validate(u)
      PROVE  Files'
    <2>1. request' = request /\ order' = order /\ retried' = retried
        BY <1>2 DEF Validate
    <2>2. \A v \in Uploads : pending[v] = "gone" => pending'[v] = "gone"
        BY <1>2 DEF Validate
    <2>3. \A j \in Jobs : order[j] # NoOrder => order[j].upload \in Uploads
        BY DEF OrdersTyped, Orders
    <2> QED BY <2>1, <2>2, <2>3 DEF Files, CommittedOnce
<1>3. ASSUME NEW r \in Requests, NEW u \in Uploads, NEW skip \in BOOLEAN, Commit(r, u, skip)
      PROVE  Files'
    <2> DEFINE c == [state |-> "queueing", upload |-> u, skip |-> skip]
    <2>1. /\ request[r] = Idle /\ pending[u] = "pending"
          /\ request' = [request EXCEPT ![r] = c] /\ pending' = pending /\ order' = order
        BY <1>3 DEF Commit
    <2>2. c.state = "queueing" /\ c.upload = u
        OBVIOUS
    <2> HIDE DEF c
    <2>3. \A q \in Requests : request'[q] = IF q = r THEN c ELSE request[q]
        BY <2>1 DEF OrdersTyped
    <2>4. \A q \in Requests : request[q].state = "queued" => q # r /\ request[q] # Idle
        BY <2>1 DEF Idle
    <2>5. \A v : v \in retried => v \in retried'
        BY <1>3 DEF Commit
    <2>6. \A q \in Requests : request[q] # Idle /\ request[q].upload = u => u \in retried'
        BY <1>3 DEF Commit, Committing
    <2>7. \A j \in Jobs : order[j] # NoOrder /\ order[j].upload = u => u \in retried'
        BY <2>1, <2>4, <2>5, <2>6 DEF Files
    <2>8. ASSUME NEW p \in Requests, NEW q \in Requests, p # q,
                 request'[p] # Idle, request'[q] # Idle, request'[p].upload = request'[q].upload
          PROVE  request'[q].upload \in retried'
        <3>1. CASE q = r
            BY <2>2, <2>3, <2>6, <2>8, <3>1
        <3>2. CASE p = r
            BY <2>2, <2>3, <2>6, <2>8, <3>2
        <3>3. CASE p # r /\ q # r
            <4>1. request[q].upload \in retried
                BY <2>3, <2>8, <3>3 DEF Files
            <4> QED BY <2>3, <2>5, <3>3, <4>1
        <3> QED BY <3>1, <3>2, <3>3
    <2>9. ASSUME NEW j \in Jobs, order[j] # NoOrder
          PROVE  \/ order[j].upload \in retried'
                 \/ pending[order[j].upload] = "gone"
                 \/ \E q \in Requests : request'[q].state = "queued" /\ request'[q].upload = order[j].upload
        BY <2>3, <2>4, <2>5, <2>9 DEF Files
    <2>10. ASSUME NEW q \in Requests, NEW j \in Jobs, request'[q].state = "queueing",
                  order[j] # NoOrder, order[j].upload = request'[q].upload
           PROVE  request'[q].upload \in retried'
        <3>1. CASE q = r
            BY <2>2, <2>3, <2>7, <2>10, <3>1
        <3>2. CASE q # r
            <4>1. request[q].upload \in retried
                BY <2>3, <2>10, <3>2 DEF Files
            <4> QED BY <2>3, <2>5, <3>2, <4>1
        <3> QED BY <3>1, <3>2
    <2>11. CommittedOnce'
        BY <2>1, <2>5 DEF Files, CommittedOnce
    <2>12. /\ \A p, q \in Requests :
                 p # q /\ request'[p] # Idle /\ request'[q] # Idle /\ request'[p].upload = request'[q].upload
                     => request'[q].upload \in retried'
           /\ \A q \in Requests, j \in Jobs :
                 request'[q].state = "queueing" /\ order[j] # NoOrder /\ order[j].upload = request'[q].upload
                     => request'[q].upload \in retried'
        BY <2>8, <2>10
    <2> QED BY <2>1, <2>9, <2>11, <2>12 DEF Files
<1>4. ASSUME NEW r \in Requests, NEW j \in Jobs, Queue(r, j)
      PROVE  Files'
    <2> DEFINE o == [upload |-> request[r].upload, skip |-> request[r].skip]
               c == [request[r] EXCEPT !.state = "queued"]
               u == request[r].upload
    <2>1. /\ request[r].state = "queueing" /\ order[j] = NoOrder /\ retried' = retried
          /\ request' = [request EXCEPT ![r] = c] /\ pending' = pending /\ order' = [order EXCEPT ![j] = o]
        BY <1>4 DEF Queue
    <2>2. request[r] \in Commits /\ request[r] # Idle
        BY <2>1 DEF OrdersTyped, Idle
    <2>3. o.upload = u
        OBVIOUS
    <2>4. c.state = "queued" /\ c.upload = u
        BY <2>2 DEF Commits
    <2> HIDE DEF c, o, u
    <2>5. \A q \in Requests : request'[q] = IF q = r THEN c ELSE request[q]
        BY <2>1 DEF OrdersTyped
    <2>6. \A i \in Jobs : order'[i] = IF i = j THEN o ELSE order[i]
        BY <2>1 DEF OrdersTyped
    <2>7. \A q \in Requests : q # r /\ request[q] # Idle /\ request[q].upload = u => u \in retried
        BY <2>2 DEF Files, u
    <2>8. \A i \in Jobs : order[i] # NoOrder /\ order[i].upload = u => u \in retried
        BY <2>1 DEF Files, u
    <2>9. \A p, q \in Requests :
              p # q /\ request'[p] # Idle /\ request'[q] # Idle /\ request'[p].upload = request'[q].upload
                  => request'[q].upload \in retried
        <3>1. SUFFICES ASSUME NEW p \in Requests, NEW q \in Requests, p # q,
                              request'[p] # Idle, request'[q] # Idle,
                              request'[p].upload = request'[q].upload
                       PROVE  request'[q].upload \in retried
            OBVIOUS
        <3>2. CASE q = r
            BY <2>4, <2>5, <2>7, <3>1, <3>2
        <3>3. CASE p = r
            BY <2>4, <2>5, <2>7, <3>1, <3>3
        <3>4. CASE p # r /\ q # r
            BY <2>5, <3>1, <3>4 DEF Files
        <3> QED BY <3>2, <3>3, <3>4
    <2>10. ASSUME NEW i \in Jobs, order'[i] # NoOrder
           PROVE  \/ order'[i].upload \in retried
                  \/ pending[order'[i].upload] = "gone"
                  \/ \E q \in Requests : request'[q].state = "queued" /\ request'[q].upload = order'[i].upload
        <3>1. CASE i = j
            BY <2>3, <2>4, <2>5, <2>6, <3>1
        <3>2. CASE i # j
            <4>1. order'[i] = order[i] /\ order[i] # NoOrder
                BY <2>6, <2>10, <3>2
            <4>2. \A q \in Requests : request[q].state = "queued" => request'[q] = request[q]
                BY <2>1, <2>5
            <4> QED BY <4>1, <4>2 DEF Files
        <3> QED BY <3>1, <3>2
    <2>11. ASSUME NEW q \in Requests, NEW i \in Jobs, request'[q].state = "queueing",
                  order'[i] # NoOrder, order'[i].upload = request'[q].upload
           PROVE  request'[q].upload \in retried
        <3>1. q # r /\ request'[q] = request[q] /\ request[q].state = "queueing"
            BY <2>4, <2>5, <2>11
        <3>2. request[q] # Idle
            BY <3>1 DEF Idle
        <3>3. CASE i = j
            BY <2>3, <2>6, <2>7, <2>11, <3>1, <3>2, <3>3
        <3>4. CASE i # j
            BY <2>6, <2>11, <3>1, <3>4 DEF Files
        <3> QED BY <3>3, <3>4
    <2>12. ASSUME NEW i \in Jobs, NEW k \in Jobs, i # k, order'[i] # NoOrder, order'[k] # NoOrder,
                  order'[i].upload = order'[k].upload
           PROVE  order'[i].upload \in retried
        <3>1. CASE i = j
            BY <2>3, <2>6, <2>8, <2>12, <3>1
        <3>2. CASE k = j
            BY <2>3, <2>6, <2>8, <2>12, <3>2
        <3>3. CASE i # j /\ k # j
            BY <2>6, <2>12, <3>3 DEF Files, CommittedOnce
        <3> QED BY <3>1, <3>2, <3>3
    <2>13. \A v : v \in retried' <=> v \in retried
        BY <2>1
    <2>14. CommittedOnce'
        BY <2>1, <2>12 DEF CommittedOnce
    <2> QED BY <2>1, <2>9, <2>10, <2>11, <2>14 DEF Files
<1>5. ASSUME NEW r \in Requests, Answer(r) \/ CommitFails(r)
      PROVE  Files'
    <2>1. request' = [request EXCEPT ![r] = Idle] /\ order' = order
        BY <1>5 DEF Answer, CommitFails
    <2>2. \A q \in Requests : request'[q] = IF q = r THEN Idle ELSE request[q]
        BY <2>1 DEF OrdersTyped
    <2>3. retried \subseteq retried'
        BY <1>5 DEF Answer, CommitFails
    <2>4. ASSUME NEW j \in Jobs, order[j] # NoOrder
          PROVE  \/ order[j].upload \in retried'
                 \/ pending'[order[j].upload] = "gone"
                 \/ \E q \in Requests : request'[q].state = "queued" /\ request'[q].upload = order[j].upload
        <3>1. order[j].upload \in Uploads
            BY <2>4 DEF OrdersTyped, Orders
        <3>2. CASE pending[order[j].upload] = "gone"
            BY <1>5, <3>1, <3>2 DEF Answer, CommitFails, OrdersTyped
        <3>3. ASSUME NEW q \in Requests, request[q].state = "queued", request[q].upload = order[j].upload
              PROVE  \/ order[j].upload \in retried'
                     \/ pending'[order[j].upload] = "gone"
                     \/ request'[q].state = "queued" /\ request'[q].upload = order[j].upload
            <4>1. CASE q # r
                BY <2>2, <3>3, <4>1
            <4>2. CASE q = r /\ Answer(r)
                BY <3>1, <3>3, <4>2 DEF Answer, OrdersTyped
            <4>3. CASE q = r /\ CommitFails(r)
                BY <3>3, <4>3 DEF CommitFails
            <4> QED BY <1>5, <4>1, <4>2, <4>3
        <3>4. CASE order[j].upload \in retried
            BY <2>3, <3>4
        <3> QED BY <2>4, <3>2, <3>3, <3>4 DEF Files
    <2>5. Idle.state # "queueing"
        BY DEF Idle
    <2>6. /\ \A p, q \in Requests :
                 p # q /\ request'[p] # Idle /\ request'[q] # Idle /\ request'[p].upload = request'[q].upload
                     => request'[q].upload \in retried'
          /\ \A q \in Requests, j \in Jobs :
                 request'[q].state = "queueing" /\ order[j] # NoOrder /\ order[j].upload = request'[q].upload
                     => request'[q].upload \in retried'
        BY <2>2, <2>3, <2>5 DEF Files
    <2>7. CommittedOnce'
        BY <2>1, <2>3 DEF Files, CommittedOnce
    <2> QED BY <2>1, <2>4, <2>6, <2>7 DEF Files
<1>6. ServerStep => Files'
    BY <1>2, <1>3, <1>4, <1>5 DEF ServerStep
<1>7. UNCHANGED vars \/ QueueStep \/ WriteStep \/ EndStep \/ ShopStep
        \/ (\E w \in Workers : WorkerExit(w)) \/ PurgeLost
      => UNCHANGED importVars
    BY DEF vars, importVars, QueueStep, WriteStep, EndStep, ShopStep, WorkerExit, PurgeLost
<1> QED BY <1>1, <1>6, <1>7, StepsAre

-----------------------------------------------------------------------------
(* The writer: what the runs of a job have written. *)

\* The products of the shop; a product that exists has an edition.
Products == [edition : Nat \ {0}, variantEdition : Nat, variants : Seq(Nat)]

CatalogTyped == catalog \in [Keys -> {Absent} \cup Products]

\* A run has come to its n-th group: it has written the groups before completely, of this
\* one the first variants, and none after it.
Progress(run, n) ==
    /\ n \in 0..Len(Groups(run[1]))
    /\ \A g \in 1..Len(Groups(run[1])) : Exists(ProductKey(run, g)) <=> g <= n
    /\ \A g \in 1..n :
          /\ Len(Variants(run, g)) <= Len(Groups(run[1])[g])
          /\ \A x \in 1..Len(Variants(run, g)) : Variants(run, g)[x] = Groups(run[1])[g][x]
    /\ \A g \in 1..n-1 : Variants(run, g) = Groups(run[1])[g]

\* Every run of a queued job has come to some group.
Written == \A run \in Runs : order[run[1]] # NoOrder => \E n \in Nat : Progress(run, n)

\* Every product was written by a run, for a group of its job.
Owned ==
    \A k \in Keys : Exists(k) =>
        \E run \in Runs : /\ order[run[1]] # NoOrder
                          /\ \E g \in 1..Len(Groups(run[1])) : k = ProductKey(run, g)

\* A run has written every group.
Complete(run) ==
    \A g \in 1..Len(Groups(run[1])) :
        Exists(ProductKey(run, g)) /\ Variants(run, g) = Groups(run[1])[g]

\* A job that the queue has forgotten was queued, and one of its runs was complete.
DoneIsComplete ==
    \A j \in Jobs : message[j].state = "acknowledged" =>
        order[j] # NoOrder /\ \E d \in Deliveries : Complete(<<j, d>>)

\* The work of the writer.
WriterInv == CatalogTyped /\ Written /\ Owned /\ DoneIsComplete

\* The groups of a job, and the products they may become.
LEMMA GroupsOfJob ==
    ASSUME Permitted, NEW run \in Runs, order[run[1]] # NoOrder
    PROVE  /\ Groups(run[1]) \in Seq(Seq(Nat)) /\ Len(Groups(run[1])) \in Nat
           /\ \A g \in 1..Len(Groups(run[1])) :
                 /\ Groups(run[1])[g] \in Seq(Nat) /\ Len(Groups(run[1])[g]) \in Nat
                 /\ Len(Groups(run[1])[g]) > 0
                 /\ ProductKey(run, g) \in Keys
<1> DEFINE u == order[run[1]].upload
           skip == order[run[1]].skip
           groups == Groups(run[1])
<1>1. run[1] \in Jobs
    BY DEF Runs
<1>2. Permits(u, skip) /\ groups = GroupsOf[u][skip]
    BY <1>1 DEF Permitted, Groups
<1> HIDE DEF u, skip, groups
<1>3. groups \in Seq(Seq(Nat)) /\ \A g \in 1..Len(groups) : Len(groups[g]) > 0
    <2>1. OfProducts(u, RowsOf[u][skip], groups)
        BY <1>2, GroupsArePermitted
    <2> QED BY <2>1 DEF OfProducts
<1>4. Len(groups) \in Nat /\ DOMAIN groups = 1..Len(groups)
      /\ \A g \in 1..Len(groups) : groups[g] \in Seq(Nat) /\ Len(groups[g]) \in Nat
    BY <1>3
<1>5. \A g \in DOMAIN groups : ProductKey(run, g) \in Keys
    BY <1>2, KeysAssumption DEF Permits
<1> QED BY <1>3, <1>4, <1>5 DEF groups

\* Sequences of the same elements are the same.
LEMMA SameSequence ==
    ASSUME NEW S, NEW s \in Seq(S), NEW t \in Seq(S), Len(s) = Len(t),
           \A x \in 1..Len(s) : s[x] = t[x]
    PROVE  s = t
OBVIOUS

\* What a run has come to, counted as the code's model does.
LEMMA PositionIs ==
    ASSUME Permitted, NEW run \in Runs, order[run[1]] # NoOrder, NEW n \in Nat, Progress(run, n)
    PROVE  Position(run) = n
<1>1. Groups(run[1]) \in Seq(Seq(Nat)) /\ Len(Groups(run[1])) \in Nat
    BY GroupsOfJob
<1>2. DOMAIN Groups(run[1]) = 1..Len(Groups(run[1]))
    BY <1>1
<1>3. {g \in DOMAIN Groups(run[1]) : Exists(ProductKey(run, g))} = 1..n
    BY <1>1, <1>2 DEF Progress
<1>4. Cardinality(1..n) = n
    <2>1. Cardinality(1..n) = IF 1 > n THEN 0 ELSE n - 1 + 1
        BY FS_Interval
    <2> QED BY <2>1
<1> QED BY <1>3, <1>4 DEF Position

\* Of different runs, and of different groups of one, the products are different.
LEMMA KeysDiffer ==
    ASSUME NEW q \in Runs, NEW r \in Runs, NEW g, NEW h, ProductKey(q, g) = ProductKey(r, h)
    PROVE  q = r /\ g = h
BY DEF ProductKey, Runs

\* Where no product comes or goes and no variants change, the writer's work is unchanged.
LEMMA WorkIsKept ==
    ASSUME Permitted, order' = order, NEW R \in SUBSET Runs,
           \A r \in R : order[r[1]] # NoOrder,
           \A r \in R : \A g \in 1..Len(Groups(r[1])) :
               /\ Exists(ProductKey(r, g))' <=> Exists(ProductKey(r, g))
               /\ Exists(ProductKey(r, g)) => Variants(r, g)' = Variants(r, g)
    PROVE  \A r \in R : /\ \A n \in Nat : Progress(r, n) => Progress(r, n)'
                        /\ Complete(r) => Complete(r)'
<1> SUFFICES ASSUME NEW r \in R
             PROVE  /\ \A n \in Nat : Progress(r, n) => Progress(r, n)'
                    /\ Complete(r) => Complete(r)'
    OBVIOUS
<1>1. Groups(r[1])' = Groups(r[1])
    BY DEF Groups, RowsOf, GroupsOf
<1>2. Len(Groups(r[1])) \in Nat
    BY GroupsOfJob
<1>3. ASSUME NEW n \in Nat, Progress(r, n)
      PROVE  Progress(r, n)'
    <2>1. n \in 0..Len(Groups(r[1]))
        BY <1>3 DEF Progress
    <2>2. \A g \in 1..n : g \in 1..Len(Groups(r[1])) /\ Exists(ProductKey(r, g))
        BY <1>2, <1>3, <2>1 DEF Progress
    <2>3. \A g \in 1..n : Variants(r, g)' = Variants(r, g)
        BY <2>2
    <2>4. \A g \in 1..Len(Groups(r[1])) : Exists(ProductKey(r, g))' <=> g <= n
        BY <1>3 DEF Progress
    <2>5. \A g \in 1..n-1 : g \in 1..n
        BY <1>3
    <2> QED BY <1>1, <1>3, <2>1, <2>3, <2>4, <2>5, SMTT(60) DEF Progress
<1>4. ASSUME Complete(r)
      PROVE  Complete(r)'
    BY <1>1, <1>4 DEF Complete
<1> QED BY <1>3, <1>4

\* What is handled was ordered.
LEMMA RunsAreOrdered ==
    ASSUME QueueInv, Ordered, NEW w \in Workers, NEW run \in handling[w]
    PROVE  /\ run \in Runs /\ run[1] \in Jobs /\ run[2] \in Deliveries /\ run = <<run[1], run[2]>>
           /\ order[run[1]] # NoOrder
<1>1. run \in Runs
    BY DEF QueueInv, QueueType
<1>2. run[1] \in Jobs /\ run[2] \in Deliveries /\ run = <<run[1], run[2]>> /\ run[2] \in Nat /\ run[2] # 0
    BY <1>1, QueueAssumption DEF Runs, Deliveries
<1>3. run[2] <= message[run[1]].delivered
    BY DEF QueueInv, Handled
<1>4. message[run[1]].delivered \in Nat
    BY <1>2, QueueAssumption DEF QueueInv, QueueType, Deliveries
<1>5. message[run[1]].delivered # 0
    BY <1>2, <1>3, <1>4
<1>6. message[run[1]].state # "unsent"
    BY <1>2, <1>5 DEF QueueInv, Delivered
<1> QED BY <1>1, <1>2, <1>6 DEF Ordered

\* The products of the other runs stay when one is written.
LEMMA OtherRunsStay ==
    ASSUME Permitted, order' = order, NEW run \in Runs, NEW n,
           \A k \in Keys : k # ProductKey(run, n) => catalog'[k] = catalog[k]
    PROVE  \A r \in Runs : order[r[1]] # NoOrder /\ r # run =>
               \A g \in 1..Len(Groups(r[1])) :
                   /\ Exists(ProductKey(r, g))' <=> Exists(ProductKey(r, g))
                   /\ Variants(r, g)' = Variants(r, g)
<1> SUFFICES ASSUME NEW r \in Runs, order[r[1]] # NoOrder, r # run,
                    NEW g \in 1..Len(Groups(r[1]))
             PROVE  catalog'[ProductKey(r, g)] = catalog[ProductKey(r, g)]
    BY DEF Exists, Variants, ProductKey
<1>1. ProductKey(r, g) \in Keys
    BY GroupsOfJob
<1>2. ProductKey(r, g) # ProductKey(run, n)
    BY KeysDiffer
<1> QED BY <1>1, <1>2

\* The next product: the run comes to the next group, of which it has no variants yet.
LEMMA CreateProductWrites ==
    ASSUME Permitted, QueueInv, Ordered, WriterInv,
           NEW w \in Workers, NEW run \in handling[w], CreateProduct(w, run),
           UNCHANGED <<queueVars, importVars>>
    PROVE  /\ WriterInv'
           /\ \E k \in Keys : /\ ~Exists(k) /\ catalog' = [catalog EXCEPT ![k] = NewProduct]
                              /\ Publish(w, "product", k)
<1>1. run \in Runs /\ run[1] \in Jobs /\ run[2] \in Deliveries /\ order[run[1]] # NoOrder /\ order' = order
    BY RunsAreOrdered DEF importVars
<1>2. PICK n \in Nat : Progress(run, n)
    BY <1>1 DEF WriterInv, Written
<1>3. Position(run) = n
    BY <1>1, <1>2, PositionIs
<1> DEFINE groups == Groups(run[1])
           L == Len(groups)
           k == ProductKey(run, n + 1)
<1>4. L \in Nat /\ n <= L
    BY <1>1, <1>2, GroupsOfJob DEF Progress
<1>5. GroupDone(run, n) /\ n # L
    BY <1>3 DEF CreateProduct, Finished
<1>6. n + 1 \in 1..L /\ ~(n + 1 <= n)
    BY <1>4, <1>5
<1>7. k \in Keys /\ ~Exists(k)
    <2>1. k \in Keys
        BY <1>1, <1>6, GroupsOfJob
    <2>2. Exists(ProductKey(run, n + 1)) <=> n + 1 <= n
        BY <1>2, <1>6 DEF Progress
    <2> QED BY <1>6, <2>1, <2>2
<1>8. catalog' = [catalog EXCEPT ![k] = NewProduct] /\ Publish(w, "product", k)
    BY <1>3 DEF CreateProduct
<1>9. NewProduct \in Products /\ NewProduct # Absent /\ NewProduct.variants = <<>>
    BY DEF NewProduct, Products, Absent
<1>10. \A i \in Keys : catalog'[i] = IF i = k THEN NewProduct ELSE catalog[i]
    BY <1>8 DEF WriterInv, CatalogTyped
<1>11. \A r \in Runs : order[r[1]] # NoOrder /\ r # run =>
               \A g \in 1..Len(Groups(r[1])) :
                   /\ Exists(ProductKey(r, g))' <=> Exists(ProductKey(r, g))
                   /\ Variants(r, g)' = Variants(r, g)
    <2>1. \A i \in Keys : i # k => catalog'[i] = catalog[i]
        BY <1>10
    <2> QED BY <1>1, <2>1, OtherRunsStay
<1> DEFINE R == {r \in Runs : order[r[1]] # NoOrder /\ r # run}
<1>12. \A r \in R : /\ \A m \in Nat : Progress(r, m) => Progress(r, m)'
                    /\ Complete(r) => Complete(r)'
    <2>1. R \in SUBSET Runs /\ \A r \in R : order[r[1]] # NoOrder
        OBVIOUS
    <2>2. \A r \in R : \A g \in 1..Len(Groups(r[1])) :
              /\ Exists(ProductKey(r, g))' <=> Exists(ProductKey(r, g))
              /\ Exists(ProductKey(r, g)) => Variants(r, g)' = Variants(r, g)
        BY <1>11
    <2> HIDE DEF R
    <2> QED BY <1>1, <2>1, <2>2, WorkIsKept
<1>13. Groups(run[1])' = groups
    BY <1>1 DEF Groups, RowsOf, GroupsOf
<1>14. \A g \in 1..n : g \in 1..L /\ g # n + 1 /\ ProductKey(run, g) \in Keys /\ ProductKey(run, g) # k
    <2>1. \A g \in 1..n : g \in 1..L /\ g # n + 1
        BY <1>2, <1>4
    <2>2. \A g \in 1..L : ProductKey(run, g) \in Keys
        BY <1>1, GroupsOfJob
    <2> QED BY <1>1, <2>1, <2>2, KeysDiffer
<1>15. \A g \in 1..n : Variants(run, g)' = Variants(run, g)
    BY <1>10, <1>14 DEF Variants, ProductKey
<1>16. Progress(run, n + 1)'
    <2>1. n + 1 \in 0..L
        BY <1>6
    <2>2. ASSUME NEW g \in 1..L PROVE Exists(ProductKey(run, g))' <=> g <= n + 1
        <3>1. CASE g = n + 1
            <4>1. Exists(k)'
                BY <1>7, <1>9, <1>10 DEF Exists
            <4>2. g <= n + 1
                BY <3>1
            <4> QED BY <3>1, <4>1, <4>2
        <3>2. CASE g # n + 1
            <4>1. ProductKey(run, g) \in Keys /\ ProductKey(run, g) # k
                BY <1>1, <3>2, GroupsOfJob, KeysDiffer
            <4>2. Exists(ProductKey(run, g))' <=> Exists(ProductKey(run, g))
                BY <1>10, <4>1 DEF Exists
            <4>3. Exists(ProductKey(run, g)) <=> g <= n
                BY <1>2 DEF Progress
            <4>4. g <= n <=> g <= n + 1
                BY <3>2
            <4> QED BY <4>2, <4>3, <4>4
        <3> QED BY <3>1, <3>2
    <2>3. Variants(run, n + 1)' = <<>>
        BY <1>7, <1>9, <1>10 DEF Variants
    <2>4. ASSUME NEW g \in 1..n+1
          PROVE  /\ Len(Variants(run, g)') <= Len(groups[g])
                 /\ \A x \in 1..Len(Variants(run, g)') : Variants(run, g)'[x] = groups[g][x]
        <3>1. CASE g = n + 1
            <4>1. Len(Variants(run, g)') = 0
                BY <2>3, <3>1
            <4>2. Len(groups[g]) \in Nat
                BY <1>1, <1>6, <3>1, GroupsOfJob
            <4> QED BY <4>1, <4>2
        <3>2. CASE g \in 1..n
            BY <1>2, <1>15, <3>2 DEF Progress
        <3> QED BY <3>1, <3>2
    <2>5. ASSUME NEW g \in 1..(n+1)-1 PROVE Variants(run, g)' = groups[g]
        <3>1. g \in 1..n /\ (g \in 1..n-1 \/ g = n)
            OBVIOUS
        <3>2. CASE g \in 1..n-1
            BY <1>2, <1>15, <3>1, <3>2 DEF Progress
        <3>3. CASE g = n
            <4>1. n > 0
                BY <3>1, <3>3
            <4>2. Variants(run, n) = groups[n]
                BY <1>5, <4>1 DEF GroupDone
            <4> QED BY <1>15, <3>1, <3>3, <4>2
        <3> QED BY <3>1, <3>2, <3>3
    <2> QED BY <1>13, <2>1, <2>2, <2>4, <2>5 DEF Progress
<1>17. ~Complete(run)
    BY <1>6, <1>7 DEF Complete
<1>18. CatalogTyped'
    BY <1>8, <1>9 DEF WriterInv, CatalogTyped
<1>19. Written'
    <2>1. ASSUME NEW r \in Runs, order[r[1]] # NoOrder
          PROVE  \E m \in Nat : Progress(r, m)'
        <3>1. CASE r = run
            BY <1>16, <3>1
        <3>2. CASE r # run
            <4>1. PICK m \in Nat : Progress(r, m)
                BY <2>1 DEF WriterInv, Written
            <4> QED BY <1>12, <2>1, <3>2, <4>1
        <3> QED BY <3>1, <3>2
    <2> QED BY <1>1, <2>1 DEF Written
<1>20. Owned'
    <2>1. ASSUME NEW i \in Keys, Exists(i)'
          PROVE  \E r \in Runs : /\ order[r[1]] # NoOrder
                                 /\ \E g \in 1..Len(Groups(r[1])) : i = ProductKey(r, g)
        <3>1. CASE i = k
            BY <1>1, <1>6, <3>1
        <3>2. CASE i # k
            <4>1. Exists(i)
                BY <1>10, <2>1, <3>2 DEF Exists
            <4> QED BY <4>1 DEF WriterInv, Owned
        <3> QED BY <3>1, <3>2
    <2>2. \A j : Groups(j)' = Groups(j)
        BY <1>1 DEF Groups, RowsOf, GroupsOf
    <2> QED BY <1>1, <2>1, <2>2 DEF Owned
<1>21. DoneIsComplete'
    <2>1. message' = message
        BY DEF queueVars
    <2>2. ASSUME NEW j \in Jobs, message[j].state = "acknowledged"
          PROVE  order[j] # NoOrder /\ \E d \in Deliveries : Complete(<<j, d>>)'
        <3>1. order[j] # NoOrder
            BY <2>2 DEF WriterInv, DoneIsComplete
        <3>2. PICK d \in Deliveries : Complete(<<j, d>>)
            BY <2>2 DEF WriterInv, DoneIsComplete
        <3>3. <<j, d>> \in Runs /\ <<j, d>>[1] = j
            BY DEF Runs
        <3>4. <<j, d>> \in R
            BY <1>17, <3>1, <3>2, <3>3
        <3> QED BY <1>12, <3>1, <3>2, <3>4
    <2> QED BY <1>1, <2>1, <2>2 DEF DoneIsComplete
<1> QED BY <1>7, <1>8, <1>18, <1>19, <1>20, <1>21 DEF WriterInv

\* The next variant of the group that the run has come to.
LEMMA CreateVariantWrites ==
    ASSUME Permitted, QueueInv, Ordered, WriterInv,
           NEW w \in Workers, NEW run \in handling[w], CreateVariant(w, run),
           UNCHANGED <<queueVars, importVars>>
    PROVE  /\ WriterInv'
           /\ \E k \in Keys :
                 /\ Exists(k) /\ Exists(k)'
                 /\ catalog'[k].edition = catalog[k].edition
                 /\ catalog'[k].variantEdition = catalog[k].variantEdition
                 /\ \A i \in Keys : i # k => catalog'[i] = catalog[i]
                 /\ Publish(w, "variant", k)
<1>1. run \in Runs /\ run[1] \in Jobs /\ run[2] \in Deliveries /\ order[run[1]] # NoOrder /\ order' = order
    BY RunsAreOrdered DEF importVars
<1>2. PICK n \in Nat : Progress(run, n)
    BY <1>1 DEF WriterInv, Written
<1>3. Position(run) = n
    BY <1>1, <1>2, PositionIs
<1> DEFINE groups == Groups(run[1])
           L == Len(groups)
           k == ProductKey(run, n)
           v == catalog[k].variants
           longer == Append(v, groups[n][Len(v) + 1])
<1>4. L \in Nat /\ n <= L
    BY <1>1, <1>2, GroupsOfJob DEF Progress
<1>5. n > 0 /\ v # groups[n]
    BY <1>3 DEF CreateVariant, GroupDone, Variants
<1>6. n \in 1..L
    BY <1>4, <1>5
<1>7. k \in Keys /\ Exists(k)
    <2>1. k \in Keys
        BY <1>1, <1>6, GroupsOfJob
    <2>2. n <= n
        OBVIOUS
    <2> QED BY <1>2, <1>6, <2>1, <2>2 DEF Progress
<1>8. catalog' = [catalog EXCEPT ![k].variants = longer] /\ Publish(w, "variant", k)
    BY <1>3 DEF CreateVariant
<1>9. catalog[k] \in Products /\ v \in Seq(Nat)
    BY <1>7 DEF WriterInv, CatalogTyped, Exists, Products
<1>10. groups[n] \in Seq(Nat) /\ Len(groups[n]) \in Nat
    BY <1>1, <1>6, GroupsOfJob
<1>11. Len(v) <= Len(groups[n]) /\ \A x \in 1..Len(v) : v[x] = groups[n][x]
    <2>1. n \in 1..n
        BY <1>5
    <2> QED BY <1>2, <2>1 DEF Progress, Variants
<1>12. Len(v) # Len(groups[n]) /\ Len(v) \in Nat
    <2> HIDE DEF v, groups
    <2>1. Len(v) \in Nat
        BY <1>9
    <2>2. SUFFICES ASSUME Len(v) = Len(groups[n]) PROVE FALSE
        BY <2>1
    <2>3. v = groups[n]
        BY <1>9, <1>10, <1>11, <2>2, SameSequence
    <2> QED BY <1>5, <2>3
<1> DEFINE e == groups[n][Len(v) + 1]
<1>13. e \in Nat
    <2>1. Len(v) + 1 \in 1..Len(groups[n])
        BY <1>10, <1>11, <1>12
    <2> QED BY <1>10, <2>1, ElementsAreOf
<1>14. /\ longer \in Seq(Nat) /\ Len(longer) = Len(v) + 1
       /\ \A x \in 1..Len(v) : longer[x] = v[x]
       /\ longer[Len(v) + 1] = e
    <2> HIDE DEF v, e
    <2> QED BY <1>9, <1>13, Appended DEF e
<1> HIDE DEF v, longer, e
<1> DEFINE p == [catalog[k] EXCEPT !.variants = longer]
<1>15. /\ p \in Products /\ p.variants = longer /\ p # Absent
       /\ p.edition = catalog[k].edition /\ p.variantEdition = catalog[k].variantEdition
    BY <1>9, <1>14 DEF Products, Absent
<1>16. catalog' = [catalog EXCEPT ![k] = p]
    BY <1>8
<1> HIDE DEF p
<1>17. \A i \in Keys : catalog'[i] = IF i = k THEN p ELSE catalog[i]
    BY <1>16 DEF WriterInv, CatalogTyped
<1>18. \A i \in Keys : i # k => catalog'[i] = catalog[i]
    BY <1>17
<1>19. Exists(k)' /\ \A i \in Keys : Exists(i)' <=> Exists(i)
    BY <1>7, <1>15, <1>17 DEF Exists
<1> DEFINE R == {r \in Runs : order[r[1]] # NoOrder /\ r # run}
<1>20. \A r \in R : /\ \A m \in Nat : Progress(r, m) => Progress(r, m)'
                    /\ Complete(r) => Complete(r)'
    <2>1. R \in SUBSET Runs /\ \A r \in R : order[r[1]] # NoOrder
        OBVIOUS
    <2>2. \A r \in R : \A g \in 1..Len(Groups(r[1])) :
              /\ Exists(ProductKey(r, g))' <=> Exists(ProductKey(r, g))
              /\ Exists(ProductKey(r, g)) => Variants(r, g)' = Variants(r, g)
        BY <1>1, <1>18, OtherRunsStay
    <2> HIDE DEF R
    <2> QED BY <1>1, <2>1, <2>2, WorkIsKept
<1>21. Groups(run[1])' = groups
    BY <1>1 DEF Groups, RowsOf, GroupsOf
<1>22. \A g \in 1..L : ProductKey(run, g) \in Keys /\ (g # n => ProductKey(run, g) # k)
    BY <1>1, GroupsOfJob, KeysDiffer
<1>23. \A g \in 1..L : g # n => Variants(run, g)' = Variants(run, g)
    BY <1>17, <1>22 DEF Variants, ProductKey
<1>24. Variants(run, n)' = longer
    BY <1>7, <1>15, <1>17 DEF Variants
<1>25. Progress(run, n)'
    <2>1. n \in 0..L
        BY <1>6
    <2>2. \A g \in 1..L : Exists(ProductKey(run, g))' <=> g <= n
        BY <1>2, <1>19, <1>22 DEF Progress
    <2>3. ASSUME NEW g \in 1..n
          PROVE  /\ Len(Variants(run, g)') <= Len(groups[g])
                 /\ \A x \in 1..Len(Variants(run, g)') : Variants(run, g)'[x] = groups[g][x]
        <3>1. CASE g = n
            <4>1. Variants(run, g)' = longer /\ Len(longer) <= Len(groups[g])
                BY <1>10, <1>11, <1>12, <1>14, <1>24, <3>1
            <4>2. ASSUME NEW x \in 1..Len(longer) PROVE longer[x] = groups[n][x]
                <5>1. x \in 1..Len(v) \/ x = Len(v) + 1
                    BY <1>12, <1>14
                <5> QED BY <1>11, <1>14, <5>1 DEF e
            <4> QED BY <3>1, <4>1, <4>2
        <3>2. CASE g # n
            <4>1. g \in 1..L
                BY <1>4
            <4>2. Variants(run, g)' = Variants(run, g)
                BY <1>23, <3>2, <4>1
            <4> QED BY <1>2, <4>2 DEF Progress
        <3> QED BY <3>1, <3>2
    <2>4. ASSUME NEW g \in 1..n-1 PROVE Variants(run, g)' = groups[g]
        <3>1. g \in 1..L /\ g # n
            BY <1>4
        <3>2. Variants(run, g) = groups[g]
            BY <1>2 DEF Progress
        <3> QED BY <1>23, <3>1, <3>2
    <2> QED BY <1>21, <2>1, <2>2, <2>3, <2>4 DEF Progress
<1>26. ~Complete(run)
    BY <1>5, <1>6 DEF Complete, Variants, v
<1>27. CatalogTyped'
    BY <1>15, <1>16 DEF WriterInv, CatalogTyped
<1>28. Written'
    <2>1. ASSUME NEW r \in Runs, order[r[1]] # NoOrder
          PROVE  \E m \in Nat : Progress(r, m)'
        <3>1. CASE r = run
            BY <1>25, <3>1
        <3>2. CASE r # run
            <4>1. PICK m \in Nat : Progress(r, m)
                BY <2>1 DEF WriterInv, Written
            <4> QED BY <1>20, <2>1, <3>2, <4>1
        <3> QED BY <3>1, <3>2
    <2> QED BY <1>1, <2>1 DEF Written
<1>29. Owned'
    <2>1. \A j : Groups(j)' = Groups(j)
        BY <1>1 DEF Groups, RowsOf, GroupsOf
    <2> QED BY <1>1, <1>19, <2>1 DEF WriterInv, Owned
<1>30. DoneIsComplete'
    <2>1. message' = message
        BY DEF queueVars
    <2>2. ASSUME NEW j \in Jobs, message[j].state = "acknowledged"
          PROVE  order[j] # NoOrder /\ \E d \in Deliveries : Complete(<<j, d>>)'
        <3>1. order[j] # NoOrder
            BY <2>2 DEF WriterInv, DoneIsComplete
        <3>2. PICK d \in Deliveries : Complete(<<j, d>>)
            BY <2>2 DEF WriterInv, DoneIsComplete
        <3>3. <<j, d>> \in Runs /\ <<j, d>>[1] = j
            BY DEF Runs
        <3>4. <<j, d>> \in R
            BY <1>26, <3>1, <3>2, <3>3
        <3> QED BY <1>20, <3>1, <3>2, <3>4
    <2> QED BY <1>1, <2>1, <2>2 DEF DoneIsComplete
<1>31. WriterInv'
    BY <1>27, <1>28, <1>29, <1>30 DEF WriterInv
<1>32. catalog'[k] = p
    BY <1>7, <1>17
<1> QED BY <1>7, <1>8, <1>15, <1>18, <1>19, <1>31, <1>32

\* Steps that write no variants and queue no job.
LEMMA WriterRests ==
    ASSUME Permitted, WriterInv, CatalogTyped', order' = order,
           \A k \in Keys : Exists(k)' <=> Exists(k),
           \A k \in Keys : Exists(k) => catalog'[k].variants = catalog[k].variants,
           \A j \in Jobs : message'[j].state = "acknowledged" =>
               \/ message[j].state = "acknowledged"
               \/ order[j] # NoOrder /\ \E d \in Deliveries : Complete(<<j, d>>)
    PROVE  WriterInv'
<1> DEFINE R == {r \in Runs : order[r[1]] # NoOrder}
<1>1. \A r \in R : /\ \A m \in Nat : Progress(r, m) => Progress(r, m)'
                   /\ Complete(r) => Complete(r)'
    <2>1. R \in SUBSET Runs /\ \A r \in R : order[r[1]] # NoOrder
        OBVIOUS
    <2>2. ASSUME NEW r \in R, NEW g \in 1..Len(Groups(r[1]))
          PROVE  /\ Exists(ProductKey(r, g))' <=> Exists(ProductKey(r, g))
                 /\ Exists(ProductKey(r, g)) => Variants(r, g)' = Variants(r, g)
        <3>1. ProductKey(r, g) \in Keys
            BY <2>1, GroupsOfJob
        <3>2. Variants(r, g)' = catalog'[ProductKey(r, g)].variants
            BY DEF Variants, ProductKey
        <3> QED BY <3>1, <3>2 DEF Variants
    <2> HIDE DEF R
    <2> QED BY <2>1, <2>2, WorkIsKept
<1>2. Written'
    <2>1. ASSUME NEW r \in Runs, order[r[1]] # NoOrder
          PROVE  \E m \in Nat : Progress(r, m)'
        <3>1. PICK m \in Nat : Progress(r, m)
            BY <2>1 DEF WriterInv, Written
        <3> QED BY <1>1, <2>1, <3>1
    <2> QED BY <2>1 DEF Written
<1>3. Owned'
    <2>1. \A j : Groups(j)' = Groups(j)
        BY DEF Groups, RowsOf, GroupsOf
    <2> QED BY <2>1 DEF WriterInv, Owned
<1>4. DoneIsComplete'
    <2>1. ASSUME NEW j \in Jobs, message'[j].state = "acknowledged"
          PROVE  order[j] # NoOrder /\ \E d \in Deliveries : Complete(<<j, d>>)'
        <3>1. order[j] # NoOrder /\ \E d \in Deliveries : Complete(<<j, d>>)
            BY <2>1 DEF WriterInv, DoneIsComplete
        <3>2. PICK d \in Deliveries : Complete(<<j, d>>)
            BY <3>1
        <3>3. <<j, d>> \in Runs /\ <<j, d>>[1] = j
            BY DEF Runs
        <3>4. <<j, d>> \in R
            BY <3>1, <3>3
        <3> QED BY <1>1, <3>1, <3>2, <3>4
    <2> QED BY <2>1 DEF DoneIsComplete
<1> QED BY <1>2, <1>3, <1>4 DEF WriterInv

\* A run that has ended without failure has written every group.
LEMMA FinishedIsComplete ==
    ASSUME Permitted, WriterInv, NEW run \in Runs, order[run[1]] # NoOrder, Finished(run)
    PROVE  Complete(run)
<1>1. PICK n \in Nat : Progress(run, n)
    BY DEF WriterInv, Written
<1>2. Position(run) = n
    BY <1>1, PositionIs
<1>3. n = Len(Groups(run[1])) /\ GroupDone(run, n)
    BY <1>2 DEF Finished
<1>4. ASSUME NEW g \in 1..Len(Groups(run[1]))
      PROVE  Exists(ProductKey(run, g)) /\ Variants(run, g) = Groups(run[1])[g]
    <2>1. g <= n /\ (g \in 1..n-1 \/ g = n) /\ n > 0
        BY <1>3
    <2>2. Exists(ProductKey(run, g))
        BY <1>1, <2>1 DEF Progress
    <2>3. CASE g \in 1..n-1
        BY <1>1, <2>2, <2>3 DEF Progress
    <2>4. CASE g = n
        BY <1>3, <2>1, <2>2, <2>4 DEF GroupDone
    <2> QED BY <2>1, <2>3, <2>4
<1> QED BY <1>4 DEF Complete

\* What the administrator changes of the products.
LEMMA AdministratorEdits ==
    ASSUME CatalogTyped, Watched \subseteq Keys, Administrator
    PROVE  /\ CatalogTyped'
           /\ \A k \in Keys : Exists(k)' <=> Exists(k)
           /\ \A k \in Keys : Exists(k) => catalog'[k].variants = catalog[k].variants
<1>1. CASE UpdateTaxRate
    BY <1>1 DEF UpdateTaxRate, CatalogTyped, Exists
<1>2. ASSUME NEW k \in Watched, UpdateProduct(k) \/ UpdateVariant(k)
      PROVE  /\ CatalogTyped'
             /\ \A i \in Keys : Exists(i)' <=> Exists(i)
             /\ \A i \in Keys : Exists(i) => catalog'[i].variants = catalog[i].variants
    <2> DEFINE p == [catalog[k] EXCEPT !.edition = @ + 1]
               q == [catalog[k] EXCEPT !.variantEdition = @ + 1]
    <2>1. /\ Exists(k) /\ k \in Keys
          /\ catalog' = [catalog EXCEPT ![k] = p] \/ catalog' = [catalog EXCEPT ![k] = q]
        BY <1>2 DEF UpdateProduct, UpdateVariant
    <2>2. catalog[k] \in Products
        BY <2>1 DEF CatalogTyped, Exists
    <2>3. p \in Products /\ p.variants = catalog[k].variants /\ p # Absent
        BY <2>2, SMTT(60) DEF Products, Absent
    <2>4. q \in Products /\ q.variants = catalog[k].variants /\ q # Absent
        BY <2>2 DEF Products, Absent
    <2> HIDE DEF p, q
    <2>5. PICK x \in {p, q} : catalog' = [catalog EXCEPT ![k] = x]
        BY <2>1
    <2>6. x \in Products /\ x.variants = catalog[k].variants /\ x # Absent
        BY <2>3, <2>4
    <2>7. \A i \in Keys : catalog'[i] = IF i = k THEN x ELSE catalog[i]
        BY <2>5 DEF CatalogTyped
    <2>8. CatalogTyped'
        BY <2>5, <2>6 DEF CatalogTyped
    <2> QED BY <2>1, <2>6, <2>7, <2>8 DEF Exists
<1> QED BY <1>1, <1>2 DEF Administrator

\* The identities of the products that the jobs may write are the shop's.
KeysReserved ==
    \A run \in Runs : order[run[1]] # NoOrder =>
        /\ Len(Groups(run[1])) \in Nat
        /\ \A g \in 1..Len(Groups(run[1])) : ProductKey(run, g) \in Keys

\* They are reserved for every order that is permitted.
LEMMA KeysAreReserved == Permitted => KeysReserved
BY GroupsOfJob DEF KeysReserved

\* Every step keeps the writer's work.
LEMMA WriterInvStep ==
    ASSUME Permitted, OrdersTyped, QueueInv, Ordered, WriterInv, [Next]_vars
    PROVE  WriterInv'
<1>0. QueueType
    BY DEF QueueInv
<1>1. ASSUME catalog' = catalog, order' = order,
             \A j \in Jobs : message'[j].state = "acknowledged" =>
                 \/ message[j].state = "acknowledged"
                 \/ order[j] # NoOrder /\ \E d \in Deliveries : Complete(<<j, d>>)
      PROVE  WriterInv'
    <2>1. CatalogTyped' /\ \A k \in Keys : Exists(k)' <=> Exists(k)
        BY <1>1 DEF WriterInv, CatalogTyped, Exists
    <2> QED BY <1>1, <2>1, WriterRests
<1>2. ASSUME NEW r \in Requests, NEW j \in Jobs, Queue(r, j), catalog' = catalog
      PROVE  WriterInv'
    <2> DEFINE o == [upload |-> request[r].upload, skip |-> request[r].skip]
               m == [message[j] EXCEPT !.state = "waiting"]
               R == {i \in Runs : order[i[1]] # NoOrder}
    <2>1. /\ order[j] = NoOrder /\ order' = [order EXCEPT ![j] = o]
          /\ message' = [message EXCEPT ![j] = m]
        BY <1>2 DEF Queue, Add
    <2>2. m.state = "waiting"
        BY <1>0 DEF QueueType
    <2> HIDE DEF o, m
    <2>3. \A i \in Jobs : i # j => order'[i] = order[i] /\ message'[i] = message[i]
        BY <1>0, <2>1 DEF QueueType, OrdersTyped
    <2>4. message'[j].state # "acknowledged"
        BY <1>0, <2>1, <2>2 DEF QueueType
    <2>5. \A i \in Jobs : i # j => Groups(i)' = Groups(i)
        BY <2>3 DEF Groups, RowsOf, GroupsOf
    <2>6. \A i \in Runs : i[1] \in Jobs
        BY DEF Runs
    <2>7. \A i \in Runs : order[i[1]] # NoOrder => i[1] # j
        BY <2>1
    <2>8. CatalogTyped'
        BY <1>2 DEF WriterInv, CatalogTyped
    <2>9. \A k \in Keys : Exists(k)' <=> Exists(k)
        BY <1>2 DEF Exists
    <2>10. ASSUME NEW i \in Runs, order'[i[1]] # NoOrder
           PROVE  \E n \in Nat : Progress(i, n)'
        <3>1. CASE i[1] = j
            <4>1. \A g : ProductKey(i, g) \in Keys => ~Exists(ProductKey(i, g))
                <5>1. SUFFICES ASSUME NEW g, ProductKey(i, g) \in Keys, Exists(ProductKey(i, g))
                               PROVE  FALSE
                    OBVIOUS
                <5>2. PICK q \in Runs : /\ order[q[1]] # NoOrder
                                        /\ \E h \in 1..Len(Groups(q[1])) : ProductKey(i, g) = ProductKey(q, h)
                    BY <5>1 DEF WriterInv, Owned
                <5>3. i = q
                    BY <5>2, KeysDiffer
                <5> QED BY <2>7, <3>1, <5>2, <5>3
            <4>2. Permitted'
                BY OrdersStep
            <4>3. /\ Len(Groups(i[1])') \in Nat
                  /\ \A g \in 1..Len(Groups(i[1])') : ProductKey(i, g) \in Keys
                <5>1. (Permitted => KeysReserved)'
                    BY KeysAreReserved, PTL
                <5> QED BY <2>10, <4>2, <5>1 DEF KeysReserved, ProductKey
            <4>4. \A g \in 1..Len(Groups(i[1])') : ~Exists(ProductKey(i, g))' /\ ~(g <= 0)
                BY <2>9, <4>1, <4>3
            <4>5. Progress(i, 0)'
                BY <4>3, <4>4 DEF Progress
            <4> QED BY <4>5
        <3>2. CASE i[1] # j
            <4>1. Groups(i[1])' = Groups(i[1]) /\ order[i[1]] # NoOrder
                BY <2>3, <2>5, <2>6, <2>10, <3>2
            <4>2. PICK n \in Nat : Progress(i, n)
                BY <4>1 DEF WriterInv, Written
            <4>3. Progress(i, n)'
                BY <1>2, <4>1, <4>2 DEF Progress, Exists, Variants, ProductKey
            <4> QED BY <4>3
        <3> QED BY <3>1, <3>2
    <2>11. ASSUME NEW k \in Keys, Exists(k)
           PROVE  \E i \in Runs : /\ order'[i[1]] # NoOrder
                                  /\ \E g \in 1..Len(Groups(i[1])') : k = ProductKey(i, g)
        <3>1. PICK i \in Runs : /\ order[i[1]] # NoOrder
                                /\ \E g \in 1..Len(Groups(i[1])) : k = ProductKey(i, g)
            BY <2>11 DEF WriterInv, Owned
        <3>2. i[1] # j /\ i[1] \in Jobs
            BY <2>6, <2>7, <3>1
        <3>3. order'[i[1]] = order[i[1]] /\ Groups(i[1])' = Groups(i[1])
            BY <2>3, <2>5, <3>2
        <3> QED BY <3>1, <3>3
    <2>12. ASSUME NEW i \in Jobs, message'[i].state = "acknowledged"
           PROVE  order'[i] # NoOrder /\ \E d \in Deliveries : Complete(<<i, d>>)'
        <3>1. i # j
            BY <2>4, <2>12
        <3>2. order[i] # NoOrder /\ \E d \in Deliveries : Complete(<<i, d>>)
            BY <2>3, <2>12, <3>1 DEF WriterInv, DoneIsComplete
        <3>3. PICK d \in Deliveries : Complete(<<i, d>>)
            BY <3>2
        <3>4. Groups(i)' = Groups(i) /\ order'[i] # NoOrder
            BY <2>3, <2>5, <3>1, <3>2
        <3>5. Complete(<<i, d>>)'
            BY <1>2, <3>3, <3>4 DEF Complete, Exists, Variants, ProductKey
        <3> QED BY <3>4, <3>5
    <2>13. Written' /\ Owned' /\ DoneIsComplete'
        BY <2>9, <2>10, <2>11, <2>12 DEF Written, Owned, DoneIsComplete, ProductKey
    <2> QED BY <2>8, <2>13 DEF WriterInv
<1>3. ASSUME ServerStep PROVE WriterInv'
    <2>1. catalog' = catalog
        BY <1>3 DEF ServerStep, catalogVars
    <2>2. CASE \E r \in Requests, j \in Jobs : Queue(r, j)
        BY <1>2, <2>1, <2>2
    <2>3. CASE (\E u \in Uploads : Validate(u)) \/ (\E r \in Requests : Answer(r) \/ CommitFails(r))
               \/ \E r \in Requests, u \in Uploads, skip \in BOOLEAN : Commit(r, u, skip)
        <3>1. message' = message /\ order' = order
            BY <2>3 DEF Validate, Answer, CommitFails, Commit, queueVars
        <3> QED BY <1>1, <2>1, <3>1
    <2> QED BY <1>3, <2>2, <2>3 DEF ServerStep
<1>4. ASSUME QueueStep PROVE WriterInv'
    <2>1. catalog' = catalog /\ order' = order
        BY <1>4 DEF QueueStep, catalogVars, importVars
    <2>2. \A j \in Jobs : message'[j].state = "acknowledged" => message[j].state = "acknowledged"
        <3>1. CASE \E w \in Workers : Start(w) \/ Initialize(w) \/ Stop(w)
            BY <3>1 DEF Start, Initialize, Stop
        <3>2. ASSUME NEW w \in Workers, NEW i \in Jobs, Receive(w, i)
              PROVE  \A j \in Jobs : message'[j].state = "acknowledged" => message[j].state = "acknowledged"
            BY <1>0, <3>2 DEF Receive, QueueType
        <3>3. ASSUME NEW i \in Jobs, LeaseExpires(i)
              PROVE  \A j \in Jobs : message'[j].state = "acknowledged" => message[j].state = "acknowledged"
            BY <1>0, <3>3 DEF LeaseExpires, QueueType
        <3> QED BY <1>4, <3>1, <3>2, <3>3 DEF QueueStep
    <2> QED BY <1>1, <2>1, <2>2
<1>5. ASSUME WriteStep PROVE WriterInv'
    <2>1. PICK w \in Workers : \E run \in handling[w] : CreateProduct(w, run) \/ CreateVariant(w, run)
        BY <1>5 DEF WriteStep
    <2>2. PICK run \in handling[w] : CreateProduct(w, run) \/ CreateVariant(w, run)
        BY <2>1
    <2>3. UNCHANGED <<queueVars, importVars>>
        BY <1>5 DEF WriteStep
    <2> QED BY <2>2, <2>3, CreateProductWrites, CreateVariantWrites
<1>6. ASSUME NEW w \in Workers, NEW run \in handling[w], JobDone(w, run), catalog' = catalog, order' = order
      PROVE  WriterInv'
    <2>1. run \in Runs /\ run[1] \in Jobs /\ run[2] \in Deliveries /\ run = <<run[1], run[2]>>
          /\ order[run[1]] # NoOrder
        BY RunsAreOrdered
    <2>2. Complete(<<run[1], run[2]>>)
        BY <1>6, <2>1, FinishedIsComplete DEF JobDone
    <2>3. \A j \in Jobs : j # run[1] => message'[j] = message[j]
        BY <1>0, <1>6 DEF JobDone, Acknowledge, QueueType
    <2> QED BY <1>1, <1>6, <2>1, <2>2, <2>3
<1>7. ASSUME NEW runs \in SUBSET Runs, message' = Returned(runs)
      PROVE  \A j \in Jobs : message'[j].state = "acknowledged" => message[j].state = "acknowledged"
    BY <1>0, <1>7, ReturnedMessages
<1>8. ASSUME EndStep PROVE WriterInv'
    <2>1. catalog' = catalog /\ order' = order
        BY <1>8 DEF EndStep, catalogVars, importVars
    <2>2. ASSUME NEW w \in Workers, NEW run \in handling[w], JobFails(w, run)
          PROVE  WriterInv'
        <3>1. message' = Returned({run}) /\ {run} \in SUBSET Runs
            BY <1>0, <2>2 DEF JobFails, Refuse, QueueType
        <3> QED BY <1>1, <1>7, <2>1, <3>1
    <2> QED BY <1>6, <1>8, <2>1, <2>2 DEF EndStep
<1>9. ASSUME NEW w \in Workers, WorkerExit(w) PROVE WriterInv'
    <2>1. message' = Returned(handling[w]) /\ catalog' = catalog /\ order' = order
        BY <1>9 DEF WorkerExit, Exit, BufferLost, importVars
    <2>2. handling[w] \in SUBSET Runs
        BY <1>0 DEF QueueType
    <2> QED BY <1>1, <1>7, <2>1, <2>2
<1>10. ASSUME ShopStep PROVE WriterInv'
    <2>1. message' = message /\ order' = order
        BY <1>10 DEF ShopStep, queueVars, importVars
    <2>2. CASE Administrator
        BY <2>1, <2>2, AdministratorEdits, WriterRests, CatalogAssumption DEF WriterInv
    <2>3. CASE Shopper \/ Stellate
        <3>1. catalog' = catalog
            BY <2>3 DEF Shopper, Stellate, ShopQuery, Fill, Flush, Purged, catalogVars
        <3> QED BY <1>1, <2>1, <3>1
    <2> QED BY <1>10, <2>2, <2>3 DEF ShopStep
<1>11. ASSUME UNCHANGED vars \/ PurgeLost PROVE WriterInv'
    <2>1. message' = message /\ order' = order /\ catalog' = catalog
        BY <1>11 DEF vars, PurgeLost, PurgeFails, queueVars, importVars, catalogVars
    <2> QED BY <1>1, <2>1
<1> QED BY <1>3, <1>4, <1>5, <1>8, <1>9, <1>10, <1>11, StepsAre

\* What the runs have written makes the two properties of the import true.
LEMMA WrittenIsRight ==
    ASSUME Permitted, QueueType, WriterInv
    PROVE  VariantsOfTheirProduct /\ DoneMeansImported
<1>1. ASSUME NEW k \in Keys, Exists(k)
      PROVE  LET u == order[k[1]].upload
                 rows == Range(catalog[k].variants)
             IN  /\ rows \cap Invalid(u) = {}
                 /\ \A i, n \in rows : NamingRow(u, i) = NamingRow(u, n)
    <2>1. PICK run \in Runs : /\ order[run[1]] # NoOrder
                              /\ \E g \in 1..Len(Groups(run[1])) : k = ProductKey(run, g)
        BY <1>1 DEF WriterInv, Owned
    <2>2. PICK g \in 1..Len(Groups(run[1])) : k = ProductKey(run, g)
        BY <2>1
    <2>3. PICK n \in Nat : Progress(run, n)
        BY <2>1 DEF WriterInv, Written
    <2> DEFINE u == order[run[1]].upload
               skip == order[run[1]].skip
               groups == GroupsOf[u][skip]
               v == catalog[k].variants
    <2>4. run[1] \in Jobs /\ k[1] = run[1]
        BY <2>2 DEF Runs, ProductKey
    <2>5. Permits(u, skip) /\ Groups(run[1]) = groups
        BY <2>1, <2>4 DEF Permitted, Groups
    <2>6. g \in 1..n
        BY <1>1, <2>2, <2>3 DEF Progress
    <2>7. Len(v) <= Len(groups[g]) /\ \A x \in 1..Len(v) : v[x] = groups[g][x]
        BY <2>2, <2>3, <2>5, <2>6 DEF Progress, Variants
    <2>8. v \in Seq(Nat) /\ DOMAIN v = 1..Len(v) /\ Len(v) \in Nat
        BY <1>1 DEF WriterInv, CatalogTyped, Exists, Products
    <2>9. Len(groups[g]) \in Nat
        BY <2>1, <2>2, <2>5, GroupsOfJob
    <2> HIDE DEF u, skip, groups, v
    <2>10. \A i \in Range(v) : \E x \in 1..Len(groups[g]) : groups[g][x] = i
        <3>1. SUFFICES ASSUME NEW i \in Range(v)
                       PROVE  \E x \in 1..Len(groups[g]) : groups[g][x] = i
            OBVIOUS
        <3>2. PICK x \in 1..Len(v) : v[x] = i
            BY <2>8, <3>1 DEF Range
        <3>3. x \in 1..Len(groups[g])
            BY <2>7, <2>8, <2>9
        <3> QED BY <2>7, <3>2, <3>3
    <2>11. /\ \A x \in 1..Len(groups[g]) : groups[g][x] \notin Invalid(u)
           /\ \A x, y \in 1..Len(groups[g]) :
                  NamingRow(u, groups[g][x]) = NamingRow(u, groups[g][y])
        <3>1. OfProducts(u, RowsOf[u][skip], groups) /\ g \in 1..Len(groups)
            BY <2>2, <2>5, GroupsArePermitted DEF groups
        <3> QED BY <3>1 DEF OfProducts
    <2>12. Range(v) \cap Invalid(u) = {}
        BY <2>10, <2>11
    <2>13. ASSUME NEW i \in Range(v), NEW m \in Range(v)
           PROVE  NamingRow(u, i) = NamingRow(u, m)
        <3>1. PICK x \in 1..Len(groups[g]) : groups[g][x] = i
            BY <2>10
        <3>2. PICK y \in 1..Len(groups[g]) : groups[g][y] = m
            BY <2>10
        <3> QED BY <2>11, <2>13, <3>1, <3>2
    <2> QED BY <2>4, <2>12, <2>13 DEF u, v
<1>2. ASSUME NEW j \in Jobs, message[j].state = "acknowledged"
      PROVE  Imported(j)
    <2>1. order[j] # NoOrder
        BY <1>2 DEF WriterInv, DoneIsComplete
    <2>2. PICK d \in Deliveries : Complete(<<j, d>>)
        BY <1>2 DEF WriterInv, DoneIsComplete
    <2> DEFINE u == order[j].upload
               skip == order[j].skip
               groups == GroupsOf[u][skip]
               rows == RowsOf[u][skip]
    <2>3. <<j, d>> \in Runs /\ <<j, d>>[1] = j /\ <<j, d>>[2] = d
        BY DEF Runs
    <2>4. Permits(u, skip) /\ Groups(j) = groups /\ Rows(j) = rows
        BY <2>1 DEF Permitted, Groups, Rows
    <2> HIDE DEF u, skip, groups, rows
    <2>5. ASSUME NEW i \in Range(rows)
          PROVE  \E k \in Keys : k[1] = j /\ k[2] = d /\ Exists(k) /\ i \in Range(catalog[k].variants)
        <3>1. PICK g \in 1..Len(groups) : \E x \in 1..Len(groups[g]) : groups[g][x] = i
            <4>1. OfProducts(u, rows, groups)
                BY <2>4, GroupsArePermitted DEF groups, rows
            <4> QED BY <4>1, <2>5 DEF OfProducts
        <3> DEFINE k == ProductKey(<<j, d>>, g)
        <3>2. k \in Keys /\ groups[g] \in Seq(Nat)
            BY <2>1, <2>3, <2>4, GroupsOfJob
        <3>3. Exists(k) /\ catalog[k].variants = groups[g]
            BY <2>2, <2>3, <2>4 DEF Complete, Variants
        <3>4. k[1] = j /\ k[2] = d
            BY DEF ProductKey
        <3> HIDE DEF k
        <3>5. DOMAIN groups[g] = 1..Len(groups[g])
            BY <3>2
        <3>6. i \in Range(groups[g])
            BY <3>1, <3>5 DEF Range
        <3> QED BY <3>2, <3>3, <3>4, <3>6
    <2> QED BY <2>4, <2>5 DEF Imported
<1> QED BY <1>1, <1>2 DEF VariantsOfTheirProduct, DoneMeansImported

-----------------------------------------------------------------------------
(* The CDN: what it shows that is no longer true is about to be purged. *)

\* The buffers and the CDN.
SeenTyped ==
    /\ events \in [Processes -> SUBSET Events]
    /\ edits \in 0..MaxEdits
    /\ StellateType

\* Only existing products are shown.  A stale answer under way to the CDN is awaited by an
\* event that has not been handed over yet, since that takes longer than an answer; a stale
\* answer kept there may also have its purge under way.
StaleInv ==
    /\ cached # Nothing \/ filling # Nothing => Exists(entry[2])
    /\ filling # Nothing /\ filling # Current => Awaited(Processes) \/ dropped
    /\ StaleMeansPending

\* The event has the entry purged.
Purges(e) == entry[1] \in Rule(e[1]) /\ entry[2] \in KeysOf({e})

\* What Awaited says, event by event.
AwaitedMeans == \A ps : Awaited(ps) <=> \E p \in ps : \E e \in events[p] : Purges(e)

\* The requests of a rule that concern the entry.
LEMMA RequestsAre ==
    ASSUME NEW kind, NEW keys
    PROVE  PurgeRequests(kind, keys) # {} <=> entry[1] \in Rule(kind) /\ entry[2] \in keys
<1>1. ASSUME entry[1] \in Rule(kind), entry[2] \in keys
      PROVE  PurgeRequests(kind, keys) # {}
    <2>1. [type |-> entry[1], keys |-> keys] \in PurgeRequests(kind, keys)
        BY <1>1 DEF PurgeRequests
    <2> QED BY <2>1
<1>2. ASSUME PurgeRequests(kind, keys) # {}
      PROVE  entry[1] \in Rule(kind) /\ entry[2] \in keys
    <2>1. PICK r \in PurgeRequests(kind, keys) : TRUE
        BY <1>2
    <2>2. r \in [type : Rule(kind), keys : {keys}] /\ r.type = entry[1] /\ entry[2] \in r.keys
        BY <2>1 DEF PurgeRequests
    <2> QED BY <2>2
<1> QED BY <1>1, <1>2

\* An event is awaited when it has the entry purged.
LEMMA AwaitedIs == AwaitedMeans
<1>1. ASSUME NEW e
      PROVE  PurgeRequests(e[1], KeysOf({e})) # {} <=> Purges(e)
    BY RequestsAre DEF Purges
<1> QED BY <1>1 DEF AwaitedMeans, Awaited

\* What an event of the followed product, or of the tax rate, has purged.
LEMMA EventsPurge ==
    ASSUME StellateType, NEW kind \in {"product", "variant"}
    PROVE  /\ <<kind, entry[2]>> \in Events
           /\ entry[1] \in Rule(kind) => Purges(<<kind, entry[2]>>)
           /\ <<"taxRate", NoKey>> \in Events /\ Purges(<<"taxRate", NoKey>>)
<1>1. entry[1] \in CachedTypes /\ entry[2] \in Watched
    BY DEF StellateType
<1>2. <<kind, entry[2]>> \in Events /\ <<"taxRate", NoKey>> \in Events
    BY <1>1 DEF Events
<1>3. entry[2] \in KeysOf({<<kind, entry[2]>>})
    BY <1>1 DEF KeysOf
<1>4. entry[2] \in KeysOf({<<"taxRate", NoKey>>})
    BY <1>1 DEF KeysOf
<1>5. Rule("taxRate") = CachedTypes
    BY DEF Rule
<1> QED BY <1>1, <1>2, <1>3, <1>4, <1>5 DEF Purges

\* Publishing adds an event to the buffers of a process.
LEMMA PublishAdds ==
    ASSUME events \in [Processes -> SUBSET Events], NEW p \in Processes, NEW kind, NEW k,
           Publish(p, kind, k)
    PROVE  /\ events' \in [Processes -> SUBSET Events]
           /\ \A q \in Processes : events[q] \subseteq events'[q]
           /\ <<kind, k>> \in Events => <<kind, k>> \in events'[p]
<1> DEFINE new == {<<kind, k>>} \cap Events
<1>1. events' = [events EXCEPT ![p] = @ \cup new] /\ new \in SUBSET Events
    BY DEF Publish
<1>2. <<kind, k>> \in Events => <<kind, k>> \in new
    OBVIOUS
<1> HIDE DEF new
<1> QED BY <1>1, <1>2

\* A change of the catalog that is published if it changes what the entry shows.
LEMMA PublishedIsPending ==
    ASSUME SeenTyped, StaleInv, UNCHANGED stellateVars,
           \A p \in Processes : events[p] \subseteq events'[p],
           Exists(entry[2]) => Exists(entry[2])',
           Exists(entry[2]) => \/ Current' = Current
                               \/ \E p \in Processes : \E e \in events'[p] : Purges(e)
    PROVE  StaleInv'
<1>1. /\ entry' = entry /\ cached' = cached /\ filling' = filling
      /\ purging' = purging /\ dropped' = dropped
    BY DEF stellateVars
<1>2. AwaitedMeans /\ AwaitedMeans'
    BY AwaitedIs, PTL
<1>3. \A e : Purges(e)' <=> Purges(e)
    BY <1>1 DEF Purges, Rule, KeysOf
<1>4. Awaited(Processes) => Awaited(Processes)'
    BY <1>2, <1>3 DEF AwaitedMeans
<1>5. Exists(entry[2]) => Current' = Current \/ Awaited(Processes)'
    BY <1>2, <1>3 DEF AwaitedMeans
<1> QED BY <1>1, <1>4, <1>5 DEF StaleInv, StaleMeansPending, Exists

\* Where neither the catalog nor the entry changes.
LEMMA SeenRests ==
    ASSUME SeenTyped, StaleInv, UNCHANGED <<catalogVars, stellateVars>>
    PROVE  SeenTyped' /\ StaleInv'
BY DEF SeenTyped, StaleInv, StaleMeansPending, StellateType, Awaited, PurgeRequests, Exists,
       Current, Shown, catalogVars, stellateVars

\* What the writer writes next is published if it is seen.
LEMMA WriteIsSeen ==
    ASSUME Permitted, QueueInv, Ordered, WriterInv, SeenTyped, WriteStep
    PROVE  SeenTyped' /\ (StaleInv => StaleInv')
<1>1. UNCHANGED stellateVars /\ UNCHANGED <<queueVars, importVars>> /\ entry' = entry
    BY DEF WriteStep, stellateVars
<1>2. PICK w \in Workers : \E run \in handling[w] : CreateProduct(w, run) \/ CreateVariant(w, run)
    BY DEF WriteStep
<1>3. PICK run \in handling[w] : CreateProduct(w, run) \/ CreateVariant(w, run)
    BY <1>2
<1>4. w \in Processes /\ edits' = edits /\ rate' = rate
    BY <1>3, ImportAssumption DEF CreateProduct, CreateVariant
<1>5. ASSUME events' \in [Processes -> SUBSET Events]
      PROVE  SeenTyped'
    BY <1>1, <1>4, <1>5 DEF SeenTyped, StellateType, stellateVars
<1>6. entry[2] \in Keys /\ entry[2] \in Watched
    BY CatalogAssumption DEF SeenTyped, StellateType
<1>7. CASE CreateProduct(w, run)
    <2>1. PICK k \in Keys : /\ ~Exists(k) /\ catalog' = [catalog EXCEPT ![k] = NewProduct]
                            /\ Publish(w, "product", k)
        BY <1>1, <1>7, CreateProductWrites
    <2>2. events' \in [Processes -> SUBSET Events] /\ \A q \in Processes : events[q] \subseteq events'[q]
        BY <1>4, <2>1, PublishAdds DEF SeenTyped
    <2>3. Exists(entry[2]) => catalog'[entry[2]] = catalog[entry[2]]
        BY <1>6, <2>1 DEF WriterInv, CatalogTyped
    <2>4. Exists(entry[2]) => Exists(entry[2])' /\ Current' = Current
        BY <1>1, <1>4, <2>3 DEF Exists, Current, Shown
    <2> QED BY <1>1, <1>5, <2>2, <2>4, PublishedIsPending
<1>8. CASE CreateVariant(w, run)
    <2>1. PICK k \in Keys :
              /\ Exists(k) /\ Exists(k)'
              /\ catalog'[k].edition = catalog[k].edition
              /\ catalog'[k].variantEdition = catalog[k].variantEdition
              /\ \A i \in Keys : i # k => catalog'[i] = catalog[i]
              /\ Publish(w, "variant", k)
        BY <1>1, <1>8, CreateVariantWrites
    <2>2. /\ events' \in [Processes -> SUBSET Events] /\ \A q \in Processes : events[q] \subseteq events'[q]
          /\ <<"variant", k>> \in Events => <<"variant", k>> \in events'[w]
        BY <1>4, <2>1, PublishAdds DEF SeenTyped
    <2>3. CASE entry[2] # k
        <3>1. catalog'[entry[2]] = catalog[entry[2]]
            BY <1>6, <2>1, <2>3
        <3>2. Exists(entry[2]) => Exists(entry[2])' /\ Current' = Current
            BY <1>1, <1>4, <3>1 DEF Exists, Current, Shown
        <3> QED BY <1>1, <1>5, <2>2, <3>2, PublishedIsPending
    <2>4. CASE entry[2] = k
        <3>1. /\ <<"variant", entry[2]>> \in events'[w]
              /\ entry[1] \in Rule("variant") => Purges(<<"variant", entry[2]>>)
            BY <2>2, <2>4, EventsPurge DEF SeenTyped
        <3>2. entry[1] \in CachedTypes
            BY DEF SeenTyped, StellateType
        <3>3. entry[1] \notin Rule("variant") => Current' = Current
            <4>1. entry[1] \notin Rule("variant") => entry[1] = "Product"
                BY <3>2 DEF Rule, CachedTypes
            <4>2. entry[1] = "Product" => Current = <<catalog[k].edition>> /\ Current' = <<catalog'[k].edition>>
                BY <1>1, <2>4 DEF Current, Shown
            <4> QED BY <2>1, <4>1, <4>2
        <3>4. Exists(entry[2])'
            BY <1>1, <2>1, <2>4 DEF Exists
        <3>5. Current' = Current \/ \E p \in Processes : \E e \in events'[p] : Purges(e)
            BY <1>4, <3>1, <3>3
        <3> QED BY <1>1, <1>5, <2>2, <3>4, <3>5, PublishedIsPending
    <2> QED BY <2>3, <2>4
<1> QED BY <1>3, <1>7, <1>8

\* So is what the administrator changes.
LEMMA EditIsSeen ==
    ASSUME CatalogTyped, SeenTyped, Administrator, UNCHANGED stellateVars
    PROVE  SeenTyped' /\ (StaleInv => StaleInv')
<1>1. entry' = entry /\ entry[1] \in CachedTypes /\ entry[2] \in Watched /\ entry[2] \in Keys
      /\ Server \in Processes
    BY CatalogAssumption DEF stellateVars, SeenTyped, StellateType
<1>2. edits' \in 0..MaxEdits
    BY CatalogAssumption DEF Administrator, UpdateProduct, UpdateVariant, UpdateTaxRate, SeenTyped
<1>3. ASSUME events' \in [Processes -> SUBSET Events]
      PROVE  SeenTyped'
    BY <1>2, <1>3 DEF SeenTyped, StellateType, stellateVars
<1>4. ASSUME NEW k \in Watched, NEW kind \in {"product", "variant"}, Publish(Server, kind, k),
             rate' = rate, \A i \in Keys : i # k => catalog'[i] = catalog[i],
             Exists(k) => Exists(k)',
             entry[2] = k /\ entry[1] \notin Rule(kind) => Current' = Current
      PROVE  SeenTyped' /\ (StaleInv => StaleInv')
    <2>1. /\ events' \in [Processes -> SUBSET Events] /\ \A q \in Processes : events[q] \subseteq events'[q]
          /\ <<kind, k>> \in Events => <<kind, k>> \in events'[Server]
        BY <1>1, <1>4, PublishAdds DEF SeenTyped
    <2>2. CASE entry[2] # k
        <3>1. catalog'[entry[2]] = catalog[entry[2]]
            BY <1>1, <1>4, <2>2
        <3>2. Exists(entry[2]) => Exists(entry[2])' /\ Current' = Current
            BY <1>1, <1>4, <3>1 DEF Exists, Current, Shown
        <3> QED BY <1>3, <2>1, <3>2, PublishedIsPending
    <2>3. CASE entry[2] = k
        <3>1. /\ <<kind, entry[2]>> \in events'[Server]
              /\ entry[1] \in Rule(kind) => Purges(<<kind, entry[2]>>)
            BY <2>1, <2>3, EventsPurge DEF SeenTyped
        <3>2. Current' = Current \/ \E p \in Processes : \E e \in events'[p] : Purges(e)
            BY <1>1, <1>4, <2>3, <3>1
        <3>3. Exists(entry[2]) => Exists(entry[2])'
            BY <1>1, <1>4, <2>3 DEF Exists
        <3> QED BY <1>3, <2>1, <3>2, <3>3, PublishedIsPending
    <2> QED BY <2>2, <2>3
<1>5. ASSUME NEW k \in Watched, UpdateProduct(k)
      PROVE  SeenTyped' /\ (StaleInv => StaleInv')
    <2> DEFINE p == [catalog[k] EXCEPT !.edition = @ + 1]
    <2>1. /\ Publish(Server, "product", k) /\ rate' = rate /\ Exists(k)
          /\ catalog' = [catalog EXCEPT ![k] = p]
        BY <1>5 DEF UpdateProduct
    <2>2. k \in Keys /\ catalog[k] \in Products
        BY <2>1, CatalogAssumption DEF CatalogTyped, Exists
    <2>3. p # Absent /\ p.variantEdition = catalog[k].variantEdition
        BY <2>2 DEF Products, Absent
    <2> HIDE DEF p
    <2>4. \A i \in Keys : catalog'[i] = IF i = k THEN p ELSE catalog[i]
        BY <2>1 DEF CatalogTyped
    <2>5. ASSUME entry[2] = k, entry[1] \notin Rule("product")
          PROVE  Current' = Current
        <3>1. entry[1] = "ProductVariant"
            BY <1>1, <2>5 DEF Rule, CachedTypes
        <3>2. Current = <<catalog[k].variantEdition, rate>> /\ Current' = <<catalog'[k].variantEdition, rate'>>
            BY <1>1, <2>5, <3>1 DEF Current, Shown
        <3> QED BY <2>1, <2>2, <2>3, <2>4, <3>2
    <2>6. Exists(k)'
        BY <2>2, <2>3, <2>4 DEF Exists
    <2> QED BY <1>4, <2>1, <2>4, <2>5, <2>6
<1>6. ASSUME NEW k \in Watched, UpdateVariant(k)
      PROVE  SeenTyped' /\ (StaleInv => StaleInv')
    <2> DEFINE p == [catalog[k] EXCEPT !.variantEdition = @ + 1]
    <2>1. /\ Publish(Server, "variant", k) /\ rate' = rate /\ Exists(k)
          /\ catalog' = [catalog EXCEPT ![k] = p]
        BY <1>6 DEF UpdateVariant
    <2>2. k \in Keys /\ catalog[k] \in Products
        BY <2>1, CatalogAssumption DEF CatalogTyped, Exists
    <2>3. p # Absent /\ p.edition = catalog[k].edition
        BY <2>2 DEF Products, Absent
    <2> HIDE DEF p
    <2>4. \A i \in Keys : catalog'[i] = IF i = k THEN p ELSE catalog[i]
        BY <2>1 DEF CatalogTyped
    <2>5. ASSUME entry[2] = k, entry[1] \notin Rule("variant")
          PROVE  Current' = Current
        <3>1. entry[1] = "Product"
            BY <1>1, <2>5 DEF Rule, CachedTypes
        <3>2. Current = <<catalog[k].edition>> /\ Current' = <<catalog'[k].edition>>
            BY <1>1, <2>5, <3>1 DEF Current, Shown
        <3> QED BY <2>2, <2>3, <2>4, <3>2
    <2>6. Exists(k)'
        BY <2>2, <2>3, <2>4 DEF Exists
    <2> QED BY <1>4, <2>1, <2>4, <2>5, <2>6
<1>7. CASE UpdateTaxRate
    <2>1. Publish(Server, "taxRate", NoKey) /\ catalog' = catalog
        BY <1>7 DEF UpdateTaxRate
    <2>2. /\ events' \in [Processes -> SUBSET Events] /\ \A q \in Processes : events[q] \subseteq events'[q]
          /\ <<"taxRate", NoKey>> \in Events => <<"taxRate", NoKey>> \in events'[Server]
        BY <1>1, <2>1, PublishAdds DEF SeenTyped
    <2>3. <<"taxRate", NoKey>> \in events'[Server] /\ Purges(<<"taxRate", NoKey>>)
        BY <2>2, EventsPurge DEF SeenTyped
    <2>4. \E p \in Processes : \E e \in events'[p] : Purges(e)
        BY <1>1, <2>3
    <2>5. Exists(entry[2]) => Exists(entry[2])'
        BY <1>1, <2>1 DEF Exists
    <2> QED BY <1>3, <2>2, <2>4, <2>5, PublishedIsPending
<1> QED BY <1>5, <1>6, <1>7 DEF Administrator

\* The keys of a batch: products that are watched, among them those of each event.
LEMMA KeysOfBatch ==
    ASSUME NEW batch \in SUBSET Events
    PROVE  /\ KeysOf(batch) \subseteq Watched
           /\ \A e \in batch : KeysOf({e}) \subseteq KeysOf(batch)
<1>1. \A e \in batch : e[2] = NoKey \/ e[2] \in Watched
    BY DEF Events
<1>2. KeysOf(batch) \subseteq Watched
    BY <1>1 DEF KeysOf
<1>3. ASSUME NEW e \in batch PROVE KeysOf({e}) \subseteq KeysOf(batch)
    <2>1. CASE NoKey \in {x[2] : x \in batch}
        <3>1. KeysOf(batch) = Watched
            BY <2>1 DEF KeysOf
        <3>2. KeysOf({e}) \subseteq Watched
            BY <1>1 DEF KeysOf
        <3> QED BY <3>1, <3>2
    <2>2. CASE NoKey \notin {x[2] : x \in batch}
        <3>1. KeysOf(batch) = {x[2] : x \in batch} /\ e[2] # NoKey
            BY <2>2 DEF KeysOf
        <3>2. KeysOf({e}) = {e[2]}
            BY <3>1 DEF KeysOf
        <3> QED BY <3>1, <3>2
    <2> QED BY <2>1, <2>2
<1> QED BY <1>2, <1>3

\* The hand-over of a buffer: what was awaited of it is under way.
LEMMA FlushIsSeen ==
    ASSUME SeenTyped, NEW p \in Processes, NEW kind, Flush(p, kind)
    PROVE  SeenTyped' /\ (~DebugLogging /\ QuickFills /\ StaleInv => StaleInv')
<1> DEFINE batch == Batch(p, kind)
<1>1. /\ events' = [events EXCEPT ![p] = @ \ batch]
      /\ catalog' = catalog /\ rate' = rate /\ edits' = edits
      /\ entry' = entry /\ cached' = cached /\ filling' = filling /\ dropped' = dropped
    BY DEF Flush
<1>2. PICK keys \in KeysSent(batch) : purging' = purging \cup PurgeRequests(kind, keys)
    BY DEF Flush
<1>3. batch \in SUBSET Events /\ batch \subseteq events[p] /\ \A e \in batch : e[1] = kind
    BY DEF Batch, SeenTyped
<1>4. \A e \in events[p] : e[1] = kind => e \in batch
    BY DEF Batch
<1> HIDE DEF batch
<1>5. \A q \in Processes : events'[q] = IF q = p THEN events[p] \ batch ELSE events[q]
    BY <1>1 DEF SeenTyped
<1>6. SeenTyped'
    <2>1. events' \in [Processes -> SUBSET Events]
        BY <1>1 DEF SeenTyped
    <2>2. keys \in SUBSET Watched
        <3>1. KeysOf(batch) \subseteq Watched
            BY <1>3, KeysOfBatch
        <3>2. keys \subseteq KeysOf(batch)
            BY <1>2 DEF KeysSent
        <3> QED BY <3>1, <3>2
    <2>3. PurgeRequests(kind, keys) \subseteq [type : {entry[1]}, keys : SUBSET Watched]
        BY <2>2 DEF PurgeRequests
    <2> QED BY <1>1, <1>2, <2>1, <2>3 DEF SeenTyped, StellateType
<1>7. ASSUME ~DebugLogging, QuickFills, StaleInv
      PROVE  StaleInv'
    <2>1. keys = KeysOf(batch)
        BY <1>2, <1>7 DEF KeysSent
    <2>2. Current' = Current /\ (Exists(entry[2])' <=> Exists(entry[2]))
        BY <1>1 DEF Current, Shown, Exists
    <2>3. filling # Nothing => filling = Current
        BY <1>7 DEF Flush
    <2>4. AwaitedMeans /\ AwaitedMeans'
        BY AwaitedIs, PTL
    <2>5. \A e : Purges(e)' <=> Purges(e)
        BY <1>1 DEF Purges, Rule, KeysOf
    <2>6. ASSUME Awaited(Processes)
          PROVE  Awaited(Processes)' \/ purging' # {}
        <3>1. PICK q \in Processes : \E e \in events[q] : Purges(e)
            BY <2>4, <2>6 DEF AwaitedMeans
        <3>2. PICK e \in events[q] : Purges(e)
            BY <3>1
        <3>3. CASE q = p /\ e \in batch
            <4>1. entry[1] \in Rule(kind) /\ entry[2] \in KeysOf(batch)
                BY <1>3, <3>2, <3>3, KeysOfBatch DEF Purges
            <4>2. PurgeRequests(kind, keys) # {}
                BY <2>1, <4>1, RequestsAre
            <4> QED BY <1>2, <4>2
        <3>4. CASE ~(q = p /\ e \in batch)
            <4>1. e \in events'[q]
                BY <1>5, <3>4
            <4> QED BY <2>4, <2>5, <3>2, <4>1 DEF AwaitedMeans
        <3> QED BY <3>3, <3>4
    <2>7. purging # {} => purging' # {}
        BY <1>2
    <2>8. cached # Nothing /\ cached # Current => Awaited(Processes)' \/ purging' # {} \/ dropped
        BY <1>7, <2>6, <2>7 DEF StaleInv, StaleMeansPending
    <2>9. cached # Nothing \/ filling # Nothing => Exists(entry[2])'
        BY <1>7, <2>2 DEF StaleInv
    <2> QED BY <1>1, <2>2, <2>3, <2>8, <2>9 DEF StaleInv, StaleMeansPending, Exists
<1> QED BY <1>6, <1>7

\* The shoppers and the CDN.
LEMMA CacheIsSeen ==
    ASSUME SeenTyped, catalogVars' = catalogVars,
           \/ Shopper
           \/ \E purge \in purging : Purged(purge) \/ PurgeFails(purge)
    PROVE  SeenTyped' /\ (StaleInv => StaleInv')
<1>1. /\ catalog' = catalog /\ rate' = rate /\ edits' = edits /\ events' = events
      /\ entry' = entry
    BY DEF catalogVars, Shopper, ShopQuery, Fill, Purged, PurgeFails
<1>2. /\ Current' = Current /\ (Awaited(Processes)' <=> Awaited(Processes))
      /\ (Exists(entry[2])' <=> Exists(entry[2]))
    BY <1>1 DEF Current, Shown, Awaited, PurgeRequests, Rule, KeysOf, Exists
<1>3. CASE ShopQuery
    <2>1. /\ filling' = Current /\ cached' = cached /\ purging' = purging /\ dropped' = dropped
          /\ Exists(entry[2])
        BY <1>3 DEF ShopQuery
    <2>2. Len(Current) \in {0, 1, 2, 4}
        <3>1. entry[1] \in CachedTypes
            BY DEF SeenTyped, StellateType
        <3>2. \/ Current = <<catalog[entry[2]].edition>>
              \/ Current = <<catalog[entry[2]].variantEdition, rate>>
              \/ Current = <<catalog[entry[2]].edition, catalog[entry[2]].variantEdition,
                             catalog[entry[2]].variants, rate>>
            BY <3>1 DEF Current, Shown, CachedTypes
        <3> QED BY <3>2
    <2>3. SeenTyped'
        BY <1>1, <2>1, <2>2 DEF SeenTyped, StellateType
    <2>4. StaleInv => StaleInv'
        BY <1>1, <1>2, <2>1 DEF StaleInv, StaleMeansPending, Exists
    <2> QED BY <2>3, <2>4
<1>4. CASE Fill
    <2>1. /\ filling # Nothing /\ filling' = Nothing /\ cached' = filling
          /\ purging' = purging /\ dropped' = dropped
        BY <1>4 DEF Fill
    <2>2. SeenTyped'
        BY <1>1, <2>1 DEF SeenTyped, StellateType, Nothing
    <2>3. StaleInv => StaleInv'
        BY <1>1, <1>2, <2>1 DEF StaleInv, StaleMeansPending, Exists
    <2> QED BY <2>2, <2>3
<1>5. ASSUME NEW purge \in purging, Purged(purge)
      PROVE  SeenTyped' /\ (StaleInv => StaleInv')
    <2>1. cached' = Nothing /\ filling' = filling /\ purging' \subseteq purging /\ dropped' = dropped
        BY <1>5 DEF Purged
    <2>2. SeenTyped'
        BY <1>1, <2>1 DEF SeenTyped, StellateType, Nothing
    <2>3. StaleInv => StaleInv'
        BY <1>1, <1>2, <2>1 DEF StaleInv, StaleMeansPending, Exists
    <2> QED BY <2>2, <2>3
<1>6. ASSUME NEW purge \in purging, PurgeFails(purge)
      PROVE  SeenTyped' /\ (StaleInv => StaleInv')
    <2>1. cached' = cached /\ filling' = filling /\ purging' \subseteq purging /\ dropped' = TRUE
        BY <1>6 DEF PurgeFails
    <2>2. SeenTyped'
        BY <1>1, <2>1 DEF SeenTyped, StellateType
    <2>3. StaleInv => StaleInv'
        BY <1>1, <1>2, <2>1 DEF StaleInv, StaleMeansPending, Exists
    <2> QED BY <2>2, <2>3
<1> QED BY <1>3, <1>4, <1>5, <1>6 DEF Shopper

\* A process that ends drops what was awaited of its buffers.
LEMMA ExitIsSeen ==
    ASSUME SeenTyped, NEW w \in Processes, BufferLost(w)
    PROVE  SeenTyped' /\ (StaleInv => StaleInv')
<1>1. /\ events' = [events EXCEPT ![w] = {}] /\ dropped' = (dropped \/ Awaited({w}))
      /\ catalog' = catalog /\ rate' = rate /\ edits' = edits
      /\ entry' = entry /\ cached' = cached /\ filling' = filling /\ purging' = purging
    BY DEF BufferLost
<1>2. Current' = Current /\ (Exists(entry[2])' <=> Exists(entry[2]))
    BY <1>1 DEF Current, Shown, Exists
<1>3. \A q \in Processes : q # w => events'[q] = events[q]
    BY <1>1 DEF SeenTyped
<1>4. AwaitedMeans /\ AwaitedMeans'
    BY AwaitedIs, PTL
<1>5. \A e : Purges(e)' <=> Purges(e)
    BY <1>1 DEF Purges, Rule, KeysOf
<1>6. ASSUME Awaited(Processes)
      PROVE  Awaited(Processes)' \/ Awaited({w})
    <2>1. PICK q \in Processes : \E e \in events[q] : Purges(e)
        BY <1>4, <1>6 DEF AwaitedMeans
    <2>2. CASE q = w
        BY <1>4, <2>1, <2>2 DEF AwaitedMeans
    <2>3. CASE q # w
        <3>1. \E e \in events'[q] : Purges(e)'
            BY <1>3, <1>5, <2>1, <2>3
        <3> QED BY <1>4, <3>1 DEF AwaitedMeans
    <2> QED BY <2>2, <2>3
<1>7. SeenTyped'
    <2>1. dropped' \in BOOLEAN
        BY <1>1 DEF SeenTyped, StellateType
    <2>2. events' \in [Processes -> SUBSET Events]
        BY <1>1 DEF SeenTyped
    <2> QED BY <1>1, <2>1, <2>2 DEF SeenTyped, StellateType
<1>8. Awaited(Processes) \/ dropped => Awaited(Processes)' \/ dropped'
    BY <1>1, <1>6
<1>9. ASSUME StaleInv PROVE StaleInv'
    <2>1. cached # Nothing \/ filling # Nothing => Exists(entry[2])'
        BY <1>2, <1>9 DEF StaleInv
    <2>2. filling # Nothing /\ filling # Current => Awaited(Processes)' \/ dropped'
        BY <1>8, <1>9 DEF StaleInv
    <2>3. cached # Nothing /\ cached # Current => Awaited(Processes)' \/ purging # {} \/ dropped'
        BY <1>8, <1>9 DEF StaleInv, StaleMeansPending
    <2> QED BY <1>1, <1>2, <2>1, <2>2, <2>3 DEF StaleInv, StaleMeansPending, Exists
<1> QED BY <1>7, <1>9

\* Every step keeps what the CDN shows accounted for.
LEMMA SeenStep ==
    ASSUME Permitted, QueueInv, Ordered, WriterInv, SeenTyped, [Next]_vars
    PROVE  SeenTyped' /\ (~DebugLogging /\ QuickFills /\ StaleInv => StaleInv')
<1>1. ASSUME UNCHANGED vars \/ ServerStep \/ QueueStep \/ EndStep
      PROVE  SeenTyped' /\ (StaleInv => StaleInv')
    <2>1. UNCHANGED <<catalogVars, stellateVars>>
        BY <1>1 DEF vars, ServerStep, QueueStep, EndStep
    <2>2. StaleInv => StaleInv'
        BY <2>1, SeenRests
    <2>3. SeenTyped'
        BY <2>1 DEF SeenTyped, StellateType, catalogVars, stellateVars
    <2> QED BY <2>2, <2>3
<1>2. ASSUME ShopStep
      PROVE  SeenTyped' /\ (~DebugLogging /\ QuickFills /\ StaleInv => StaleInv')
    <2>1. CASE Administrator /\ UNCHANGED stellateVars
        BY <2>1, EditIsSeen DEF WriterInv
    <2>2. CASE Shopper
        <3>1. catalogVars' = catalogVars
            BY <2>2 DEF Shopper, ShopQuery, Fill
        <3> QED BY <2>2, <3>1, CacheIsSeen
    <2>3. ASSUME NEW p \in Processes, NEW kind \in Kinds, Flush(p, kind)
          PROVE  SeenTyped' /\ (~DebugLogging /\ QuickFills /\ StaleInv => StaleInv')
        BY <2>3, FlushIsSeen
    <2>4. ASSUME NEW purge \in purging, Purged(purge)
          PROVE  SeenTyped' /\ (StaleInv => StaleInv')
        <3>1. catalogVars' = catalogVars
            BY <2>4 DEF Purged
        <3> QED BY <2>4, <3>1, CacheIsSeen
    <2> QED BY <1>2, <2>1, <2>2, <2>3, <2>4 DEF ShopStep, Stellate
<1>3. ASSUME NEW w \in Workers, WorkerExit(w)
      PROVE  SeenTyped' /\ (StaleInv => StaleInv')
    BY <1>3, ImportAssumption, ExitIsSeen DEF WorkerExit
<1>4. ASSUME PurgeLost
      PROVE  SeenTyped' /\ (StaleInv => StaleInv')
    <2>1. PICK purge \in purging : PurgeFails(purge)
        BY <1>4 DEF PurgeLost
    <2>2. catalogVars' = catalogVars
        BY <2>1 DEF PurgeFails
    <2> QED BY <2>1, <2>2, CacheIsSeen
<1> QED BY <1>1, <1>2, <1>3, <1>4, StepsAre, WriteIsSeen

-----------------------------------------------------------------------------
(* The theorems. *)

\* What holds in every behaviour, however the server is used and configured.
ImportInv ==
    OrdersTyped /\ Permitted /\ QueueInv /\ Ordered /\ WriterInv /\ SeenTyped

\* It holds initially, with the two parts that need more.
LEMMA ImportInvInit ==
    ASSUME Init PROVE ImportInv /\ Files /\ StaleInv
<1>1. /\ catalog = [k \in Keys |-> Absent] /\ events = [p \in Processes |-> {}] /\ edits = 0
      /\ message = [j \in Jobs |-> [state |-> "unsent", delivered |-> 0]]
      /\ client = [w \in Workers |-> "new"] /\ handling = [w \in Workers |-> {}] /\ faults = 0
      /\ pending = [u \in Uploads |-> "none"] /\ request = [r \in Requests |-> Idle]
      /\ order = [j \in Jobs |-> NoOrder] /\ retried = {}
      /\ entry \in CachedTypes \X Watched /\ cached = Nothing /\ filling = Nothing
      /\ purging = {} /\ dropped = FALSE
    BY DEF Init, CatalogInit, QueueInit, ImportInit, StellateInit
<1>2. OrdersTyped /\ Permitted
    BY <1>1 DEF OrdersTyped, Permitted
<1>3. QueueInv
    BY <1>1, QueueAssumption DEF QueueInv, QueueType, Delivered, Handled, Deliveries
<1>4. Ordered
    BY <1>1 DEF Ordered
<1>5. \A k \in Keys : ~Exists(k)
    BY <1>1 DEF Exists
<1>6. WriterInv
    <2>1. \A j \in Jobs : order[j] = NoOrder /\ message[j].state # "acknowledged"
        BY <1>1
    <2>2. CatalogTyped /\ Owned /\ DoneIsComplete
        BY <1>1, <1>5, <2>1 DEF CatalogTyped, Owned, DoneIsComplete
    <2>3. Written
        BY <2>1 DEF Written, Runs
    <2> QED BY <2>2, <2>3 DEF WriterInv
<1>7. SeenTyped
    <2>1. events \in [Processes -> SUBSET Events] /\ \A p \in Processes : events[p] \subseteq Events
        BY <1>1
    <2>2. Len(cached) = 0 /\ Len(filling) = 0
        BY <1>1 DEF Nothing
    <2>3. purging \subseteq [type : {entry[1]}, keys : SUBSET Watched] /\ dropped \in BOOLEAN
        BY <1>1
    <2>4. edits \in 0..MaxEdits
        BY <1>1, CatalogAssumption
    <2> QED BY <1>1, <2>1, <2>2, <2>3, <2>4 DEF SeenTyped, StellateType
<1>8. Files
    BY <1>1 DEF Files, CommittedOnce, Idle
<1>9. StaleInv
    BY <1>1 DEF StaleInv, StaleMeansPending
<1> QED BY <1>2, <1>3, <1>4, <1>6, <1>7, <1>8, <1>9 DEF ImportInv

\* Every step keeps it.
LEMMA ImportInvStep ==
    ASSUME ImportInv, [Next]_vars
    PROVE  /\ ImportInv'
           /\ Files => Files'
           /\ ~DebugLogging /\ QuickFills /\ StaleInv => StaleInv'
<1>1. OrdersTyped' /\ Permitted'
    BY OrdersStep DEF ImportInv
<1>2. QueueInv' /\ Ordered'
    BY QueueInvStep DEF ImportInv
<1>3. WriterInv'
    BY WriterInvStep DEF ImportInv
<1>4. SeenTyped' /\ (~DebugLogging /\ QuickFills /\ StaleInv => StaleInv')
    BY SeenStep DEF ImportInv
<1>5. Files => Files'
    BY FilesStep DEF ImportInv
<1> QED BY <1>1, <1>2, <1>3, <1>4, <1>5 DEF ImportInv

\* The inductive invariant.
LEMMA ImportInvHolds == Spec => []ImportInv
<1>1. Init => ImportInv
    BY ImportInvInit
<1>2. ImportInv /\ [Next]_vars => ImportInv'
    BY ImportInvStep
<1> QED BY <1>1, <1>2, PTL DEF Spec

\* Every variable of the server, the queue, the writer and the CDN holds what the code can
\* put there; no job is delivered more often than there were faults to deliver it again.
THEOREM ImportTypes == Spec => []TypeOK
<1>1. ImportInv => TypeOK
    BY DEF ImportInv, OrdersTyped, QueueInv, SeenTyped, TypeOK, ImportType, Commits, Orders
<1> QED BY <1>1, ImportInvHolds, PTL

\* No invalid row is written, and every variant is part of the product that the last valid
\* row with a name began, for every file, any number of jobs, runs that overlap, failures
\* and deaths of the workers (the filter of commit, groupByProduct, the writer).
THEOREM VariantsAreInPlace == Spec => []VariantsOfTheirProduct
<1>1. ImportInv => VariantsOfTheirProduct
    BY WrittenIsRight DEF ImportInv, QueueInv
<1> QED BY <1>1, ImportInvHolds, PTL

\* That is the product the file lists the variant under if no product has lost its first row
\* alone: the rows that may be skipped without moving others (the filter of commit).
THEOREM WholeProductsAreKept ==
    ASSUME NEW u \in Uploads, ProductsAreWhole(u),
           NEW i \in DOMAIN FileOf[u] \ Invalid(u), NEW k \in 1..i, Named(u, k)
    PROVE  NamingRow(u, i) = ListedUnder(u, i)
<1> DEFINE named == {n \in 1..i : Named(u, n)}
           valid == {n \in 1..i : Named(u, n) /\ n \notin Invalid(u)}
           last == ListedUnder(u, i)
<1>1. i \in Nat
    BY ImportAssumption
<1>2. last \in named /\ \A n \in named : n <= last
    <2>1. named \in SUBSET (1..i) /\ named # {}
        OBVIOUS
    <2>2. last = LastOf(named)
        BY DEF ListedUnder
    <2> HIDE DEF named, last
    <2> QED BY <1>1, <2>1, <2>2, LastOfRows
<1>3. last \notin Invalid(u)
    BY DEF ProductsAreWhole
<1> HIDE DEF last
<1>4. last \in valid
    BY <1>2, <1>3
<1>5. NamingRow(u, i) \in valid /\ \A n \in valid : n <= NamingRow(u, i)
    <2>1. valid \in SUBSET (1..i) /\ valid # {}
        BY <1>4
    <2>2. NamingRow(u, i) = LastOf(valid)
        BY DEF NamingRow
    <2> HIDE DEF valid
    <2> QED BY <1>1, <2>1, <2>2, LastOfRows
<1>6. NamingRow(u, i) <= last /\ last <= NamingRow(u, i)
    BY <1>2, <1>4, <1>5
<1>7. NamingRow(u, i) \in Nat /\ last \in Nat
    BY <1>2, <1>5
<1> QED BY <1>6, <1>7 DEF last

\* A job that Pub/Sub has forgotten was written completely by one of its runs (the
\* listener's ack and nack, the loop of the writer).
THEOREM ForgottenIsImported == Spec => []DoneMeansImported
<1>1. ImportInv => DoneMeansImported
    BY WrittenIsRight DEF ImportInv, QueueInv
<1> QED BY <1>1, ImportInvHolds, PTL

\* No file is queued twice unless two commits of it overlapped or one failed after it had
\* queued, for any number of files, commits, failures and evictions (the token that commit
\* looks up before it queues and drops after).
THEOREM FilesAreQueuedOnce == Spec => []CommittedOnce
<1>1. Init => ImportInv /\ Files
    BY ImportInvInit
<1>2. ImportInv /\ Files /\ [Next]_vars => (ImportInv /\ Files)'
    BY ImportInvStep
<1>3. Files => CommittedOnce
    BY DEF Files
<1> QED BY <1>1, <1>2, <1>3, PTL DEF Spec

\* Without the option debugLogging, and where a shop query is answered before a buffer is
\* handed over, whatever the CDN shows that is no longer true is about to be purged, unless
\* a dead process or a failed request dropped it (the default purge rules).
THEOREM StaleIsPending ==
    ~DebugLogging /\ QuickFills => (Spec => []StaleMeansPending)
<1> SUFFICES ASSUME ~DebugLogging, QuickFills PROVE Spec => []StaleMeansPending
    OBVIOUS
<1>1. Init => ImportInv /\ StaleInv
    BY ImportInvInit
<1>2. ImportInv /\ StaleInv /\ [Next]_vars => (ImportInv /\ StaleInv)'
    BY ImportInvStep
<1>3. StaleInv => StaleMeansPending
    BY DEF StaleInv
<1> QED BY <1>1, <1>2, <1>3, PTL DEF Spec
=============================================================================
