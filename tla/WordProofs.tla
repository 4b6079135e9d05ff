------------------------------ MODULE WordProofs ------------------------------
(* Machine-checked facts about Word to Excel, for every document and every     *)
(* limit.                                                                      *)
EXTENDS WordSheet, Sums, SequenceTheorems

-----------------------------------------------------------------------------
(* The columns a row's cells take                                              *)

WordCell == [span : Nat \ {0}, continued : BOOLEAN, image : BOOLEAN, tables : Seq(Tables)]

\* The last column of a cell.
Ends(row, k) == Width(SubSeq(row, 1, k))

LEMMA SumOfLonger ==
    ASSUME NEW k, NEW u, NEW w, k \in Nat \ {0}, u \in [1..k - 1 -> Nat], w \in [1..k -> Nat],
           \A y \in 1..k - 1 : w[y] = u[y]
    PROVE  SumFunction(w) = SumFunction(u) + w[k]
  <1>1. PICK S : S = 1..k - 1
    OBVIOUS
  <1>2. PICK D : D = 1..k
    OBVIOUS
  <1>3. IsFiniteSet(S)
    BY <1>1, FS_Interval
  <1>4. k \notin S /\ D = S \cup {k}
    BY <1>1, <1>2
  <1>5. u \in [S -> Nat] /\ w \in [D -> Nat] /\ \A y \in S : w[y] = u[y]
    BY <1>1, <1>2
  <1> QED BY ONLY <1>3, <1>4, <1>5, SumOfExtended

LEMMA PartsOfRow ==
    ASSUME NEW row \in Seq(WordCell), NEW k \in 0..Len(row)
    PROVE  /\ [i \in 1..k |-> row[i].span] \in [1..k -> Nat]
           /\ Ends(row, k) = SumFunction([i \in 1..k |-> row[i].span])
  <1>1. Len(row) \in Nat /\ DOMAIN row = 1..Len(row) /\ \A i \in 1..Len(row) : row[i] \in WordCell
    BY LenProperties, ElementOfSeq
  <1>2. \A i \in 1..Len(row) : row[i].span \in Nat
    BY <1>1 DEF WordCell
  <1>3. SubSeq(row, 1, k) = [i \in 1..k |-> row[i]]
    BY <1>1
  <1>4. PICK part : part = [i \in 1..k |-> row[i]]
    OBVIOUS
  <1>5. DOMAIN part = 1..k /\ \A i \in 1..k : part[i] = row[i]
    BY <1>4
  <1>6. [i \in DOMAIN part |-> part[i].span] = [i \in 1..k |-> row[i].span]
    BY <1>5
  <1>7. Ends(row, k) = SumFunction([i \in DOMAIN part |-> part[i].span])
    BY <1>3, <1>4 DEF Ends, Width
  <1>8. \A i \in 1..k : i \in 1..Len(row)
    BY <1>1
  <1>9. [i \in 1..k |-> row[i].span] \in [1..k -> Nat]
    BY <1>2, <1>8
  <1>10. Ends(row, k) = SumFunction([i \in 1..k |-> row[i].span])
    BY <1>6, <1>7
  <1> QED BY <1>1, <1>2, <1>9, <1>10

LEMMA EndsGrow ==
    ASSUME NEW row \in Seq(WordCell)
    PROVE  /\ Len(row) \in Nat /\ DOMAIN row = 1..Len(row)
           /\ Ends(row, 0) = 0 /\ Ends(row, Len(row)) = Width(row)
           /\ \A k \in 0..Len(row) : Ends(row, k) \in Nat
           /\ \A k \in 1..Len(row) : row[k].span \in Nat \ {0} /\ Ends(row, k) = Ends(row, k - 1) + row[k].span
  <1>1. Len(row) \in Nat /\ DOMAIN row = 1..Len(row) /\ \A i \in 1..Len(row) : row[i] \in WordCell
    BY LenProperties, ElementOfSeq
  <1>2. \A i \in 1..Len(row) : row[i].span \in Nat \ {0}
    BY <1>1 DEF WordCell
  <1>3. Ends(row, 0) = 0
    <2>1. PICK u : u = [i \in 1..0 |-> row[i].span]
      OBVIOUS
    <2>2. Ends(row, 0) = SumFunction(u) /\ u \in [{} -> Nat]
      <3>1. 0 \in 0..Len(row)
        BY <1>1
      <3>2. Ends(row, 0) = SumFunction([i \in 1..0 |-> row[i].span])
        BY <3>1, PartsOfRow
      <3>3. u \in [{} -> Nat]
        BY <2>1
      <3> QED BY <2>1, <3>2, <3>3
    <2>3. SumFunction(u) = SumOn(u, {})
      BY <2>2, FS_EmptySet, SumFunctionIsNumber
    <2>4. SumOn(u, {}) = 0
      BY <2>2, FS_EmptySet, SumOfNothing
    <2> QED BY <2>2, <2>3, <2>4
  <1>4. Ends(row, Len(row)) = Width(row)
    <2>1. Ends(row, Len(row)) = SumFunction([i \in 1..Len(row) |-> row[i].span])
      BY <1>1, PartsOfRow
    <2> QED BY <1>1, <2>1 DEF Width
  <1>5. \A k \in 0..Len(row) : Ends(row, k) \in Nat
    <2> TAKE k \in 0..Len(row)
    <2>1. PICK u : u = [i \in 1..k |-> row[i].span]
      OBVIOUS
    <2>2. Ends(row, k) = SumFunction(u) /\ u \in [1..k -> Nat]
      BY <2>1, PartsOfRow
    <2>3. IsFiniteSet(1..k)
      BY <1>1, FS_Interval
    <2> QED BY <2>2, <2>3, SumFunctionIsNumber
  <1>6. \A k \in 1..Len(row) : Ends(row, k) = Ends(row, k - 1) + row[k].span
    <2> TAKE k \in 1..Len(row)
    <2>0. k \in Nat \ {0} /\ k - 1 \in 0..Len(row) /\ k \in 0..Len(row)
      BY <1>1
    <2>1. PICK w : w = [i \in 1..k |-> row[i].span]
      OBVIOUS
    <2>2. PICK u : u = [i \in 1..k - 1 |-> row[i].span]
      OBVIOUS
    <2>3. Ends(row, k) = SumFunction(w) /\ w \in [1..k -> Nat]
      BY <2>0, <2>1, PartsOfRow
    <2>4. Ends(row, k - 1) = SumFunction(u) /\ u \in [1..k - 1 -> Nat]
      BY <2>0, <2>2, PartsOfRow
    <2>6. \A y \in 1..k - 1 : w[y] = u[y]
      BY <2>0, <2>1, <2>2
    <2>7. SumFunction(w) = SumFunction(u) + w[k]
      BY <2>0, <2>3, <2>4, <2>6, SumOfLonger
    <2>8. w[k] = row[k].span
      BY <2>0, <2>1
    <2> QED BY <2>3, <2>4, <2>7, <2>8
  <1> QED BY <1>1, <1>2, <1>3, <1>4, <1>5, <1>6

LEMMA EndsInOrder ==
    ASSUME NEW row \in Seq(WordCell), NEW j \in 0..Len(row), NEW k \in 0..Len(row), j < k
    PROVE  Ends(row, j) < Ends(row, k)
  <1>1. PICK size \in Nat : size = Len(row)
    BY EndsGrow
  <1>2. \A m \in 0..size : Ends(row, m) \in Nat
    BY <1>1, EndsGrow
  <1>3. \A m \in 1..size : row[m].span \in Nat \ {0} /\ Ends(row, m) = Ends(row, m - 1) + row[m].span
    BY <1>1, EndsGrow
  <1> DEFINE T == {n \in Nat : j < n /\ n <= size => Ends(row, j) < Ends(row, n)}
  <1>4. 0 \in T
    BY <1>1
  <1>5. ASSUME NEW n \in Nat, n \in T PROVE n + 1 \in T
    <2> SUFFICES ASSUME j < n + 1, n + 1 <= size PROVE Ends(row, j) < Ends(row, n + 1)
      OBVIOUS
    <2>1. n + 1 \in 1..size /\ (n + 1) - 1 = n /\ n \in 0..size /\ j \in 0..size
      BY <1>1
    <2>2. Ends(row, n) < Ends(row, n + 1)
      <3>1. PICK m : m = n + 1
        OBVIOUS
      <3>2. m \in 1..size /\ m \in 0..size /\ m - 1 = n
        BY <2>1, <3>1
      <3>3. row[m].span \in Nat \ {0} /\ Ends(row, m) = Ends(row, m - 1) + row[m].span
        BY <1>3, <3>2
      <3>4. Ends(row, n) \in Nat /\ Ends(row, m) = Ends(row, n) + row[m].span
        BY <1>2, <2>1, <3>2, <3>3
      <3>5. Ends(row, n) < Ends(row, m)
        BY <3>3, <3>4
      <3> QED BY <3>1, <3>5
    <2>3. Ends(row, j) \in Nat /\ Ends(row, n) \in Nat /\ Ends(row, n + 1) \in Nat
      BY <1>2, <2>1
    <2>4. CASE j < n
      <3>1. Ends(row, j) < Ends(row, n)
        BY <1>5, <2>1, <2>4
      <3> QED BY <2>2, <2>3, <3>1
    <2>5. CASE j = n
      BY <2>2, <2>5
    <2> QED BY <1>1, <2>1, <2>4, <2>5
  <1>6. Nat \subseteq T
    <2> HIDE DEF T
    <2> QED BY <1>4, <1>5, AllNumbers
  <1> QED BY <1>1, <1>6

\* The columns of a cell, and the only cell that covers one.
Covers(row, k, c) == Ends(row, k - 1) < c /\ c <= Ends(row, k)

LEMMA OneCovers ==
    ASSUME NEW row \in Seq(WordCell), NEW j \in 1..Len(row), NEW k \in 1..Len(row), NEW c \in Nat,
           Covers(row, j, c), Covers(row, k, c)
    PROVE  j = k
  <1>1. PICK size \in Nat : size = Len(row)
    BY EndsGrow
  <1>2. \A m \in 0..size : Ends(row, m) \in Nat
    BY <1>1, EndsGrow
  <1>3. \A m, n \in 1..size : m < n => Ends(row, m) <= Ends(row, n - 1)
    <2> TAKE m, n \in 1..size
    <2> HAVE m < n
    <2>1. m = n - 1 \/ m < n - 1
      OBVIOUS
    <2>2. m \in 0..Len(row) /\ n - 1 \in 0..Len(row)
      BY <1>1
    <2>3. Ends(row, m) \in Nat /\ Ends(row, n - 1) \in Nat
      BY <1>1, <1>2, <2>2
    <2>4. m < n - 1 => Ends(row, m) < Ends(row, n - 1)
      BY <2>2, EndsInOrder
    <2> QED BY <2>1, <2>3, <2>4
  <1>4. ~(j < k) /\ ~(k < j)
    <2>1. j \in 0..size /\ k \in 0..size /\ j - 1 \in 0..size /\ k - 1 \in 0..size /\ j \in 1..size /\ k \in 1..size
      BY <1>1
    <2>2. Ends(row, j) \in Nat /\ Ends(row, k) \in Nat /\ Ends(row, j - 1) \in Nat /\ Ends(row, k - 1) \in Nat
      BY <1>2, <2>1
    <2>3. j < k => Ends(row, j) <= Ends(row, k - 1)
      BY <1>3, <2>1
    <2>4. k < j => Ends(row, k) <= Ends(row, j - 1)
      BY <1>3, <2>1
    <2> QED BY <2>2, <2>3, <2>4 DEF Covers
  <1> QED BY <1>1, <1>4

LEMMA CoveringCovers ==
    ASSUME NEW row \in Seq(WordCell), NEW c \in 1..Width(row)
    PROVE  Covering(row, c) \in 1..Len(row) /\ Covers(row, Covering(row, c), c)
  <1>1. PICK size \in Nat : size = Len(row)
    BY EndsGrow
  <1>2. \A m \in 0..size : Ends(row, m) \in Nat
    BY <1>1, EndsGrow
  <1>3. Ends(row, 0) = 0 /\ Ends(row, size) = Width(row) /\ DOMAIN row = 1..size
    BY <1>1, EndsGrow
  <1>4. c \in Nat /\ 0 < c /\ c <= Ends(row, size) /\ size \in 0..size
    BY <1>2, <1>3
  <1> DEFINE T == {m \in 0..size : c <= Ends(row, m)}
  <1>5. T # {} /\ T \in SUBSET Nat
    BY <1>4
  <1>6. PICK k \in T : \A y \in T : k <= y
    <2> HIDE DEF T
    <2> QED BY <1>5, LeastNumber
  <1>7. k \in 1..size /\ k - 1 \in 0..size /\ c <= Ends(row, k) /\ k - 1 \notin T
    BY <1>3, <1>4, <1>6
  <1>8. Ends(row, k - 1) < c
    BY <1>2, <1>4, <1>7
  <1>9. \E x \in DOMAIN row : Covers(row, x, c)
    BY <1>3, <1>7, <1>8 DEF Covers
  <1>10. Covering(row, c) = CHOOSE x \in DOMAIN row : Covers(row, x, c)
    BY DEF Covering, Covers, Ends
  <1>11. Covering(row, c) \in DOMAIN row /\ Covers(row, Covering(row, c), c)
    BY <1>9, <1>10
  <1> QED BY <1>1, <1>3, <1>11

LEMMA CoversIsCovering ==
    ASSUME NEW row \in Seq(WordCell), NEW k \in 1..Len(row), NEW c \in Nat, Covers(row, k, c)
    PROVE  c \in 1..Width(row) /\ Covering(row, c) = k
  <1>1. PICK size \in Nat : size = Len(row)
    BY EndsGrow
  <1>2. \A m \in 0..size : Ends(row, m) \in Nat
    BY <1>1, EndsGrow
  <1>3. Ends(row, size) = Width(row) /\ Ends(row, k) \in Nat /\ Ends(row, k - 1) \in Nat /\ Ends(row, size) \in Nat
    <2>1. k \in 0..size /\ k - 1 \in 0..size /\ size \in 0..size
      BY <1>1
    <2> QED BY <1>1, <1>2, <2>1, EndsGrow
  <1>4. Ends(row, k) <= Ends(row, size)
    <2>1. k = size \/ k < size
      BY <1>1
    <2>2. k \in 0..Len(row) /\ size \in 0..Len(row)
      BY <1>1
    <2>3. k < size => Ends(row, k) < Ends(row, size)
      BY <2>2, EndsInOrder
    <2> QED BY <1>3, <2>1, <2>3
  <1>5. c \in 1..Width(row)
    BY <1>3, <1>4 DEF Covers
  <1>6. Covering(row, c) \in 1..Len(row) /\ Covers(row, Covering(row, c), c)
    BY <1>5, CoveringCovers
  <1> QED BY <1>5, <1>6, OneCovers
-----------------------------------------------------------------------------
(* The grid of a table                                                         *)

LEMMA TablesAreTables ==
    ASSUME NEW table \in Tables
    PROVE  /\ table \in Seq(Seq(WordCell)) /\ WellFormed(table)
           /\ Len(table) \in Nat /\ DOMAIN table = 1..Len(table)
           /\ \A r \in 1..Len(table) : table[r] \in Seq(WordCell)
  <1>1. table \in Seq(Seq(WordCell)) /\ WellFormed(table)
    BY WordAssumption DEF WordCell
  <1> QED BY <1>1, LenProperties, ElementOfSeq

GridRow(table, g, r) ==
    [c \in 1..Width(table[r]) |->
        LET k == Covering(table[r], c)
        IN  IF table[r][k].continued THEN g[r - 1][c] ELSE <<r, k>>]

\* A cell of the first row continues none, and is the cell above if it continues one.
LEMMA ContinuedBelow ==
    ASSUME NEW table \in Tables, NEW r \in 1..Len(table), NEW k \in 1..Len(table[r]), table[r][k].continued
    PROVE  /\ r - 1 \in 1..Len(table)
           /\ \E l \in 1..Len(table[r - 1]) :
                /\ table[r - 1][l].span = table[r][k].span
                /\ Ends(table[r - 1], l) = Ends(table[r], k)
  <1>1. /\ WellFormed(table) /\ Len(table) \in Nat /\ DOMAIN table = 1..Len(table)
        /\ \A q \in 1..Len(table) : table[q] \in Seq(WordCell)
    BY TablesAreTables
  <1>2. \A q \in 1..Len(table) : DOMAIN table[q] = 1..Len(table[q])
    BY <1>1, EndsGrow
  <1>3. r > 1 /\ \E l \in DOMAIN table[r - 1] :
           /\ table[r - 1][l].span = table[r][k].span
           /\ Width(SubSeq(table[r - 1], 1, l)) = Width(SubSeq(table[r], 1, k))
    BY <1>1, <1>2 DEF WellFormed
  <1>4. r - 1 \in 1..Len(table)
    BY <1>1, <1>3
  <1> QED BY <1>2, <1>3, <1>4 DEF Ends

LEMMA SameColumns ==
    ASSUME NEW row \in Seq(WordCell), NEW k \in 1..Len(row), NEW up \in Seq(WordCell), NEW l \in 1..Len(up),
           up[l].span = row[k].span, Ends(up, l) = Ends(row, k)
    PROVE  Ends(up, l - 1) = Ends(row, k - 1) /\ \A c : Covers(up, l, c) <=> Covers(row, k, c)
  <1>1. Len(row) \in Nat /\ Len(up) \in Nat
    BY EndsGrow
  <1>2. row[k].span \in Nat \ {0} /\ Ends(row, k) = Ends(row, k - 1) + row[k].span /\ Ends(row, k - 1) \in Nat
    <2>1. k - 1 \in 0..Len(row)
      BY <1>1
    <2> QED BY <2>1, EndsGrow
  <1>3. Ends(up, l) = Ends(up, l - 1) + up[l].span /\ Ends(up, l - 1) \in Nat
    <2>1. l - 1 \in 0..Len(up)
      BY <1>1
    <2> QED BY <2>1, EndsGrow
  <1>4. Ends(up, l - 1) = Ends(row, k - 1)
    BY <1>2, <1>3
  <1> QED BY <1>4 DEF Covers

IsGridTo(n, g, table) == DOMAIN g = 1..n /\ \A r \in 1..n : g[r] = GridRow(table, g, r)

LEMMA GridExists ==
    ASSUME NEW table \in Tables
    PROVE  \E g : IsGridTo(Len(table), g, table) /\ g = [r \in 1..Len(table) |-> g[r]]
  <1>1. PICK size \in Nat : size = Len(table)
    BY TablesAreTables
  <1>2. \A r \in 1..size : table[r] \in Seq(WordCell)
    BY <1>1, TablesAreTables
  <1> DEFINE T == {n \in Nat : n <= size => \E g : IsGridTo(n, g, table) /\ g = [r \in 1..n |-> g[r]]}
  <1>3. 0 \in T
    <2>1. IsGridTo(0, [r \in 1..0 |-> 0], table)
      BY DEF IsGridTo
    <2>2. [r \in 1..0 |-> 0] = [r \in 1..0 |-> [q \in 1..0 |-> 0][r]]
      OBVIOUS
    <2> QED BY <2>1, <2>2
  <1>4. ASSUME NEW n \in Nat, n \in T PROVE n + 1 \in T
    <2> SUFFICES ASSUME n + 1 <= size
                 PROVE \E g : IsGridTo(n + 1, g, table) /\ g = [r \in 1..n + 1 |-> g[r]]
      OBVIOUS
    <2>1. PICK f : IsGridTo(n, f, table) /\ f = [r \in 1..n |-> f[r]]
      BY <1>4
    <2>2. PICK m : m = n + 1
      OBVIOUS
    <2>3. PICK new : new = GridRow(table, f, m)
      OBVIOUS
    <2> DEFINE g == [r \in 1..m |-> IF r = m THEN new ELSE f[r]]
    <2>4. DOMAIN g = 1..m /\ g[m] = new /\ \A r \in 1..n : g[r] = f[r]
      BY <2>2
    <2>5. g = [r \in 1..m |-> g[r]]
      OBVIOUS
    <2> HIDE DEF g
    <2>6. \A r \in 1..m : GridRow(table, g, r) = GridRow(table, f, r)
      <3> TAKE r \in 1..m
      <3>1. CASE r = 1
        <4>1. r \in 1..Len(table) /\ table[r] \in Seq(WordCell)
          BY <1>1, <1>2, <2>2
        <4>2. \A c \in 1..Width(table[r]) : ~table[r][Covering(table[r], c)].continued
          <5> TAKE c \in 1..Width(table[r])
          <5>1. Covering(table[r], c) \in 1..Len(table[r])
            BY <4>1, CoveringCovers
          <5>2. PICK k \in 1..Len(table[r]) : k = Covering(table[r], c)
            BY <5>1
          <5>3. table[r][k].continued => r - 1 \in 1..Len(table)
            BY <4>1, ContinuedBelow
          <5>4. ~(r - 1 \in 1..Len(table))
            BY <3>1
          <5> QED BY <5>2, <5>3, <5>4
        <4> QED BY <4>2 DEF GridRow
      <3>2. CASE r # 1
        <4>1. g[r - 1] = f[r - 1]
          BY <2>2, <2>4, <3>2
        <4> QED BY <4>1 DEF GridRow
      <3> QED BY <3>1, <3>2
    <2>7. \A r \in 1..m : g[r] = GridRow(table, g, r)
      <3> TAKE r \in 1..m
      <3>1. r = m \/ r \in 1..n
        BY <2>2
      <3>2. r \in 1..n => g[r] = GridRow(table, f, r)
        BY <2>1, <2>4 DEF IsGridTo
      <3>3. GridRow(table, g, r) = GridRow(table, f, r)
        BY <2>6
      <3> QED BY <2>3, <2>4, <3>1, <3>2, <3>3
    <2>8. IsGridTo(m, g, table)
      BY <2>4, <2>7 DEF IsGridTo
    <2> QED BY <2>2, <2>5, <2>8
  <1>5. Nat \subseteq T
    <2> HIDE DEF T
    <2> QED BY <1>3, <1>4, AllNumbers
  <1> QED BY <1>1, <1>5

LEMMA GridIs ==
    ASSUME NEW table \in Tables
    PROVE  IsGridTo(Len(table), RowCells(table), table)
  <1> DEFINE IsIt(g) == g = [r \in 1..Len(table) |->
               [c \in 1..Width(table[r]) |->
                  LET k == Covering(table[r], c)
                  IN  IF table[r][k].continued THEN g[r - 1][c] ELSE <<r, k>>]]
  <1>1. RowCells(table) = CHOOSE g : IsIt(g)
    BY DEF RowCells
  <1>2. PICK f : IsGridTo(Len(table), f, table) /\ f = [r \in 1..Len(table) |-> f[r]]
    BY GridExists
  <1>3. f = [r \in 1..Len(table) |-> GridRow(table, f, r)]
    <2>1. \A r \in 1..Len(table) : f[r] = GridRow(table, f, r)
      BY <1>2 DEF IsGridTo
    <2> QED BY <1>2, <2>1
  <1>4. IsIt(f)
    BY <1>3 DEF GridRow
  <1>5. IsIt(RowCells(table))
    <2> HIDE DEF IsIt
    <2> QED BY <1>1, <1>4
  <1>6. RowCells(table) = [r \in 1..Len(table) |-> GridRow(table, RowCells(table), r)]
    BY <1>5 DEF GridRow
  <1>7. PICK g : g = RowCells(table)
    OBVIOUS
  <1>8. g = [r \in 1..Len(table) |-> GridRow(table, g, r)]
    BY <1>6, <1>7
  <1>9. DOMAIN g = 1..Len(table) /\ \A r \in 1..Len(table) : g[r] = GridRow(table, g, r)
    BY <1>8
  <1> QED BY <1>7, <1>9 DEF IsGridTo

LEMMA RowOfGrid ==
    ASSUME NEW table \in Tables, NEW g, IsGridTo(Len(table), g, table), NEW r \in 1..Len(table)
    PROVE  /\ Width(table[r]) \in Nat /\ DOMAIN g[r] = 1..Width(table[r]) /\ g[r] \in Seq(Range(g[r]))
           /\ Len(g[r]) = Width(table[r])
           /\ \A c \in 1..Width(table[r]) :
                g[r][c] = IF table[r][Covering(table[r], c)].continued THEN g[r - 1][c]
                          ELSE <<r, Covering(table[r], c)>>
  <1>1. table[r] \in Seq(WordCell)
    BY TablesAreTables
  <1>2. PICK width \in Nat : width = Width(table[r])
    <2>1. Len(table[r]) \in 0..Len(table[r])
      BY <1>1, EndsGrow
    <2> QED BY <1>1, <2>1, EndsGrow
  <1>3. g[r] = GridRow(table, g, r)
    BY DEF IsGridTo
  <1>4. DOMAIN g[r] = 1..width
    BY <1>2, <1>3 DEF GridRow
  <1>5. \A c \in 1..width : g[r][c] = IF table[r][Covering(table[r], c)].continued THEN g[r - 1][c]
                                      ELSE <<r, Covering(table[r], c)>>
    BY <1>2, <1>3 DEF GridRow
  <1>6. g[r] = [c \in 1..width |-> g[r][c]]
    BY <1>2, <1>3 DEF GridRow
  <1>7. PICK row : row = g[r]
    OBVIOUS
  <1>8. row \in Seq(Range(row)) /\ Len(row) = width
    <2>1. row = [c \in 1..width |-> row[c]]
      BY <1>6, <1>7
    <2>2. \A c \in 1..width : row[c] \in Range(row)
      BY <1>4, <1>7 DEF Range
    <2> HIDE <1>7
    <2>3. row \in [1..width -> Range(row)]
      BY <2>1, <2>2
    <2> QED BY <2>3
  <1> QED BY <1>2, <1>4, <1>5, <1>7, <1>8

\* A cell of a row comes from a cell of the same columns, in the rows from there on.
Sourced(table, g, r, k) ==
    \E q \in 1..r : \E j \in 1..Len(table[q]) :
        /\ Ends(table[q], j - 1) = Ends(table[r], k - 1) /\ Ends(table[q], j) = Ends(table[r], k)
        /\ \A m \in q..r : \A c \in Nat :
             Covers(table[r], k, c) => c \in DOMAIN g[m] /\ g[m][c] = <<q, j>>

LEMMA CellsHaveSources ==
    ASSUME NEW table \in Tables, NEW g, IsGridTo(Len(table), g, table)
    PROVE  \A r \in 1..Len(table) : \A k \in 1..Len(table[r]) : Sourced(table, g, r, k)
  <1>1. PICK size \in Nat : size = Len(table)
    BY TablesAreTables
  <1>2. \A r \in 1..size : table[r] \in Seq(WordCell)
    BY <1>1, TablesAreTables
  <1> DEFINE T == {n \in Nat : n \in 1..size => \A k \in 1..Len(table[n]) : Sourced(table, g, n, k)}
  <1>3. 0 \in T
    OBVIOUS
  <1>4. ASSUME NEW n \in Nat, n \in T PROVE n + 1 \in T
    <2>1. PICK r : r = n + 1
      OBVIOUS
    <2> SUFFICES ASSUME r \in 1..size, NEW k \in 1..Len(table[r]) PROVE Sourced(table, g, r, k)
      BY <2>1
    <2>2. table[r] \in Seq(WordCell) /\ r \in 1..Len(table)
      BY <1>1, <1>2
    <2>3. \A c \in Nat : Covers(table[r], k, c) =>
             /\ c \in DOMAIN g[r]
             /\ g[r][c] = IF table[r][k].continued THEN g[r - 1][c] ELSE <<r, k>>
      <3> TAKE c \in Nat
      <3> HAVE Covers(table[r], k, c)
      <3>1. c \in 1..Width(table[r]) /\ Covering(table[r], c) = k
        BY <2>2, CoversIsCovering
      <3> QED BY <2>2, <3>1, RowOfGrid
    <2>4. CASE ~table[r][k].continued
      <3>1. r \in 1..r /\ \A m \in r..r : m = r
        BY <2>1
      <3>2. \A m \in r..r : \A c \in Nat : Covers(table[r], k, c) => c \in DOMAIN g[m] /\ g[m][c] = <<r, k>>
        BY <2>3, <2>4, <3>1
      <3> QED BY <3>1, <3>2 DEF Sourced
    <2>5. CASE table[r][k].continued
      <3>1. PICK l \in 1..Len(table[r - 1]) :
               table[r - 1][l].span = table[r][k].span /\ Ends(table[r - 1], l) = Ends(table[r], k)
        BY <2>2, <2>5, ContinuedBelow
      <3>2. r - 1 \in 1..size /\ r - 1 = n
        <4>1. r - 1 \in 1..Len(table)
          BY <2>2, <2>5, ContinuedBelow
        <4> QED BY <1>1, <2>1, <4>1
      <3>3. PICK up : up = table[n]
        OBVIOUS
      <3>4. l \in 1..Len(up) /\ up[l].span = table[r][k].span /\ Ends(up, l) = Ends(table[r], k)
        BY <3>1, <3>2, <3>3
      <3>5. up \in Seq(WordCell)
        BY <1>2, <3>2, <3>3
      <3>6. Ends(up, l - 1) = Ends(table[r], k - 1) /\ \A c : Covers(up, l, c) <=> Covers(table[r], k, c)
        BY <2>2, <3>4, <3>5, SameColumns
      <3>7. Sourced(table, g, n, l)
        BY <1>4, <3>2, <3>3, <3>4
      <3>8. PICK q \in 1..n : \E j \in 1..Len(table[q]) :
               /\ Ends(table[q], j - 1) = Ends(up, l - 1) /\ Ends(table[q], j) = Ends(up, l)
               /\ \A m \in q..n : \A c \in Nat : Covers(up, l, c) => c \in DOMAIN g[m] /\ g[m][c] = <<q, j>>
        BY <3>3, <3>7 DEF Sourced
      <3>9. PICK j \in 1..Len(table[q]) :
               /\ Ends(table[q], j - 1) = Ends(up, l - 1) /\ Ends(table[q], j) = Ends(up, l)
               /\ \A m \in q..n : \A c \in Nat : Covers(up, l, c) => c \in DOMAIN g[m] /\ g[m][c] = <<q, j>>
        BY <3>8
      <3>10. \A c \in Nat : Covers(table[r], k, c) => c \in DOMAIN g[r] /\ g[r][c] = <<q, j>>
        <4> TAKE c \in Nat
        <4> HAVE Covers(table[r], k, c)
        <4>1. n \in q..n
          BY <3>2
        <4>2. g[n][c] = <<q, j>>
          BY <3>6, <3>9, <4>1
        <4> QED BY <2>3, <2>5, <3>2, <4>2
      <3>11. \A m \in q..r : m \in q..n \/ m = r
        BY <2>1
      <3>12. q \in 1..r
        BY <2>1
      <3>13. \A m \in q..r : \A c \in Nat : Covers(table[r], k, c) => c \in DOMAIN g[m] /\ g[m][c] = <<q, j>>
        BY <3>6, <3>9, <3>10, <3>11
      <3>14. Ends(table[q], j - 1) = Ends(table[r], k - 1) /\ Ends(table[q], j) = Ends(table[r], k)
        BY <3>4, <3>6, <3>9
      <3> QED BY <3>12, <3>13, <3>14 DEF Sourced
    <2> QED BY <2>4, <2>5
  <1>5. Nat \subseteq T
    <2> HIDE DEF T
    <2> QED BY <1>3, <1>4, AllNumbers
  <1> QED BY <1>1, <1>5

\* The largest of some numbers.
LEMMA LargestExists ==
    ASSUME NEW T \in SUBSET Nat, IsFiniteSet(T), T # {}
    PROVE  Max(T) \in T /\ \A y \in T : y <= Max(T)
  <1> DEFINE D == {R \in SUBSET T : R # {} => \E x \in R : \A y \in R : y <= x}
  <1>1. {} \in D
    OBVIOUS
  <1>2. ASSUME NEW R \in SUBSET T, NEW x \in T \ R, R \in D PROVE R \cup {x} \in D
    <2>1. \A y \in R \cup {x} : y \in Nat
      OBVIOUS
    <2>2. CASE R = {}
      <3>1. x \in R \cup {x} /\ \A y \in R \cup {x} : y <= x
        BY <2>1, <2>2
      <3> QED BY <3>1
    <2>3. CASE R # {}
      <3>1. PICK z \in R : \A y \in R : y <= z
        BY <1>2, <2>3
      <3>2. z \in Nat /\ x \in Nat
        BY <2>1
      <3>3. CASE z <= x
        <4>1. \A y \in R \cup {x} : y <= x
          BY <2>1, <3>1, <3>2, <3>3
        <4> QED BY <4>1
      <3>4. CASE x <= z
        <4>1. \A y \in R \cup {x} : y <= z
          BY <2>1, <3>1, <3>2, <3>4
        <4> QED BY <3>1, <4>1
      <3> QED BY <3>2, <3>3, <3>4
    <2> QED BY <2>2, <2>3
  <1>3. T \in D
    <2> HIDE DEF D
    <2> QED BY <1>1, <1>2, AllSubsets
  <1>4. \E x \in T : \A y \in T : y <= x
    BY <1>3
  <1>5. \E x \in T : \A y \in T : x >= y
    BY <1>4
  <1>6. Max(T) \in T /\ \A y \in T : Max(T) >= y
    BY <1>5 DEF Max
  <1> QED BY <1>6

IsBlock(P, t, l, b, e) == {t, l, b, e} \subseteq Nat \ {0} /\ t <= b /\ l <= e /\ P = Cells(t, l, b, e)

LEMMA PlacesAre ==
    ASSUME NEW g, NEW x, NEW p
    PROVE  p \in Places(g, x) <=> /\ p = <<p[1], p[2]>> /\ p[1] \in DOMAIN g /\ p[2] \in DOMAIN g[p[1]]
                                  /\ g[p[1]][p[2]] = x
  BY DEF Places

\* The places of a cell are a block of rows and columns, from its own row down.
LEMMA CellsAreBlocks ==
    ASSUME NEW table \in Tables, NEW g, IsGridTo(Len(table), g, table), NEW x \in CellsIn(g)
    PROVE  /\ \E t, l, b, e \in Nat : IsBlock(Places(g, x), t, l, b, e)
           /\ SourceCell(table, x) \in WordCell
  <1>1. PICK size \in Nat : size = Len(table)
    BY TablesAreTables
  <1>2. (\A r \in 1..size : table[r] \in Seq(WordCell)) /\ DOMAIN g = 1..size
    BY <1>1, TablesAreTables DEF IsGridTo
  <1>3. \A r \in 1..size : DOMAIN g[r] = 1..Width(table[r]) /\ Width(table[r]) \in Nat
    BY <1>1, RowOfGrid
  \* What covers a place of the cell has the cell's own columns.
  <1> DEFINE Own(q, j, r, k) ==
               /\ Ends(table[q], j - 1) = Ends(table[r], k - 1) /\ Ends(table[q], j) = Ends(table[r], k)
               /\ \A m \in q..r : \A c \in Nat : Covers(table[r], k, c) => c \in DOMAIN g[m] /\ g[m][c] = <<q, j>>
  <1>4. ASSUME NEW r \in 1..size, NEW c \in DOMAIN g[r]
        PROVE  \E q \in 1..r : \E j \in 1..Len(table[q]) :
                 \E k \in 1..Len(table[r]) : g[r][c] = <<q, j>> /\ c \in Nat /\ Covers(table[r], k, c) /\ Own(q, j, r, k)
    <2>1. c \in 1..Width(table[r]) /\ c \in Nat
      BY <1>2, <1>3
    <2>2. PICK k \in 1..Len(table[r]) : Covers(table[r], k, c)
      BY <1>2, <2>1, CoveringCovers
    <2>3. Sourced(table, g, r, k)
      BY <1>1, CellsHaveSources
    <2>4. PICK q \in 1..r : \E j \in 1..Len(table[q]) : Own(q, j, r, k)
      BY <2>3 DEF Sourced
    <2>5. PICK j \in 1..Len(table[q]) : Own(q, j, r, k)
      BY <2>4
    <2>6. r \in q..r
      OBVIOUS
    <2>7. g[r][c] = <<q, j>>
      BY <2>1, <2>2, <2>5, <2>6
    <2> QED BY <2>1, <2>2, <2>5, <2>7
  <1> HIDE DEF Own
  <1>5. PICK q \in 1..size : \E j \in 1..Len(table[q]) : x = <<q, j>>
    <2>1. PICK r \in DOMAIN g : x \in Range(g[r])
      BY DEF CellsIn
    <2>2. PICK c \in DOMAIN g[r] : x = g[r][c]
      BY <2>1 DEF Range
    <2>3. PICK q \in 1..r : \E j \in 1..Len(table[q]) : g[r][c] = <<q, j>>
      BY <1>2, <1>4, <2>1, <2>2
    <2>4. q \in 1..size
      BY <1>2, <2>1
    <2> QED BY <2>2, <2>3, <2>4
  <1>6. PICK j \in 1..Len(table[q]) : x = <<q, j>>
    BY <1>5
  <1>7. ASSUME NEW r \in 1..size, NEW c \in DOMAIN g[r], g[r][c] = x
        PROVE  q <= r /\ c \in Nat /\ Covers(table[q], j, c) /\ \E k \in 1..Len(table[r]) : Own(q, j, r, k)
    <2>1. PICK v \in 1..r : \E i \in 1..Len(table[v]) :
             \E k \in 1..Len(table[r]) : g[r][c] = <<v, i>> /\ c \in Nat /\ Covers(table[r], k, c) /\ Own(v, i, r, k)
      BY <1>4
    <2>2. PICK i \in 1..Len(table[v]), k \in 1..Len(table[r]) :
             g[r][c] = <<v, i>> /\ c \in Nat /\ Covers(table[r], k, c) /\ Own(v, i, r, k)
      BY <2>1
    <2>3. v = q /\ i = j
      BY <1>6, <1>7, <2>2
    <2>4. Own(q, j, r, k) /\ q <= r
      BY <2>2, <2>3
    <2>5. Covers(table[q], j, c)
      BY <2>2, <2>4 DEF Own, Covers
    <2> QED BY <2>2, <2>4, <2>5
  <1> DEFINE R == {r \in 1..size : x \in Range(g[r])}
  <1>8. IsFiniteSet(R) /\ R # {} /\ R \in SUBSET Nat
    <2>1. IsFiniteSet(1..size)
      BY FS_Interval
    <2>2. R # {}
      BY <1>2 DEF CellsIn
    <2> QED BY <2>1, <2>2, FS_Subset
  <1>9. PICK b \in R : \A r \in R : r <= b
    <2> HIDE DEF R
    <2> QED BY <1>8, LargestExists
  <1>10. PICK z \in DOMAIN g[b] : g[b][z] = x
    BY <1>9 DEF Range
  <1>11. b \in 1..size
    BY <1>9
  <1>12. q <= b /\ \E k \in 1..Len(table[b]) : Own(q, j, b, k)
    BY <1>7, <1>10, <1>11
  <1>13. PICK k \in 1..Len(table[b]) : Own(q, j, b, k)
    BY <1>12
  <1>14. PICK first, last : first = Ends(table[q], j - 1) + 1 /\ last = Ends(table[q], j)
    OBVIOUS
  <1>15. /\ first \in Nat \ {0} /\ last \in Nat \ {0} /\ first <= last
         /\ \A c \in Nat : Covers(table[q], j, c) <=> c \in first..last
    <2>1. table[q] \in Seq(WordCell) /\ Len(table[q]) \in Nat
      BY <1>2, EndsGrow
    <2>2. j - 1 \in 0..Len(table[q]) /\ j \in 0..Len(table[q])
      BY <2>1
    <2>3. Ends(table[q], j - 1) \in Nat /\ Ends(table[q], j) \in Nat /\ Ends(table[q], j - 1) < Ends(table[q], j)
      <3>1. j - 1 < j
        BY <2>1
      <3> QED BY <2>1, <2>2, <3>1, EndsGrow, EndsInOrder
    <2>4. first \in Nat \ {0} /\ last \in Nat \ {0} /\ first <= last
      BY <1>14, <2>3
    <2>5. \A c \in Nat : Covers(table[q], j, c) <=> c \in first..last
      BY <1>14, <2>3 DEF Covers
    <2> QED BY <2>4, <2>5
  <1>16. \A m \in q..b : \A c \in first..last : c \in DOMAIN g[m] /\ g[m][c] = x
    <2> TAKE m \in q..b
    <2> TAKE c \in first..last
    <2>1. c \in Nat /\ Covers(table[q], j, c)
      BY <1>15
    <2>2. Covers(table[b], k, c)
      BY <1>13, <2>1 DEF Own, Covers
    <2> QED BY <1>6, <1>13, <2>1, <2>2 DEF Own
  <1>17. Places(g, x) = Cells(q, first, b, last)
    <2>1. ASSUME NEW p, p \in Places(g, x) PROVE p \in Cells(q, first, b, last)
      <3>1. p = <<p[1], p[2]>> /\ p[1] \in 1..size /\ p[2] \in DOMAIN g[p[1]] /\ g[p[1]][p[2]] = x
        BY <1>2, <2>1, PlacesAre
      <3>2. q <= p[1] /\ p[2] \in Nat /\ Covers(table[q], j, p[2])
        BY <1>7, <3>1
      <3>3. p[1] \in R
        BY <3>1 DEF Range
      <3>4. p[1] \in q..b /\ p[2] \in first..last
        BY <1>9, <1>15, <3>1, <3>2, <3>3
      <3> QED BY <3>1, <3>4 DEF Cells
    <2>2. ASSUME NEW p, p \in Cells(q, first, b, last) PROVE p \in Places(g, x)
      <3>1. p = <<p[1], p[2]>> /\ p[1] \in q..b /\ p[2] \in first..last
        BY <2>2 DEF Cells
      <3>2. p[1] \in 1..size
        BY <1>11, <3>1
      <3>3. p[2] \in DOMAIN g[p[1]] /\ g[p[1]][p[2]] = x
        BY <1>16, <3>1
      <3>4. p[1] \in DOMAIN g
        BY <1>2, <3>2
      <3> QED BY <3>1, <3>3, <3>4, PlacesAre
    <2> QED BY <2>1, <2>2
  <1>18. IsBlock(Places(g, x), q, first, b, last)
    <2>1. q \in Nat \ {0} /\ b \in Nat \ {0}
      BY <1>11
    <2> QED BY <1>12, <1>15, <1>17, <2>1 DEF IsBlock
  <1>19. SourceCell(table, x) \in WordCell
    <2>1. SourceCell(table, x) = table[q][j]
      BY <1>6 DEF SourceCell
    <2>2. table[q] \in Seq(WordCell)
      BY <1>2
    <2> QED BY <2>1, <2>2, ElementOfSeq
  <1>20. first \in Nat /\ last \in Nat /\ q \in Nat /\ b \in Nat
    BY <1>11, <1>15
  <1> QED BY <1>18, <1>19, <1>20

\* The first place of a cell and the last row and column of one.
Bounds(g, x, t, l, b, e) ==
    /\ FirstPlace(g, x) = <<t, l>>
    /\ Max({p[1] : p \in Places(g, x)}) = b /\ Max({p[2] : p \in Places(g, x)}) = e

LEMMA FirstOfBlock ==
    ASSUME NEW g, NEW x, NEW t, NEW l, NEW b, NEW e, IsBlock(Places(g, x), t, l, b, e)
    PROVE  Bounds(g, x, t, l, b, e)
  <1>1. {t, l, b, e} \subseteq Nat \ {0} /\ t <= b /\ l <= e
    BY DEF IsBlock
  <1>2. \A p : p \in Places(g, x) <=> p = <<p[1], p[2]>> /\ p[1] \in t..b /\ p[2] \in l..e
    BY DEF IsBlock, Cells
  <1>3. <<t, l>> \in Places(g, x)
    BY <1>1, <1>2
  <1>4. FirstPlace(g, x) = <<t, l>>
    <2> DEFINE IsFirst(p) == \A q \in Places(g, x) : p[1] < q[1] \/ (p[1] = q[1] /\ p[2] <= q[2])
    <2>1. IsFirst(<<t, l>>)
      BY <1>1, <1>2
    <2>2. \A p \in Places(g, x) : IsFirst(p) => p = <<t, l>>
      <3> TAKE p \in Places(g, x)
      <3> HAVE IsFirst(p)
      <3>1. p = <<p[1], p[2]>> /\ p[1] \in t..b /\ p[2] \in l..e
        BY <1>2
      <3>2. p[1] < t \/ (p[1] = t /\ p[2] <= l)
        BY <1>3
      <3>3. p[1] = t /\ p[2] = l
        BY <1>1, <3>1, <3>2
      <3> QED BY <3>1, <3>3
    <2>3. FirstPlace(g, x) = CHOOSE p \in Places(g, x) : IsFirst(p)
      BY DEF FirstPlace
    <2> HIDE DEF IsFirst
    <2> QED BY <1>3, <2>1, <2>2, <2>3
  <1>5. {p[1] : p \in Places(g, x)} = t..b
    <2>1. ASSUME NEW m \in t..b PROVE m \in {p[1] : p \in Places(g, x)}
      <3>1. <<m, l>> \in Places(g, x) /\ <<m, l>>[1] = m
        BY <1>1, <1>2
      <3> QED BY <3>1
    <2> QED BY <1>2, <2>1
  <1>6. {p[2] : p \in Places(g, x)} = l..e
    <2>1. ASSUME NEW m \in l..e PROVE m \in {p[2] : p \in Places(g, x)}
      <3>1. <<t, m>> \in Places(g, x) /\ <<t, m>>[2] = m
        BY <1>1, <1>2
      <3> QED BY <3>1
    <2> QED BY <1>2, <2>1
  <1>7. ASSUME NEW u \in Nat, NEW v \in Nat, u <= v PROVE Max(u..v) = v
    <2>0. IsFiniteSet(u..v)
      BY FS_Interval
    <2>1. u..v # {} /\ u..v \in SUBSET Nat /\ v \in u..v
      BY <1>7
    <2>2. PICK T : T = u..v /\ IsFiniteSet(T)
      BY <2>0
    <2>3. Max(T) \in T /\ \A y \in T : y <= Max(T)
      BY <2>1, <2>2, LargestExists
    <2> QED BY <2>1, <2>2, <2>3
  <1>8. Max(t..b) = b /\ Max(l..e) = e
    BY <1>1, <1>7
  <1> QED BY <1>4, <1>5, <1>6, <1>8 DEF Bounds

-----------------------------------------------------------------------------
(* Flattened sequences                                                         *)

\* An element of a flattened sequence is one of its parts' at one place there, and no
\* two are at the same one.
IsFrom(from, f, s, n) ==
    /\ \A i \in DOMAIN f : /\ from[i][1] \in 1..n /\ from[i][2] \in DOMAIN s[from[i][1]]
                           /\ f[i] = s[from[i][1]][from[i][2]]
    /\ \A i, j \in DOMAIN f : from[i][1] = from[j][1] /\ from[i][2] = from[j][2] => i = j
IsFlat(f, s) == \E from : IsFrom(from, f, s, Len(s))
Flattened(f, S, s, n) == f \in Seq(S) /\ \E from : IsFrom(from, f, s, n)

FlatTo(n, f, s) == f = [i \in 1..n |-> IF i = 1 THEN s[i] ELSE f[i - 1] \o s[i]]

LEMMA FlatExists ==
    ASSUME NEW s, NEW n \in Nat
    PROVE  \E f : FlatTo(n, f, s)
  <1> DEFINE T == {m \in Nat : \E f : FlatTo(m, f, s)}
  <1>1. 0 \in T
    <2>1. FlatTo(0, [i \in 1..0 |-> 0], s)
      BY DEF FlatTo
    <2> QED BY <2>1
  <1>2. ASSUME NEW m \in Nat, m \in T PROVE m + 1 \in T
    <2>1. PICK f : FlatTo(m, f, s)
      BY <1>2
    <2>2. DOMAIN f = 1..m /\ \A i \in 1..m : f[i] = IF i = 1 THEN s[i] ELSE f[i - 1] \o s[i]
      BY <2>1 DEF FlatTo
    <2>3. PICK new : new = IF m + 1 = 1 THEN s[m + 1] ELSE f[m] \o s[m + 1]
      OBVIOUS
    <2> DEFINE g == [i \in 1..m + 1 |-> IF i = m + 1 THEN new ELSE f[i]]
    <2>4. \A i \in 1..m : g[i] = f[i]
      OBVIOUS
    <2>5. g[m + 1] = new /\ g = [i \in 1..m + 1 |-> g[i]]
      OBVIOUS
    <2> HIDE DEF g
    <2>6. \A i \in 1..m + 1 : g[i] = IF i = 1 THEN s[i] ELSE g[i - 1] \o s[i]
      <3> TAKE i \in 1..m + 1
      <3>1. CASE i = m + 1
        <4>1. i # 1 => i - 1 \in 1..m /\ i - 1 = m
          BY <3>1
        <4>2. i # 1 => g[i - 1] = f[m]
          BY <2>4, <4>1
        <4> QED BY <2>3, <2>5, <3>1, <4>2
      <3>2. CASE i # m + 1
        <4>1. i \in 1..m /\ (i # 1 => i - 1 \in 1..m)
          BY <3>2
        <4> QED BY <2>2, <2>4, <4>1
      <3> QED BY <3>1, <3>2
    <2>7. FlatTo(m + 1, g, s)
      BY <2>5, <2>6 DEF FlatTo
    <2> QED BY <2>7
  <1>3. Nat \subseteq T
    <2> HIDE DEF T
    <2> QED BY <1>1, <1>2, AllNumbers
  <1> QED BY <1>3

LEMMA FlattenIs ==
    ASSUME NEW s, Len(s) \in Nat \ {0}
    PROVE  \E f : FlatTo(Len(s), f, s) /\ FlattenSeq(s) = f[Len(s)]
  <1> DEFINE IsIt(f) == f = [i \in 1..Len(s) |-> IF i = 1 THEN s[i] ELSE f[i - 1] \o s[i]]
             it == CHOOSE f : IsIt(f)
  <1>1. FlattenSeq(s) = it[Len(s)]
    BY DEF FlattenSeq
  <1>2. \E f : IsIt(f)
    BY FlatExists DEF FlatTo
  <1>3. IsIt(it)
    <2> HIDE DEF IsIt
    <2> QED BY <1>2
  <1>4. FlatTo(Len(s), it, s)
    BY <1>3 DEF FlatTo
  <1> HIDE DEF it
  <1> QED BY <1>1, <1>4

LEMMA FlattenIsFlat ==
    ASSUME NEW S, NEW s \in Seq(Seq(S))
    PROVE  FlattenSeq(s) \in Seq(S) /\ IsFlat(FlattenSeq(s), s)
  <1>1. Len(s) \in Nat /\ DOMAIN s = 1..Len(s) /\ \A i \in 1..Len(s) : s[i] \in Seq(S)
    BY LenProperties, ElementOfSeq
  <1>2. CASE Len(s) = 0
    <2>1. s = <<>>
      BY <1>2, EmptySeq
    <2>2. FlattenSeq(s) = <<>>
      BY <1>2, <2>1 DEF FlattenSeq
    <2>3. IsFlat(<<>>, s)
      BY DEF IsFlat, IsFrom
    <2> QED BY <2>2, <2>3
  <1>3. CASE Len(s) # 0
    <2>1. PICK size \in Nat : size = Len(s) /\ size # 0
      BY <1>1, <1>3
    <2>2. PICK f : FlatTo(size, f, s) /\ FlattenSeq(s) = f[size]
      BY <1>1, <2>1, FlattenIs
    <2>3. \A i \in 1..size : f[i] = IF i = 1 THEN s[i] ELSE f[i - 1] \o s[i]
      BY <2>2 DEF FlatTo
    <2> DEFINE T == {n \in Nat : n \in 1..size => Flattened(f[n], S, s, n)}
    <2>4. 0 \in T
      OBVIOUS
    <2>5. ASSUME NEW n \in Nat, n \in T PROVE n + 1 \in T
      <3>1. PICK m : m = n + 1
        OBVIOUS
      <3> SUFFICES ASSUME m \in 1..size PROVE Flattened(f[m], S, s, m)
        BY <3>1
      <3>2. s[m] \in Seq(S)
        BY <1>1, <2>1
      <3>3. PICK new : new = s[m]
        OBVIOUS
      <3>4. new \in Seq(S) /\ Len(new) \in Nat /\ DOMAIN new = 1..Len(new)
        BY <3>2, <3>3, LenProperties
      <3>5. CASE n = 0
        <4>1. m = 1 /\ f[m] = new
          BY <2>3, <3>1, <3>3, <3>5
        <4> DEFINE from == [i \in DOMAIN new |-> <<1, i>>]
        <4>2. IsFrom(from, new, s, m)
          BY <3>3, <4>1 DEF IsFrom
        <4> HIDE DEF from
        <4> QED BY <3>4, <4>1, <4>2 DEF Flattened
      <3>6. CASE n # 0
        <4>1. n \in 1..size /\ m # 1 /\ m - 1 = n
          BY <3>1, <3>6
        <4>2. PICK old : old = f[n]
          OBVIOUS
        <4>3. f[m] = old \o new
          BY <2>3, <3>3, <4>1, <4>2
        <4>4. old \in Seq(S) /\ \E from : IsFrom(from, old, s, n)
          BY <2>5, <4>1, <4>2 DEF Flattened
        <4>5. PICK from : IsFrom(from, old, s, n)
          BY <4>4
        <4>6. PICK l \in Nat : l = Len(old) /\ DOMAIN old = 1..l
          BY <4>4, LenProperties
        <4>7. PICK k \in Nat : k = Len(new) /\ DOMAIN new = 1..k
          BY <3>4
        <4>8. PICK all : all = old \o new
          OBVIOUS
        <4>9. /\ all \in Seq(S) /\ DOMAIN all = 1..l + k
              /\ \A i \in 1..l + k : all[i] = IF i <= l THEN old[i] ELSE new[i - l]
          <5>1. all \in Seq(S) /\ Len(all) = l + k
            BY <3>4, <4>4, <4>6, <4>7, <4>8, ConcatProperties
          <5>2. \A i \in 1..l + k : all[i] = IF i <= l THEN old[i] ELSE new[i - l]
            BY <3>4, <4>4, <4>6, <4>7, <4>8, ConcatProperties
          <5> QED BY <5>1, <5>2, LenProperties
        <4> DEFINE at == [i \in 1..l + k |-> IF i <= l THEN from[i] ELSE <<m, i - l>>]
        <4>10. \A i \in 1..l + k : \/ i \in 1..l /\ at[i] = from[i]
                                   \/ i - l \in 1..k /\ i > l /\ at[i] = <<m, i - l>>
          OBVIOUS
        <4> HIDE DEF at
        <4>11. \A i \in 1..l + k : /\ at[i][1] \in 1..m /\ at[i][2] \in DOMAIN s[at[i][1]]
                                   /\ all[i] = s[at[i][1]][at[i][2]]
          <5> TAKE i \in 1..l + k
          <5>1. CASE i \in 1..l /\ at[i] = from[i]
            <6>1. from[i][1] \in 1..n /\ from[i][2] \in DOMAIN s[from[i][1]] /\ old[i] = s[from[i][1]][from[i][2]]
              BY <4>5, <4>6, <5>1 DEF IsFrom
            <6>2. all[i] = old[i]
              BY <4>9, <5>1
            <6>3. from[i][1] \in 1..m
              BY <3>1, <6>1
            <6> QED BY <5>1, <6>1, <6>2, <6>3
          <5>2. CASE i - l \in 1..k /\ i > l /\ at[i] = <<m, i - l>>
            <6>1. at[i][1] = m /\ at[i][2] = i - l /\ all[i] = new[i - l]
              BY <4>9, <5>2
            <6> QED BY <3>1, <3>3, <4>7, <5>2, <6>1
          <5> QED BY <4>10, <5>1, <5>2
        <4>12. \A i, j \in 1..l + k : at[i][1] = at[j][1] /\ at[i][2] = at[j][2] => i = j
          <5> TAKE i, j \in 1..l + k
          <5> HAVE at[i][1] = at[j][1] /\ at[i][2] = at[j][2]
          <5>1. \A h \in 1..l : from[h][1] \in 1..n /\ from[h][1] # m
            BY <3>1, <4>5, <4>6 DEF IsFrom
          <5>2. CASE i \in 1..l /\ at[i] = from[i]
            <6>1. at[j][1] # m
              BY <5>1, <5>2
            <6>2. at[j] # <<m, j - l>>
              BY <6>1
            <6>3. j \in 1..l /\ at[j] = from[j]
              BY <4>10, <6>2
            <6> QED BY <4>5, <4>6, <5>2, <6>3 DEF IsFrom
          <5>3. CASE i - l \in 1..k /\ i > l /\ at[i] = <<m, i - l>>
            <6>1. at[i][1] = m /\ at[i][2] = i - l
              BY <5>3
            <6>2. ~(j \in 1..l /\ at[j] = from[j])
              BY <5>1, <6>1
            <6>3. at[j] = <<m, j - l>>
              BY <4>10, <6>2
            <6>4. at[j][2] = j - l
              BY <6>3
            <6>5. i - l = j - l
              BY <6>1, <6>4
            <6> QED BY <6>5
          <5> QED BY <4>10, <5>2, <5>3
        <4>13. IsFrom(at, all, s, m)
          BY <4>9, <4>11, <4>12 DEF IsFrom
        <4> QED BY <4>3, <4>8, <4>9, <4>13 DEF Flattened
      <3> QED BY <3>5, <3>6
    <2>6. Nat \subseteq T
      <3> HIDE DEF T
      <3> QED BY <2>4, <2>5, AllNumbers
    <2>7. Flattened(f[size], S, s, size)
      BY <2>1, <2>6
    <2> QED BY <2>1, <2>2, <2>7 DEF IsFlat, Flattened
  <1> QED BY <1>2, <1>3

-----------------------------------------------------------------------------
(* The tables in a table                                                       *)

TodoEntry == [table : Tables, path : Seq(Nat), cell : Nat \X Nat]

LEMMA LongerPaths ==
    ASSUME NEW path \in Seq(Nat), NEW r \in Nat, NEW c \in Nat, NEW n \in Nat
    PROVE  /\ path \o <<r, c, n>> \in Seq(Nat) /\ Len(path \o <<r, c, n>>) = Len(path) + 3
           /\ (path \o <<r, c, n>>)[Len(path) + 1] = r
           /\ (path \o <<r, c, n>>)[Len(path) + 2] = c
           /\ (path \o <<r, c, n>>)[Len(path) + 3] = n
           /\ \A i \in 1..Len(path) : (path \o <<r, c, n>>)[i] = path[i]
  <1>1. Len(path) \in Nat /\ DOMAIN path = 1..Len(path)
    BY LenProperties
  <1>2. <<r, c, n>> \in Seq(Nat) /\ Len(<<r, c, n>>) = 3
    OBVIOUS
  <1> QED BY <1>1, <1>2

LEMMA CellPaths ==
    ASSUME NEW path \in Seq(Nat), NEW r \in Nat, NEW c \in Nat
    PROVE  /\ path \o <<r, c>> \in Seq(Nat) /\ Len(path \o <<r, c>>) = Len(path) + 2
           /\ (path \o <<r, c>>)[Len(path) + 1] = r
           /\ (path \o <<r, c>>)[Len(path) + 2] = c
           /\ \A i \in 1..Len(path) : (path \o <<r, c>>)[i] = path[i]
  <1>1. Len(path) \in Nat /\ DOMAIN path = 1..Len(path)
    BY LenProperties
  <1>2. <<r, c>> \in Seq(Nat) /\ Len(<<r, c>>) = 2
    OBVIOUS
  <1> QED BY <1>1, <1>2

\* The tables in the cell at one place of a grid.
TablesAt(table, g, first, path, r, c) ==
    IF FirstPlace(g, g[r][c]) # <<r, c>> THEN <<>>
    ELSE LET inner == SourceCell(table, g[r][c]).tables
         IN  [n \in DOMAIN inner |->
                [table |-> inner[n], path |-> path \o <<r, c, n>>, cell |-> <<first + r - 1, c>>]]

\* An entry for a table in the cell whose first place is this one; entries of the
\* tables of a place, of a row and of a grid, each with a path of its own.
InPlace(entry, g, first, path, r, c, n) ==
    /\ FirstPlace(g, g[r][c]) = <<r, c>> /\ n \in Nat
    /\ entry.path = path \o <<r, c, n>> /\ entry.cell = <<first + r - 1, c>>

AreAt(s, g, first, path, r, c) ==
    s \in Seq(TodoEntry) /\ \A n \in DOMAIN s : InPlace(s[n], g, first, path, r, c, n)
AreOfRow(s, g, first, path, r) ==
    /\ s \in Seq(TodoEntry)
    /\ \A i \in DOMAIN s : \E c \in DOMAIN g[r] : \E n : InPlace(s[i], g, first, path, r, c, n)
    /\ \A i, j \in DOMAIN s : s[i].path = s[j].path => i = j
AreNested(s, g, first, path) ==
    /\ s \in Seq(TodoEntry)
    /\ \A i \in DOMAIN s : \E r \in DOMAIN g : \E c \in DOMAIN g[r] : \E n : InPlace(s[i], g, first, path, r, c, n)
    /\ \A i, j \in DOMAIN s : s[i].path = s[j].path => i = j

LEMMA TablesAtAre ==
    ASSUME NEW table \in Tables, NEW g, IsGridTo(Len(table), g, table), NEW first \in Nat \ {0},
           NEW path \in Seq(Nat), NEW r \in DOMAIN g, NEW c \in DOMAIN g[r],
           NEW s, s = TablesAt(table, g, first, path, r, c)
    PROVE  AreAt(s, g, first, path, r, c)
  <1>1. r \in Nat \ {0} /\ r \in 1..Len(table) /\ c \in Nat
    <2>1. DOMAIN g = 1..Len(table) /\ Len(table) \in Nat
      BY TablesAreTables DEF IsGridTo
    <2>2. DOMAIN g[r] = 1..Width(table[r]) /\ Width(table[r]) \in Nat
      BY <2>1, RowOfGrid
    <2> QED BY <2>1, <2>2
  <1>2. CASE FirstPlace(g, g[r][c]) # <<r, c>>
    <2>1. s = <<>>
      BY <1>2 DEF TablesAt
    <2> QED BY <2>1 DEF AreAt
  <1>3. CASE FirstPlace(g, g[r][c]) = <<r, c>>
    <2>1. PICK inner : inner = SourceCell(table, g[r][c]).tables
      OBVIOUS
    <2>2. inner \in Seq(Tables)
      <3>1. g[r][c] \in CellsIn(g)
        BY DEF CellsIn, Range
      <3>2. SourceCell(table, g[r][c]) \in WordCell
        BY <3>1, CellsAreBlocks
      <3> QED BY <2>1, <3>2 DEF WordCell
    <2>3. PICK size \in Nat : size = Len(inner) /\ DOMAIN inner = 1..size /\ \A n \in 1..size : inner[n] \in Tables
      BY <2>2, LenProperties, ElementOfSeq
    <2>4. s = [n \in 1..size |->
                 [table |-> inner[n], path |-> path \o <<r, c, n>>, cell |-> <<first + r - 1, c>>]]
      BY <1>3, <2>1, <2>3 DEF TablesAt
    <2>5. \A n \in 1..size : path \o <<r, c, n>> \in Seq(Nat)
      BY <1>1, LongerPaths
    <2>6. <<first + r - 1, c>> \in Nat \X Nat
      BY <1>1
    <2>7. \A n \in 1..size : s[n] \in TodoEntry
      BY <2>3, <2>4, <2>5, <2>6 DEF TodoEntry
    <2>8. s \in [1..size -> TodoEntry]
      BY <2>4, <2>7
    <2>9. s \in Seq(TodoEntry) /\ DOMAIN s = 1..size
      BY <2>8
    <2>10. \A n \in 1..size : n \in Nat /\ s[n].path = path \o <<r, c, n>> /\ s[n].cell = <<first + r - 1, c>>
      <3> TAKE n \in 1..size
      <3>1. s[n] = [table |-> inner[n], path |-> path \o <<r, c, n>>, cell |-> <<first + r - 1, c>>]
        BY <2>4
      <3> QED BY <3>1
    <2> QED BY <1>3, <2>9, <2>10 DEF AreAt, InPlace
  <1> QED BY <1>2, <1>3

TablesOfRow(table, g, first, path, r) ==
    FlattenSeq([c \in DOMAIN g[r] |-> TablesAt(table, g, first, path, r, c)])

\* An entry of a row of the grid, and the column and the number its path ends in.
LEMMA TablesOfRowAre ==
    ASSUME NEW table \in Tables, NEW g, IsGridTo(Len(table), g, table), NEW first \in Nat \ {0},
           NEW path \in Seq(Nat), NEW r \in DOMAIN g,
           NEW s, s = TablesOfRow(table, g, first, path, r)
    PROVE  AreOfRow(s, g, first, path, r)
  <1>1. PICK width \in Nat : DOMAIN g[r] = 1..width
    <2>1. DOMAIN g = 1..Len(table)
      BY DEF IsGridTo
    <2> QED BY <2>1, RowOfGrid
  <1>2. r \in Nat
    <2>1. DOMAIN g = 1..Len(table) /\ Len(table) \in Nat
      BY TablesAreTables DEF IsGridTo
    <2> QED BY <2>1
  <1>3. PICK parts : parts = [c \in 1..width |-> TablesAt(table, g, first, path, r, c)]
    OBVIOUS
  <1>4. \A c \in 1..width : AreAt(parts[c], g, first, path, r, c)
    <2> TAKE c \in 1..width
    <2>1. parts[c] = TablesAt(table, g, first, path, r, c) /\ c \in DOMAIN g[r]
      BY <1>1, <1>3
    <2> QED BY <2>1, TablesAtAre
  <1>5. parts \in Seq(Seq(TodoEntry)) /\ Len(parts) = width
    <2>1. parts \in [1..width -> Seq(TodoEntry)]
      BY <1>3, <1>4 DEF AreAt
    <2> QED BY <2>1
  <1>6. s = FlattenSeq(parts)
    BY <1>1, <1>3 DEF TablesOfRow
  <1>7. s \in Seq(TodoEntry) /\ IsFlat(s, parts)
    BY <1>5, <1>6, FlattenIsFlat
  <1>8. PICK from : IsFrom(from, s, parts, width)
    BY <1>5, <1>7 DEF IsFlat
  <1>9. ASSUME NEW i \in DOMAIN s
        PROVE  from[i][1] \in 1..width /\ InPlace(s[i], g, first, path, r, from[i][1], from[i][2])
    <2>1. PICK c, n : c = from[i][1] /\ n = from[i][2]
      OBVIOUS
    <2>2. c \in 1..width /\ n \in DOMAIN parts[c] /\ s[i] = parts[c][n]
      BY <1>8, <2>1 DEF IsFrom
    <2>3. InPlace(parts[c][n], g, first, path, r, c, n)
      BY <1>4, <2>2 DEF AreAt
    <2> QED BY <2>1, <2>2, <2>3
  <1>10. \A i, j \in DOMAIN s : s[i].path = s[j].path => i = j
    <2> TAKE i, j \in DOMAIN s
    <2> HAVE s[i].path = s[j].path
    <2>1. PICK a, x : a = from[i][1] /\ x = from[i][2]
      OBVIOUS
    <2>2. PICK b, y : b = from[j][1] /\ y = from[j][2]
      OBVIOUS
    <2>5. a \in Nat /\ x \in Nat /\ s[i].path = path \o <<r, a, x>>
      <3>1. a \in 1..width /\ InPlace(s[i], g, first, path, r, a, x)
        BY <1>9, <2>1
      <3>2. a \in Nat
        BY <3>1
      <3> QED BY <3>1, <3>2 DEF InPlace
    <2>6. b \in Nat /\ y \in Nat /\ s[j].path = path \o <<r, b, y>>
      <3>1. b \in 1..width /\ InPlace(s[j], g, first, path, r, b, y)
        BY <1>9, <2>2
      <3>2. b \in Nat
        BY <3>1
      <3> QED BY <3>1, <3>2 DEF InPlace
    <2>3. /\ (path \o <<r, a, x>>)[Len(path) + 2] = a /\ (path \o <<r, a, x>>)[Len(path) + 3] = x
          /\ (path \o <<r, b, y>>)[Len(path) + 2] = b /\ (path \o <<r, b, y>>)[Len(path) + 3] = y
      BY <1>2, <2>5, <2>6, LongerPaths
    <2>4. a = b /\ x = y
      BY <2>3, <2>5, <2>6
    <2> QED BY <1>8, <2>1, <2>2, <2>4 DEF IsFrom
  <1>11. \A i \in DOMAIN s : \E c \in DOMAIN g[r] : \E n : InPlace(s[i], g, first, path, r, c, n)
    BY <1>1, <1>9
  <1> QED BY <1>7, <1>10, <1>11 DEF AreOfRow

LEMMA NestedAre ==
    ASSUME NEW table \in Tables, NEW g, IsGridTo(Len(table), g, table), NEW first \in Nat \ {0},
           NEW path \in Seq(Nat), NEW s, s = NestedTables(table, g, first, path)
    PROVE  AreNested(s, g, first, path)
  <1>1. PICK size \in Nat : size = Len(table) /\ DOMAIN g = 1..size
    BY TablesAreTables DEF IsGridTo
  <1>2. \A r \in 1..size : \A c \in DOMAIN g[r] : c \in Nat
    BY <1>1, RowOfGrid
  <1>3. PICK parts : parts = [r \in 1..size |-> TablesOfRow(table, g, first, path, r)]
    OBVIOUS
  <1>4. \A r \in 1..size : AreOfRow(parts[r], g, first, path, r)
    <2> TAKE r \in 1..size
    <2>1. parts[r] = TablesOfRow(table, g, first, path, r) /\ r \in DOMAIN g
      BY <1>1, <1>3
    <2> QED BY <2>1, TablesOfRowAre
  <1>5. parts \in Seq(Seq(TodoEntry)) /\ Len(parts) = size
    <2>1. parts \in [1..size -> Seq(TodoEntry)]
      BY <1>3, <1>4 DEF AreOfRow
    <2> QED BY <2>1
  <1>6. s = FlattenSeq(parts)
    BY <1>1, <1>3 DEF NestedTables, TablesOfRow, TablesAt
  <1>7. s \in Seq(TodoEntry) /\ IsFlat(s, parts)
    BY <1>5, <1>6, FlattenIsFlat
  <1>8. PICK from : IsFrom(from, s, parts, size)
    BY <1>5, <1>7 DEF IsFlat
  <1>9. ASSUME NEW i \in DOMAIN s
        PROVE  /\ from[i][1] \in 1..size /\ from[i][2] \in DOMAIN parts[from[i][1]]
               /\ s[i] = parts[from[i][1]][from[i][2]]
               /\ \E c \in DOMAIN g[from[i][1]] : \E n : InPlace(s[i], g, first, path, from[i][1], c, n)
    <2>1. PICK r, k : r = from[i][1] /\ k = from[i][2]
      OBVIOUS
    <2>2. r \in 1..size /\ k \in DOMAIN parts[r] /\ s[i] = parts[r][k]
      BY <1>8, <2>1 DEF IsFrom
    <2>3. \E c \in DOMAIN g[r] : \E n : InPlace(parts[r][k], g, first, path, r, c, n)
      BY <1>4, <2>2 DEF AreOfRow
    <2> QED BY <2>1, <2>2, <2>3
  <1>10. \A i, j \in DOMAIN s : s[i].path = s[j].path => i = j
    <2> TAKE i, j \in DOMAIN s
    <2> HAVE s[i].path = s[j].path
    <2>1. PICK a, k : a = from[i][1] /\ k = from[i][2]
      OBVIOUS
    <2>2. PICK b, l : b = from[j][1] /\ l = from[j][2]
      OBVIOUS
    <2>3. /\ a \in 1..size /\ k \in DOMAIN parts[a] /\ s[i] = parts[a][k]
          /\ \E c \in DOMAIN g[a] : \E n : InPlace(s[i], g, first, path, a, c, n)
      BY <1>9, <2>1
    <2>4. /\ b \in 1..size /\ l \in DOMAIN parts[b] /\ s[j] = parts[b][l]
          /\ \E d \in DOMAIN g[b] : \E m : InPlace(s[j], g, first, path, b, d, m)
      BY <1>9, <2>2
    <2>5. PICK c, n : c \in DOMAIN g[a] /\ n \in Nat /\ s[i].path = path \o <<a, c, n>>
      BY <2>3 DEF InPlace
    <2>6. PICK d, m : d \in DOMAIN g[b] /\ m \in Nat /\ s[j].path = path \o <<b, d, m>>
      BY <2>4 DEF InPlace
    <2>7. a \in Nat /\ b \in Nat /\ c \in Nat /\ d \in Nat
      BY <1>2, <2>3, <2>4, <2>5, <2>6
    <2>8. (path \o <<a, c, n>>)[Len(path) + 1] = a /\ (path \o <<b, d, m>>)[Len(path) + 1] = b
      BY <2>5, <2>6, <2>7, LongerPaths
    <2>9. a = b
      BY <2>5, <2>6, <2>8
    <2>10. k = l
      <3>1. AreOfRow(parts[a], g, first, path, a)
        BY <1>4, <2>3
      <3> QED BY <2>3, <2>4, <2>9, <3>1 DEF AreOfRow
    <2> QED BY <1>8, <2>1, <2>2, <2>9, <2>10 DEF IsFrom
  <1>11. \A i \in DOMAIN s : \E r \in DOMAIN g : \E c \in DOMAIN g[r] : \E n : InPlace(s[i], g, first, path, r, c, n)
    BY <1>1, <1>9
  <1> QED BY <1>7, <1>10, <1>11 DEF AreNested

-----------------------------------------------------------------------------
(* Rows and what they say                                                      *)

IsRows(rs) == rs \in Seq(Seq(Seq(Nat)))
Says(rs, p) == rs[p[1]][p[2]]
Written(rs) ==
    {p \in Nat \X Nat : p[1] \in DOMAIN rs /\ p[2] \in DOMAIN rs[p[1]] /\ rs[p[1]][p[2]] # Blank}

\* The rows of rs are the first of the others.
Kept(rs, more) ==
    IsRows(rs) /\ IsRows(more) /\ Len(rs) <= Len(more) /\ \A r \in DOMAIN rs : more[r] = rs[r]

LEMMA RowsAre ==
    ASSUME NEW rs, IsRows(rs)
    PROVE  /\ Len(rs) \in Nat /\ DOMAIN rs = 1..Len(rs)
           /\ \A r \in DOMAIN rs : /\ rs[r] \in Seq(Seq(Nat)) /\ Len(rs[r]) \in Nat /\ DOMAIN rs[r] = 1..Len(rs[r])
                                   /\ \A c \in DOMAIN rs[r] : rs[r][c] \in Seq(Nat)
  <1>1. Len(rs) \in Nat /\ DOMAIN rs = 1..Len(rs) /\ \A r \in 1..Len(rs) : rs[r] \in Seq(Seq(Nat))
    BY LenProperties, ElementOfSeq DEF IsRows
  <1>2. ASSUME NEW r \in DOMAIN rs
        PROVE  /\ rs[r] \in Seq(Seq(Nat)) /\ Len(rs[r]) \in Nat /\ DOMAIN rs[r] = 1..Len(rs[r])
               /\ \A c \in DOMAIN rs[r] : rs[r][c] \in Seq(Nat)
    <2>1. PICK row : row = rs[r] /\ row \in Seq(Seq(Nat))
      BY <1>1
    <2>2. Len(row) \in Nat /\ DOMAIN row = 1..Len(row) /\ \A c \in 1..Len(row) : row[c] \in Seq(Nat)
      BY <2>1, LenProperties, ElementOfSeq
    <2> QED BY <2>1, <2>2
  <1> QED BY <1>1, <1>2

LEMMA WrittenIs ==
    ASSUME NEW rs, IsRows(rs), NEW p \in Written(rs)
    PROVE  /\ p = <<p[1], p[2]>> /\ p[1] \in 1..Len(rs) /\ p[1] \in DOMAIN rs /\ p[2] \in 1..Len(rs[p[1]])
           /\ p[2] \in DOMAIN rs[p[1]] /\ p \in Nat \X Nat
           /\ Says(rs, p) \in Seq(Nat) /\ Says(rs, p) # Blank /\ Len(Says(rs, p)) \in Nat \ {0}
  <1>1. p \in Nat \X Nat /\ p[1] \in DOMAIN rs /\ p[2] \in DOMAIN rs[p[1]] /\ rs[p[1]][p[2]] # Blank
    BY DEF Written
  <1>2. p[1] \in 1..Len(rs) /\ p[2] \in 1..Len(rs[p[1]]) /\ rs[p[1]][p[2]] \in Seq(Nat)
    BY <1>1, RowsAre
  <1>3. PICK t : t = rs[p[1]][p[2]] /\ t \in Seq(Nat) /\ t # Blank
    BY <1>1, <1>2
  <1>4. Len(t) \in Nat /\ Len(t) # 0
    BY <1>3, LenProperties, EmptySeq DEF Blank
  <1> QED BY <1>1, <1>2, <1>3, <1>4 DEF Says

LEMMA KeptRows ==
    ASSUME NEW rs, NEW more, Kept(rs, more)
    PROVE  /\ \A p \in Written(rs) : p \in Written(more) /\ Says(more, p) = Says(rs, p)
           /\ \A p \in Written(more) : p[1] <= Len(rs) => p \in Written(rs)
  <1>1. IsRows(rs) /\ IsRows(more) /\ \A r \in DOMAIN rs : more[r] = rs[r]
    BY DEF Kept
  <1>2. DOMAIN rs \subseteq DOMAIN more /\ DOMAIN rs = 1..Len(rs)
    <2>1. Len(rs) \in Nat /\ Len(more) \in Nat /\ DOMAIN rs = 1..Len(rs) /\ DOMAIN more = 1..Len(more)
      BY <1>1, RowsAre
    <2>2. Len(rs) <= Len(more)
      BY DEF Kept
    <2> QED BY <2>1, <2>2
  <1>3. ASSUME NEW p \in Written(rs) PROVE p \in Written(more) /\ Says(more, p) = Says(rs, p)
    <2>1. more[p[1]] = rs[p[1]] /\ p[1] \in DOMAIN more
      BY <1>1, <1>2 DEF Written
    <2> QED BY <2>1 DEF Written, Says
  <1>4. ASSUME NEW p \in Written(more), p[1] <= Len(rs) PROVE p \in Written(rs)
    <2>1. p[1] \in 1..Len(more)
      BY <1>1, WrittenIs
    <2>2. p[1] \in DOMAIN rs
      BY <1>2, <1>4, <2>1
    <2>3. more[p[1]] = rs[p[1]]
      BY <1>1, <2>2
    <2> QED BY <2>2, <2>3 DEF Written
  <1> QED BY <1>3, <1>4

-----------------------------------------------------------------------------
(* Texts and paths                                                             *)

Extends(t, p) == Len(p) <= Len(t) /\ \A i \in 1..Len(p) : t[i] = p[i]
IsLabel(t, own) == Len(t) = Len(own) + 1 /\ Extends(t, own)
Apart(p, q) == ~Extends(p, q) /\ ~Extends(q, p)

LEMMA ExtendsOn ==
    ASSUME NEW t \in Seq(Nat), NEW p \in Seq(Nat), NEW q \in Seq(Nat), Extends(t, p)
    PROVE  /\ Extends(p, q) => Extends(t, q)
           /\ Extends(t, q) => Extends(p, q) \/ Extends(q, p)
           /\ Extends(q, t) => Extends(q, p)
           /\ Len(t) = Len(p) => t = p
  <1>1. PICK a \in Nat, b \in Nat, c \in Nat : a = Len(t) /\ b = Len(p) /\ c = Len(q)
    BY LenProperties
  <1>2. b <= a /\ \A i \in 1..b : t[i] = p[i]
    BY <1>1 DEF Extends
  <1>3. Extends(p, q) => Extends(t, q)
    BY <1>1, <1>2 DEF Extends
  <1>4. Extends(t, q) => Extends(p, q) \/ Extends(q, p)
    <2> HAVE Extends(t, q)
    <2>1. c <= a /\ \A i \in 1..c : t[i] = q[i]
      BY <1>1 DEF Extends
    <2>2. CASE c <= b
      <3>1. \A i \in 1..c : p[i] = q[i]
        BY <1>2, <2>1, <2>2
      <3> QED BY <1>1, <2>2, <3>1 DEF Extends
    <2>3. CASE b <= c
      <3>1. \A i \in 1..b : q[i] = p[i]
        BY <1>2, <2>1, <2>3
      <3> QED BY <1>1, <2>3, <3>1 DEF Extends
    <2> QED BY <2>2, <2>3
  <1>5. Extends(q, t) => Extends(q, p)
    BY <1>1, <1>2 DEF Extends
  <1>6. Len(t) = Len(p) => t = p
    BY <1>1, <1>2, SeqEqual
  <1> QED BY <1>3, <1>4, <1>5, <1>6

-----------------------------------------------------------------------------
(* What the rows, the links and the tables still to come say                   *)

Texts(rs, nx) ==
    /\ \A p \in Written(rs) : Says(rs, p)[1] < nx /\ Len(Says(rs, p)) % 3 # 2
    /\ \A p, q \in Written(rs) : Says(rs, p) = Says(rs, q) => p = q

\* A link leads to the label of a table of its cell; a cell in D for each label.
LinksLead(rs, ls) ==
    \A p \in DOMAIN ls : /\ p \in Written(rs) /\ <<ls[p], 1>> \in Written(rs)
                         /\ IsLabel(Says(rs, <<ls[p], 1>>), Says(rs, p))
LabelsLinked(rs, D) == \A p, q \in Written(rs) : IsLabel(Says(rs, p), Says(rs, q)) => q \in D

\* A path no row is below yet.
Free(rs, path) == \A p \in Written(rs) : Extends(Says(rs, p), path) => Says(rs, p) = path
Unsaid(rs, path) == \A p \in Written(rs) : ~Extends(Says(rs, p), path)

IsPath(path, nx) == path \in Seq(Nat) /\ Len(path) % 3 = 1 /\ path[1] < nx
Waits(rs, entry, nx) ==
    /\ entry \in TodoEntry /\ IsPath(entry.path, nx) /\ Unsaid(rs, entry.path)
    /\ entry.cell \in Written(rs) /\ IsLabel(entry.path, Says(rs, entry.cell))
Waiting(rs, td, nx) ==
    /\ td \in Seq(TodoEntry) /\ \A i \in DOMAIN td : Waits(rs, td[i], nx)
    /\ \A i, j \in DOMAIN td : i # j => Apart(td[i].path, td[j].path)
Beside(path, td) == \A i \in DOMAIN td : Apart(path, td[i].path)

\* Rows are added that say a label or the cells of a table, l = 0 or l = 2.
Grows(rs, more, path, l) ==
    /\ Kept(rs, more) /\ path \in Seq(Nat) /\ Len(path) % 3 = 1 /\ l \in {0, 2}
    /\ \A p \in Written(more) : p[1] > Len(rs) => /\ Extends(Says(more, p), path)
                                                  /\ Len(Says(more, p)) = Len(path) + l
    /\ \A p, q \in Written(more) :
         p[1] > Len(rs) /\ q[1] > Len(rs) /\ Says(more, p) = Says(more, q) => p = q
    /\ \A p \in Written(rs) : Extends(Says(rs, p), path) => l = 2 /\ Says(rs, p) = path

\* What is written is of the rows before, or new.
LEMMA AddedIs ==
    ASSUME NEW rs, NEW more, NEW path, NEW l, Grows(rs, more, path, l), NEW p \in Written(more)
    PROVE  /\ Says(more, p) \in Seq(Nat) /\ Len(Says(more, p)) \in Nat \ {0} /\ path \in Seq(Nat) /\ Len(path) \in Nat \ {0}
           /\ \/ p \in Written(rs) /\ Says(more, p) = Says(rs, p) /\ p[1] <= Len(rs)
              \/ p[1] > Len(rs) /\ Extends(Says(more, p), path) /\ Len(Says(more, p)) = Len(path) + l
  <1>1. IsRows(rs) /\ IsRows(more) /\ Kept(rs, more) /\ path \in Seq(Nat) /\ Len(path) % 3 = 1
    BY DEF Grows, Kept
  <1>2. Says(more, p) \in Seq(Nat) /\ Len(Says(more, p)) \in Nat \ {0}
    BY <1>1, WrittenIs
  <1>3. Len(path) \in Nat \ {0}
    <2>1. PICK n \in Nat : n = Len(path)
      BY <1>1, LenProperties
    <2> QED BY <1>1, <2>1
  <1>4. CASE p[1] <= Len(rs)
    <2>1. p \in Written(rs)
      BY <1>1, <1>4, KeptRows
    <2> QED BY <1>1, <1>2, <1>3, <1>4, <2>1, KeptRows
  <1>5. CASE p[1] > Len(rs)
    BY <1>1, <1>2, <1>3, <1>5 DEF Grows
  <1>6. p[1] \in Nat /\ Len(rs) \in Nat
    BY <1>1, WrittenIs, RowsAre
  <1> QED BY <1>4, <1>5, <1>6

LEMMA GrowsTexts ==
    ASSUME NEW rs, NEW more, NEW path, NEW l, Grows(rs, more, path, l),
           NEW nx \in Nat, Texts(rs, nx), path[1] < nx
    PROVE  Texts(more, nx)
  <1>1. ASSUME NEW p \in Written(more) PROVE Says(more, p)[1] < nx /\ Len(Says(more, p)) % 3 # 2
    <2>1. CASE p \in Written(rs) /\ Says(more, p) = Says(rs, p)
      BY <2>1 DEF Texts
    <2>2. CASE Extends(Says(more, p), path) /\ Len(Says(more, p)) = Len(path) + l
      <3>1. PICK n \in Nat \ {0} : n = Len(path) /\ n % 3 = 1 /\ l \in {0, 2}
        BY AddedIs DEF Grows
      <3>2. Says(more, p)[1] = path[1]
        BY <2>2, <3>1 DEF Extends
      <3>3. (n + l) % 3 # 2
        BY <3>1
      <3> QED BY <2>2, <3>1, <3>2, <3>3
    <2> QED BY <2>1, <2>2, AddedIs
  <1>2. ASSUME NEW p \in Written(more), NEW q \in Written(more), Says(more, p) = Says(more, q) PROVE p = q
    <2>1. ASSUME NEW u \in Written(rs), NEW v \in Written(more), Extends(Says(more, v), path),
                 Len(Says(more, v)) = Len(path) + l, Says(rs, u) = Says(more, v)
          PROVE  FALSE
      <3>1. l = 2 /\ Says(rs, u) = path
        BY <2>1 DEF Grows
      <3>2. PICK n \in Nat : n = Len(path)
        BY <2>1, AddedIs
      <3> QED BY <2>1, <3>1, <3>2
    <2>2. CASE p \in Written(rs) /\ Says(more, p) = Says(rs, p) /\ q \in Written(rs) /\ Says(more, q) = Says(rs, q)
      BY <1>2, <2>2 DEF Texts
    <2>3. CASE p[1] > Len(rs) /\ q[1] > Len(rs)
      BY <1>2, <2>3 DEF Grows
    <2> QED BY <1>2, <2>1, <2>2, <2>3, AddedIs
  <1> QED BY <1>1, <1>2 DEF Texts

LEMMA GrowsLabels ==
    ASSUME NEW rs, NEW more, NEW path, NEW l, Grows(rs, more, path, l),
           NEW nx \in Nat, Texts(rs, nx), NEW D, LabelsLinked(rs, D),
           l = 0 => \A q \in Written(rs) : IsLabel(path, Says(rs, q)) => q \in D
    PROVE  LabelsLinked(more, D)
  <1> SUFFICES ASSUME NEW p \in Written(more), NEW q \in Written(more), IsLabel(Says(more, p), Says(more, q))
               PROVE  q \in D
    BY DEF LabelsLinked
  <1>1. PICK t, u : t = Says(more, p) /\ u = Says(more, q)
    OBVIOUS
  <1>2. PICK n \in Nat, a \in Nat, b \in Nat : n = Len(path) /\ a = Len(t) /\ b = Len(u)
    BY <1>1, AddedIs
  <1>3. path \in Seq(Nat) /\ t \in Seq(Nat) /\ u \in Seq(Nat) /\ Extends(t, u)
    BY <1>1, AddedIs DEF IsLabel
  <1>8. n % 3 = 1 /\ (l = 0 \/ l = 2) /\ a = b + 1
    BY <1>1, <1>2 DEF Grows, IsLabel
  <1>4. CASE p \in Written(rs) /\ t = Says(rs, p) /\ q \in Written(rs) /\ u = Says(rs, q)
    BY <1>1, <1>4 DEF LabelsLinked
  <1>5. CASE Extends(t, path) /\ a = n + l /\ q \in Written(rs) /\ u = Says(rs, q)
    <2>1. b % 3 # 2
      BY <1>2, <1>5 DEF Texts
    <2>2. l = 0
      <3>1. l = 2 => b = n + 1
        BY <1>5, <1>8
      <3>2. l = 2 => b % 3 = 2
        BY <1>8, <3>1
      <3> QED BY <1>8, <2>1, <3>2
    <2>3. t = path
      <3>1. Len(t) = Len(path)
        BY <1>2, <1>5, <2>2
      <3> QED BY <1>3, <1>5, <3>1, ExtendsOn
    <2> QED BY <1>1, <1>5, <2>2, <2>3
  <1>6. CASE p \in Written(rs) /\ t = Says(rs, p) /\ Extends(u, path) /\ b = n + l
    <2>1. Extends(t, path)
      BY <1>3, <1>6, ExtendsOn
    <2>2. t = path
      BY <1>6, <2>1 DEF Grows
    <2>3. a = n
      BY <1>2, <2>2
    <2> QED BY <1>6, <1>8, <2>3
  <1>7. ~(a = n + l /\ b = n + l)
    BY <1>8
  <1> QED BY <1>1, <1>2, <1>4, <1>5, <1>6, <1>7, AddedIs

LEMMA KeptLinks ==
    ASSUME NEW rs, NEW more, Kept(rs, more), NEW ls, LinksLead(rs, ls)
    PROVE  LinksLead(more, ls)
  <1> SUFFICES ASSUME NEW p \in DOMAIN ls
               PROVE  /\ p \in Written(more) /\ <<ls[p], 1>> \in Written(more)
                      /\ IsLabel(Says(more, <<ls[p], 1>>), Says(more, p))
    BY DEF LinksLead
  <1>1. PICK q : q = <<ls[p], 1>>
    OBVIOUS
  <1>2. p \in Written(rs) /\ q \in Written(rs) /\ IsLabel(Says(rs, q), Says(rs, p))
    BY <1>1 DEF LinksLead
  <1> QED BY <1>1, <1>2, KeptRows

LEMMA GrowsWaiting ==
    ASSUME NEW rs, NEW more, NEW path, NEW l, Grows(rs, more, path, l),
           NEW nx, NEW td, Waiting(rs, td, nx), Beside(path, td)
    PROVE  Waiting(more, td, nx)
  <1> SUFFICES ASSUME NEW i \in DOMAIN td PROVE Waits(more, td[i], nx)
    BY DEF Waiting
  <1>1. PICK entry : entry = td[i] /\ Waits(rs, entry, nx) /\ Apart(path, entry.path)
    BY DEF Waiting, Beside
  <1>2. entry \in TodoEntry /\ entry.cell \in Written(rs) /\ entry.path \in Seq(Nat)
    BY <1>1 DEF Waits, IsPath
  <1>3. entry.cell \in Written(more) /\ Says(more, entry.cell) = Says(rs, entry.cell)
    BY <1>2, KeptRows DEF Grows
  <1>4. ASSUME NEW p \in Written(more) PROVE ~Extends(Says(more, p), entry.path)
    <2>1. CASE p \in Written(rs) /\ Says(more, p) = Says(rs, p)
      BY <1>1, <2>1 DEF Waits, Unsaid
    <2>2. CASE Extends(Says(more, p), path)
      <3>1. PICK t, s : t = Says(more, p) /\ s = entry.path
        OBVIOUS
      <3>2. t \in Seq(Nat) /\ path \in Seq(Nat) /\ s \in Seq(Nat)
        BY <1>2, <3>1, AddedIs
      <3>3. Extends(t, s) => Extends(path, s) \/ Extends(s, path)
        BY <2>2, <3>1, <3>2, ExtendsOn
      <3> QED BY <1>1, <3>1, <3>3 DEF Apart
    <2> QED BY <2>1, <2>2, AddedIs
  <1> QED BY <1>1, <1>3, <1>4 DEF Waits, Unsaid

-----------------------------------------------------------------------------
(* Rows that are added                                                         *)

LEMMA RowAdded ==
    ASSUME NEW rs, IsRows(rs), NEW row \in Seq(Seq(Nat)), NEW more, more = Append(rs, row)
    PROVE  Kept(rs, more) /\ Len(more) = Len(rs) + 1 /\ more[Len(rs) + 1] = row
  <1>1. rs \in Seq(Seq(Seq(Nat))) /\ Len(rs) \in Nat /\ DOMAIN rs = 1..Len(rs)
    BY RowsAre DEF IsRows
  <1>2. /\ more \in Seq(Seq(Seq(Nat))) /\ Len(more) = Len(rs) + 1 /\ more[Len(rs) + 1] = row
        /\ \A i \in 1..Len(rs) : more[i] = rs[i]
    BY <1>1, AppendProperties
  <1> QED BY <1>1, <1>2 DEF Kept, IsRows

LEMMA KeptOn ==
    ASSUME NEW rs, NEW mid, NEW more, Kept(rs, mid), Kept(mid, more)
    PROVE  Kept(rs, more)
  <1>1. IsRows(rs) /\ IsRows(mid) /\ IsRows(more)
    BY DEF Kept
  <1>2. PICK a \in Nat, b \in Nat, c \in Nat :
           a = Len(rs) /\ b = Len(mid) /\ c = Len(more) /\ DOMAIN rs = 1..a /\ DOMAIN mid = 1..b
    BY <1>1, RowsAre
  <1>3. a <= b /\ b <= c
    BY <1>2 DEF Kept
  <1>4. \A r \in 1..a : more[r] = rs[r]
    BY <1>2, <1>3 DEF Kept
  <1> QED BY <1>1, <1>2, <1>3, <1>4 DEF Kept

\* An empty row says nothing.
LEMMA BlankAdded ==
    ASSUME NEW rs, IsRows(rs), NEW sep, sep = Append(rs, <<Blank>>)
    PROVE  Kept(rs, sep) /\ Written(sep) \subseteq Written(rs)
  <1>1. PICK n \in Nat : n = Len(rs)
    BY RowsAre
  <1>2. <<Blank>> \in Seq(Seq(Nat)) /\ Len(<<Blank>>) = 1 /\ <<Blank>>[1] = Blank
    BY DEF Blank
  <1>3. Kept(rs, sep) /\ Len(sep) = n + 1 /\ sep[n + 1] = <<Blank>>
    BY <1>1, <1>2, RowAdded
  <1>4. IsRows(sep)
    BY <1>3 DEF Kept
  <1>5. ASSUME NEW p \in Written(sep) PROVE p \in Written(rs)
    <2>1. p[1] \in 1..n + 1 /\ p[2] \in 1..Len(sep[p[1]]) /\ Says(sep, p) # Blank
      BY <1>3, <1>4, WrittenIs
    <2>2. p[1] # n + 1
      <3> SUFFICES ASSUME p[1] = n + 1 PROVE FALSE
        OBVIOUS
      <3>1. sep[p[1]] = <<Blank>> /\ p[2] = 1
        BY <1>2, <1>3, <2>1
      <3> QED BY <1>2, <2>1, <3>1 DEF Says
    <2>3. p[1] <= Len(rs)
      BY <1>1, <2>1, <2>2
    <2> QED BY <1>3, <2>3, KeptRows
  <1> QED BY <1>3, <1>5

LEMMA SeparatedSays ==
    ASSUME NEW rs, IsRows(rs), NEW sep, sep = IF rs = <<>> THEN rs ELSE Append(rs, <<Blank>>)
    PROVE  Kept(rs, sep) /\ Written(sep) \subseteq Written(rs)
  <1>1. CASE rs = <<>>
    BY <1>1, RowsAre DEF Kept
  <1>2. CASE rs # <<>>
    BY <1>2, BlankAdded
  <1> QED BY <1>1, <1>2

\* A paragraph or the label of a nested table, after a separating row; it is in row r.
Labelled(rs, sep, path, more) ==
    sep = (IF rs = <<>> THEN rs ELSE Append(rs, <<Blank>>)) /\ more = Append(sep, <<path>>)
LabelIn(rs, more, path, r) ==
    /\ Grows(rs, more, path, 0) /\ <<r, 1>> \in Written(more) /\ Says(more, <<r, 1>>) = path
    /\ more[r] = <<path>> /\ r \in DOMAIN more /\ r > Len(rs)
    /\ \A p \in Written(more) : p[1] > Len(rs) => p = <<r, 1>>

LEMMA LabelAdds ==
    ASSUME NEW rs, IsRows(rs), NEW nx, NEW path, IsPath(path, nx), Unsaid(rs, path),
           NEW sep, NEW more, Labelled(rs, sep, path, more)
    PROVE  LabelIn(rs, more, path, Len(sep) + 1)
  <1>1. Kept(rs, sep) /\ Written(sep) \subseteq Written(rs) /\ IsRows(sep)
    BY SeparatedSays DEF Kept, Labelled
  <1>2. path \in Seq(Nat) /\ Len(path) % 3 = 1
    BY DEF IsPath
  <1>3. <<path>> \in Seq(Seq(Nat)) /\ Len(<<path>>) = 1 /\ <<path>>[1] = path /\ DOMAIN <<path>> = 1..1
    BY <1>2
  <1>4. PICK n \in Nat, a \in Nat : n = Len(sep) /\ a = Len(rs) /\ a <= n
    BY <1>1, RowsAre DEF Kept
  <1>5. Kept(sep, more) /\ Len(more) = n + 1 /\ more[n + 1] = <<path>>
    <2>1. more = Append(sep, <<path>>)
      BY DEF Labelled
    <2>2. IsRows(sep) /\ <<path>> \in Seq(Seq(Nat)) /\ n = Len(sep)
      BY <1>1, <1>3, <1>4
    <2> QED BY <2>1, <2>2, RowAdded
  <1>6. IsRows(more) /\ DOMAIN more = 1..n + 1
    BY <1>5, RowsAre DEF Kept
  <1>7. path # Blank
    BY <1>2 DEF Blank
  <1>8. <<n + 1, 1>> \in Written(more) /\ Says(more, <<n + 1, 1>>) = path
    <2>1. n + 1 \in DOMAIN more /\ 1 \in DOMAIN more[n + 1] /\ more[n + 1][1] = path
      BY <1>3, <1>5, <1>6
    <2> QED BY <1>7, <2>1 DEF Written, Says
  <1>9. ASSUME NEW p \in Written(more), p[1] > a PROVE p = <<n + 1, 1>>
    <2>1. p = <<p[1], p[2]>> /\ p[1] \in 1..n + 1 /\ p[2] \in 1..Len(more[p[1]])
      BY <1>5, <1>6, WrittenIs
    <2>2. p[1] = n + 1
      <3> SUFFICES ASSUME p[1] <= n PROVE FALSE
        BY <2>1
      <3>1. p \in Written(sep)
        BY <1>4, <1>5, KeptRows
      <3>2. p \in Written(rs)
        BY <1>1, <3>1
      <3>3. p[1] \in 1..Len(rs)
        BY <3>2, WrittenIs
      <3> QED BY <1>4, <1>9, <3>3
    <2>3. p[2] = 1
      <3>1. Len(more[p[1]]) = 1
        BY <1>3, <1>5, <2>2
      <3> QED BY <2>1, <3>1
    <2> QED BY <2>1, <2>2, <2>3
  <1>10. Kept(rs, more)
    BY <1>1, <1>5, KeptOn
  <1>11. Grows(rs, more, path, 0)
    <2>1. \A p \in Written(more) : p[1] > Len(rs) => Says(more, p) = path
      BY <1>4, <1>8, <1>9
    <2>2. Extends(path, path) /\ Len(path) = Len(path) + 0
      <3>1. Len(path) \in Nat
        BY <1>2, LenProperties
      <3> QED BY <3>1 DEF Extends
    <2>3. \A p, q \in Written(more) : p[1] > Len(rs) /\ q[1] > Len(rs) /\ Says(more, p) = Says(more, q) => p = q
      BY <1>4, <1>9
    <2> QED BY <1>2, <1>10, <2>1, <2>2, <2>3 DEF Grows, Unsaid
  <1>12. n + 1 \in DOMAIN more /\ n + 1 > a
    BY <1>4, <1>6
  <1> QED BY <1>4, <1>5, <1>8, <1>9, <1>11, <1>12 DEF LabelIn

Below(rs, low, more) == more = rs \o low

LEMMA RowsBelow ==
    ASSUME NEW rs, IsRows(rs), NEW low, IsRows(low), NEW more, Below(rs, low, more)
    PROVE  /\ Kept(rs, more) /\ Len(more) = Len(rs) + Len(low)
           /\ \A r \in 1..Len(low) : more[Len(rs) + r] = low[r]
           /\ \A p \in Written(more) : p[1] > Len(rs) =>
                /\ <<p[1] - Len(rs), p[2]>> \in Written(low)
                /\ Says(more, p) = Says(low, <<p[1] - Len(rs), p[2]>>)
           /\ \A p \in Written(low) : /\ <<Len(rs) + p[1], p[2]>> \in Written(more)
                                      /\ Says(more, <<Len(rs) + p[1], p[2]>>) = Says(low, p)
  <1>1. PICK a \in Nat, b \in Nat : a = Len(rs) /\ b = Len(low) /\ DOMAIN rs = 1..a /\ DOMAIN low = 1..b
    BY RowsAre
  <1>2. more \in Seq(Seq(Seq(Nat))) /\ Len(more) = a + b
    BY <1>1, ConcatProperties DEF IsRows, Below
  <1>3. \A i \in 1..a : more[i] = rs[i]
    BY <1>1, ConcatProperties DEF IsRows, Below
  <1>4. \A r \in 1..b : more[a + r] = low[r]
    BY <1>1, ConcatProperties DEF IsRows, Below
  <1>5. Kept(rs, more) /\ IsRows(more) /\ DOMAIN more = 1..a + b
    BY <1>1, <1>2, <1>3 DEF Kept, IsRows
  <1>6. ASSUME NEW p \in Written(more), p[1] > a
        PROVE  <<p[1] - a, p[2]>> \in Written(low) /\ Says(more, p) = Says(low, <<p[1] - a, p[2]>>)
    <2>1. p \in Nat \X Nat /\ p[1] \in 1..a + b /\ p[2] \in DOMAIN more[p[1]] /\ more[p[1]][p[2]] # Blank
      BY <1>5 DEF Written
    <2>2. PICK m \in 1..b : m = p[1] - a /\ p[1] = a + m
      BY <1>6, <2>1
    <2>3. more[p[1]] = low[m]
      BY <1>4, <2>2
    <2>4. <<m, p[2]>> \in Written(low)
      BY <1>1, <2>1, <2>2, <2>3 DEF Written
    <2> QED BY <2>2, <2>3, <2>4 DEF Says
  <1>7. ASSUME NEW p \in Written(low)
        PROVE  <<a + p[1], p[2]>> \in Written(more) /\ Says(more, <<a + p[1], p[2]>>) = Says(low, p)
    <2>1. p \in Nat \X Nat /\ p[1] \in 1..b /\ p[2] \in DOMAIN low[p[1]] /\ low[p[1]][p[2]] # Blank
      BY <1>1 DEF Written
    <2>2. PICK m \in 1..a + b : m = a + p[1]
      BY <2>1
    <2>3. more[m] = low[p[1]]
      BY <1>4, <2>1, <2>2
    <2>4. <<m, p[2]>> \in Written(more)
      BY <1>5, <2>1, <2>2, <2>3 DEF Written
    <2> QED BY <2>2, <2>3, <2>4 DEF Says
  <1> QED BY <1>1, <1>2, <1>4, <1>5, <1>6, <1>7

\* What the rows of a table say: each cell at its first place, where it comes from.
LEMMA TableRowsAre ==
    ASSUME NEW table \in Tables, NEW g, IsGridTo(Len(table), g, table), NEW path \in Seq(Nat),
           NEW low, low = TableRows(g, path)
    PROVE  /\ IsRows(low) /\ Len(low) = Len(table)
           /\ \A r \in 1..Len(table) : DOMAIN low[r] = DOMAIN g[r] /\ Len(low[r]) = Len(g[r])
           /\ \A r, c : <<r, c>> \in Written(low) <=>
                r \in DOMAIN g /\ c \in DOMAIN g[r] /\ FirstPlace(g, g[r][c]) = <<r, c>>
           /\ \A r, c : <<r, c>> \in Written(low) => Says(low, <<r, c>>) = path \o <<r, c>>
  <1>1. PICK size \in Nat : size = Len(table) /\ DOMAIN g = 1..size
    BY TablesAreTables DEF IsGridTo
  <1>2. ASSUME NEW r \in 1..size PROVE DOMAIN g[r] = 1..Len(g[r]) /\ Len(g[r]) \in Nat
    BY <1>1, RowOfGrid
  <1>3. ASSUME NEW r \in 1..size
        PROVE  /\ low[r] \in Seq(Seq(Nat)) /\ Len(low[r]) = Len(g[r]) /\ DOMAIN low[r] = DOMAIN g[r]
               /\ \A c \in DOMAIN g[r] :
                    low[r][c] = IF FirstPlace(g, g[r][c]) = <<r, c>> THEN path \o <<r, c>> ELSE Blank
    <2>1. PICK width \in Nat : width = Len(g[r]) /\ DOMAIN g[r] = 1..width
      BY <1>2
    <2>2. PICK row : row = [c \in 1..width |-> IF FirstPlace(g, g[r][c]) = <<r, c>> THEN path \o <<r, c>> ELSE Blank]
      OBVIOUS
    <2>3. low[r] = row
      BY <1>1, <2>1, <2>2 DEF TableRows
    <2>4. ASSUME NEW c \in 1..width PROVE row[c] \in Seq(Nat)
      <3>1. path \o <<r, c>> \in Seq(Nat) /\ Blank \in Seq(Nat)
        BY CellPaths DEF Blank
      <3> QED BY <2>2, <3>1
    <2>5. row \in [1..width -> Seq(Nat)]
      BY <2>2, <2>4
    <2>6. row \in Seq(Seq(Nat)) /\ Len(row) = width /\ DOMAIN row = 1..width
      BY <2>5
    <2> QED BY <2>1, <2>2, <2>3, <2>6
  <1>4. low \in [1..size -> Seq(Seq(Nat))]
    <2>1. low = [r \in 1..size |-> low[r]]
      BY <1>1 DEF TableRows
    <2> QED BY <1>3, <2>1
  <1>5. IsRows(low) /\ Len(low) = size /\ DOMAIN low = 1..size
    BY <1>4 DEF IsRows
  <1>6. ASSUME NEW r \in 1..size, NEW c \in DOMAIN g[r] PROVE r \in Nat /\ c \in Nat /\ path \o <<r, c>> # Blank
    <2>1. r \in Nat /\ c \in Nat
      BY <1>2
    <2>2. Len(path) \in Nat /\ Len(path \o <<r, c>>) = Len(path) + 2
      BY <2>1, CellPaths, LenProperties
    <2>3. Len(path \o <<r, c>>) # 0
      BY <2>2
    <2> QED BY <2>1, <2>3 DEF Blank
  <1>7. ASSUME NEW r, NEW c
        PROVE  /\ <<r, c>> \in Written(low) <=>
                    r \in DOMAIN g /\ c \in DOMAIN g[r] /\ FirstPlace(g, g[r][c]) = <<r, c>>
               /\ <<r, c>> \in Written(low) => Says(low, <<r, c>>) = path \o <<r, c>>
    <2>1. ASSUME r \in 1..size, c \in DOMAIN g[r]
          PROVE  /\ <<r, c>> \in Written(low) <=> low[r][c] # Blank
                 /\ low[r][c] = IF FirstPlace(g, g[r][c]) = <<r, c>> THEN path \o <<r, c>> ELSE Blank
                 /\ path \o <<r, c>> # Blank /\ Says(low, <<r, c>>) = low[r][c]
      <3>1. c \in DOMAIN low[r] /\ <<r, c>> \in Nat \X Nat /\ r \in DOMAIN low
        BY <1>3, <1>5, <1>6, <2>1
      <3> QED BY <1>3, <1>6, <2>1, <3>1 DEF Written, Says
    <2>2. <<r, c>> \in Written(low) => r \in 1..size /\ c \in DOMAIN g[r]
      <3> SUFFICES ASSUME <<r, c>> \in Written(low) PROVE r \in 1..size /\ c \in DOMAIN g[r]
        OBVIOUS
      <3>1. r \in DOMAIN low /\ c \in DOMAIN low[r]
        BY DEF Written
      <3> QED BY <1>3, <1>5, <3>1
    <2> QED BY <1>1, <2>1, <2>2
  <1> QED BY <1>1, <1>3, <1>5, <1>7

-----------------------------------------------------------------------------
(* Merges, paragraph rows and pictures                                         *)

IsMerge(rs, m) ==
    /\ m = <<m[1], m[2], m[3], m[4]>>
    /\ {m[1], m[2], m[3], m[4]} \subseteq Nat \ {0} /\ m[1] <= m[3] /\ m[2] <= m[4]
    /\ \A p \in CellsOf(m) : /\ p[1] \in DOMAIN rs /\ p[2] \in DOMAIN rs[p[1]]
                             /\ p # <<m[1], m[2]>> => p \notin Written(rs)
Disjoint(ss) == \A m, n \in ss : m # n => CellsOf(m) \cap CellsOf(n) = {}
Merged(rs, ss) == (\A m \in ss : IsMerge(rs, m)) /\ Disjoint(ss)
OwnRows(rs, ss, ts) ==
    \A r \in ts : r \in DOMAIN rs /\ Len(rs[r]) = 1 /\ \A m \in ss : r \notin m[1]..m[3]
Anchored(rs, ps) ==
    \A x \in ps : /\ x = <<x[1], x[2], x[3]>>
                  /\ <<x[1], x[2]>> \in Written(rs) /\ Says(rs, <<x[1], x[2]>>) = x[3]

LEMMA InRows ==
    ASSUME NEW rs, NEW m, IsMerge(rs, m), NEW p \in CellsOf(m)
    PROVE  /\ p = <<p[1], p[2]>> /\ p[1] \in m[1]..m[3] /\ p[2] \in m[2]..m[4]
           /\ p[1] \in Nat \ {0} /\ p[2] \in Nat \ {0} /\ p[1] \in DOMAIN rs /\ p[2] \in DOMAIN rs[p[1]]
  <1>1. p = <<p[1], p[2]>> /\ p[1] \in m[1]..m[3] /\ p[2] \in m[2]..m[4]
    BY DEF CellsOf, Cells
  <1>2. m[1] \in Nat \ {0} /\ m[2] \in Nat \ {0} /\ m[3] \in Nat /\ m[4] \in Nat
    BY DEF IsMerge
  <1> QED BY <1>1, <1>2 DEF IsMerge

LEMMA KeptMerged ==
    ASSUME NEW rs, NEW more, Kept(rs, more), NEW ss, Merged(rs, ss)
    PROVE  Merged(more, ss)
  <1> SUFFICES ASSUME NEW m \in ss PROVE IsMerge(more, m)
    BY DEF Merged
  <1>1. IsMerge(rs, m)
    BY DEF Merged
  <1>2. ASSUME NEW p \in CellsOf(m)
        PROVE  /\ p[1] \in DOMAIN more /\ p[2] \in DOMAIN more[p[1]]
               /\ p # <<m[1], m[2]>> => p \notin Written(more)
    <2>1. p[1] \in DOMAIN rs /\ p[2] \in DOMAIN rs[p[1]] /\ p # <<m[1], m[2]>> => p \notin Written(rs)
      BY <1>1 DEF IsMerge
    <2>2. PICK a \in Nat, b \in Nat : a = Len(rs) /\ b = Len(more) /\ DOMAIN rs = 1..a /\ DOMAIN more = 1..b /\ a <= b
      BY RowsAre DEF Kept
    <2>3. p[1] \in DOMAIN rs /\ p[2] \in DOMAIN rs[p[1]]
      BY <1>1, InRows
    <2>4. more[p[1]] = rs[p[1]] /\ p[1] <= Len(rs)
      BY <2>2, <2>3 DEF Kept
    <2>5. p \in Written(more) => p \in Written(rs)
      BY <2>4, KeptRows
    <2> QED BY <1>1, <2>2, <2>3, <2>4, <2>5 DEF IsMerge
  <1> QED BY <1>1, <1>2 DEF IsMerge

LEMMA KeptOwnRows ==
    ASSUME NEW rs, NEW more, Kept(rs, more), NEW ss, NEW ts, OwnRows(rs, ss, ts)
    PROVE  OwnRows(more, ss, ts)
  <1> SUFFICES ASSUME NEW r \in ts PROVE r \in DOMAIN more /\ Len(more[r]) = 1
    BY DEF OwnRows
  <1>1. r \in DOMAIN rs /\ Len(rs[r]) = 1
    BY DEF OwnRows
  <1>2. PICK a \in Nat, b \in Nat : a = Len(rs) /\ b = Len(more) /\ DOMAIN rs = 1..a /\ DOMAIN more = 1..b /\ a <= b
    BY RowsAre DEF Kept
  <1> QED BY <1>1, <1>2 DEF Kept

LEMMA KeptAnchored ==
    ASSUME NEW rs, NEW more, Kept(rs, more), NEW ps, Anchored(rs, ps)
    PROVE  Anchored(more, ps)
  <1> SUFFICES ASSUME NEW x \in ps
               PROVE  <<x[1], x[2]>> \in Written(more) /\ Says(more, <<x[1], x[2]>>) = x[3]
    BY DEF Anchored
  <1>1. <<x[1], x[2]>> \in Written(rs) /\ Says(rs, <<x[1], x[2]>>) = x[3]
    BY DEF Anchored
  <1> QED BY <1>1, KeptRows

-----------------------------------------------------------------------------
(* A table below the rows                                                      *)

\* The block of a cell: its first place, and the last row and column of one.
Placed(g, x, t, l, b, e) ==
    /\ {t, l, b, e} \subseteq Nat \ {0} /\ t <= b /\ l <= e
    /\ Places(g, x) = Cells(t, l, b, e) /\ Bounds(g, x, t, l, b, e)
    /\ t \in DOMAIN g /\ l \in DOMAIN g[t] /\ g[t][l] = x

LEMMA PlacesOfCells ==
    ASSUME NEW table \in Tables, NEW g, IsGridTo(Len(table), g, table), NEW x \in CellsIn(g)
    PROVE  \E t, l, b, e : Placed(g, x, t, l, b, e)
  <1>1. PICK t, l, b, e \in Nat : IsBlock(Places(g, x), t, l, b, e)
    BY CellsAreBlocks
  <1>2. t \in Nat \ {0} /\ l \in Nat \ {0} /\ b \in Nat \ {0} /\ e \in Nat \ {0}
        /\ t <= b /\ l <= e /\ Places(g, x) = Cells(t, l, b, e)
    BY <1>1 DEF IsBlock
  <1>3. Bounds(g, x, t, l, b, e)
    BY ONLY <1>1, FirstOfBlock
  <1>4. <<t, l>> \in Places(g, x)
    BY <1>2 DEF Cells
  <1>5. t \in DOMAIN g /\ l \in DOMAIN g[t] /\ g[t][l] = x
    BY <1>4, PlacesAre
  <1> QED BY <1>2, <1>3, <1>5 DEF Placed

LEMMA TableAdds ==
    ASSUME NEW table \in Tables, NEW g, IsGridTo(Len(table), g, table), NEW nx, NEW path, IsPath(path, nx),
           NEW rs, NEW before, Kept(rs, before), Written(before) \subseteq Written(rs), Free(rs, path),
           NEW more, Below(before, TableRows(g, path), more)
    PROVE  Grows(rs, more, path, 2) /\ Kept(before, more) /\ Len(more) = Len(before) + Len(table)
  <1>1. PICK low : low = TableRows(g, path) /\ Below(before, low, more)
    OBVIOUS
  <1>2. path \in Seq(Nat) /\ Len(path) % 3 = 1 /\ IsRows(before) /\ IsRows(rs)
    BY DEF IsPath, Kept
  <1>3. /\ IsRows(low) /\ Len(low) = Len(table)
        /\ \A r, c : <<r, c>> \in Written(low) => Says(low, <<r, c>>) = path \o <<r, c>>
    BY <1>1, <1>2, TableRowsAre
  <1>10. /\ Kept(before, more) /\ Len(more) = Len(before) + Len(low)
         /\ \A p \in Written(more) : p[1] > Len(before) =>
               /\ <<p[1] - Len(before), p[2]>> \in Written(low)
               /\ Says(more, p) = Says(low, <<p[1] - Len(before), p[2]>>)
    <2>1. IsRows(before) /\ IsRows(low) /\ Below(before, low, more)
      BY <1>1, <1>2, <1>3
    <2> QED BY ONLY <2>1, RowsBelow
  <1>4. Kept(before, more) /\ Len(more) = Len(before) + Len(table)
    BY <1>3, <1>10
  <1>5. Kept(rs, more)
    BY <1>4, KeptOn
  <1>6. PICK a \in Nat, d \in Nat : a = Len(rs) /\ d = Len(before) /\ a <= d
    BY <1>2, RowsAre DEF Kept
  <1>7. ASSUME NEW p \in Written(more), p[1] > a
        PROVE  /\ p = <<p[1], p[2]>> /\ p[1] \in Nat /\ p[2] \in Nat /\ p[1] > d /\ p[1] - d \in Nat
               /\ Says(more, p) = path \o <<p[1] - d, p[2]>>
    <2>1. p = <<p[1], p[2]>> /\ p[1] \in Nat /\ p[2] \in Nat
      BY <1>4, WrittenIs DEF Kept
    <2>2. p[1] > d
      <3> SUFFICES ASSUME p[1] <= d PROVE FALSE
        BY <1>6, <2>1
      <3>1. p \in Written(before)
        BY <1>4, <1>6, KeptRows
      <3>2. p[1] \in 1..a
        BY <1>2, <1>6, <3>1, WrittenIs
      <3> QED BY <1>7, <1>6, <3>2
    <2>3. <<p[1] - d, p[2]>> \in Written(low) /\ Says(more, p) = Says(low, <<p[1] - d, p[2]>>)
      BY <1>6, <1>10, <2>2
    <2>4. Says(low, <<p[1] - d, p[2]>>) = path \o <<p[1] - d, p[2]>>
      BY <1>3, <2>3
    <2>5. p[1] - d \in Nat
      BY <1>6, <2>1, <2>2
    <2> QED BY <2>1, <2>2, <2>3, <2>4, <2>5
  <1>8. ASSUME NEW p \in Written(more), p[1] > a
        PROVE  Extends(Says(more, p), path) /\ Len(Says(more, p)) = Len(path) + 2
    <2>1. PICK t : t = path \o <<p[1] - d, p[2]>> /\ t = Says(more, p)
      BY <1>7, <1>8
    <2>2. p[1] - d \in Nat /\ p[2] \in Nat
      BY <1>7, <1>8
    <2>3. Len(t) = Len(path) + 2 /\ (\A i \in 1..Len(path) : t[i] = path[i]) /\ Len(path) \in Nat
      BY <1>2, <2>1, <2>2, CellPaths, LenProperties
    <2> QED BY <2>1, <2>3 DEF Extends
  <1>9. ASSUME NEW p \in Written(more), NEW q \in Written(more), p[1] > a, q[1] > a, Says(more, p) = Says(more, q)
        PROVE  p = q
    <2>1. PICK m \in Nat, n \in Nat : m = p[1] - d /\ n = q[1] - d
      BY <1>7, <1>9
    <2>2. path \o <<m, p[2]>> = path \o <<n, q[2]>> /\ p[2] \in Nat /\ q[2] \in Nat
      BY <1>7, <1>9, <2>1
    <2>3. m = n /\ p[2] = q[2]
      <3>1. (path \o <<m, p[2]>>)[Len(path) + 1] = m /\ (path \o <<m, p[2]>>)[Len(path) + 2] = p[2]
        BY <1>2, <2>2, CellPaths
      <3>2. (path \o <<n, q[2]>>)[Len(path) + 1] = n /\ (path \o <<n, q[2]>>)[Len(path) + 2] = q[2]
        BY <1>2, <2>2, CellPaths
      <3> QED BY <2>2, <3>1, <3>2
    <2>4. p = <<p[1], p[2]>> /\ q = <<q[1], q[2]>> /\ p[1] \in Nat /\ q[1] \in Nat
      BY <1>7, <1>9
    <2>5. p[1] = q[1]
      BY <2>1, <2>3, <2>4
    <2> QED BY <2>3, <2>4, <2>5
  <1> QED BY <1>2, <1>4, <1>5, <1>6, <1>8, <1>9 DEF Grows, Free

\* A cell is written where it has its first place.
FirstsSay(g, more, d, path) ==
    \A r \in DOMAIN g : \A c \in DOMAIN g[r] : FirstPlace(g, g[r][c]) = <<r, c>> =>
      <<d + 1 + r - 1, c>> \in Written(more) /\ Says(more, <<d + 1 + r - 1, c>>) = path \o <<r, c>>

LEMMA TableAnchors ==
    ASSUME NEW table \in Tables, NEW g, IsGridTo(Len(table), g, table), NEW nx, NEW path, IsPath(path, nx),
           NEW before, IsRows(before), NEW more, Below(before, TableRows(g, path), more)
    PROVE  /\ Anchored(more, TablePictures(table, g, Len(before) + 1, path))
           /\ FirstsSay(g, more, Len(before), path)
  <1>1. PICK low : low = TableRows(g, path) /\ Below(before, low, more)
    OBVIOUS
  <1>2. path \in Seq(Nat)
    BY DEF IsPath
  <1>3. PICK d \in Nat : d = Len(before)
    BY RowsAre
  <1>6. /\ IsRows(low) /\ \A r, c : <<r, c>> \in Written(low) <=>
             r \in DOMAIN g /\ c \in DOMAIN g[r] /\ FirstPlace(g, g[r][c]) = <<r, c>>
        /\ \A r, c : <<r, c>> \in Written(low) => Says(low, <<r, c>>) = path \o <<r, c>>
    BY <1>1, <1>2, TableRowsAre
  <1>7. \A p \in Written(low) : /\ <<d + p[1], p[2]>> \in Written(more)
                                 /\ Says(more, <<d + p[1], p[2]>>) = Says(low, p)
    <2>1. IsRows(before) /\ IsRows(low) /\ Below(before, low, more) /\ d = Len(before)
      BY <1>1, <1>3, <1>6
    <2> QED BY ONLY <2>1, RowsBelow
  <1>4. ASSUME NEW r \in DOMAIN g, NEW c \in DOMAIN g[r], FirstPlace(g, g[r][c]) = <<r, c>>
        PROVE  /\ <<d + 1 + r - 1, c>> \in Written(more)
               /\ Says(more, <<d + 1 + r - 1, c>>) = path \o <<r, c>>
    <2>1. PICK p : p = <<r, c>>
      OBVIOUS
    <2>2. p \in Written(low) /\ Says(low, p) = path \o <<r, c>>
      BY <1>4, <1>6, <2>1
    <2>3. <<d + p[1], p[2]>> \in Written(more) /\ Says(more, <<d + p[1], p[2]>>) = Says(low, p)
      BY <1>7, <2>2
    <2>4. r \in Nat
      BY TablesAreTables DEF IsGridTo
    <2>5. d + 1 + r - 1 = d + r
      BY <2>4
    <2> QED BY <2>1, <2>2, <2>3, <2>5
  <1>5. ASSUME NEW x \in TablePictures(table, g, d + 1, path)
        PROVE  /\ x = <<x[1], x[2], x[3]>>
               /\ <<x[1], x[2]>> \in Written(more) /\ Says(more, <<x[1], x[2]>>) = x[3]
    <2>1. PICK cell \in CellsIn(g) :
             x = <<d + 1 + FirstPlace(g, cell)[1] - 1, FirstPlace(g, cell)[2], path \o FirstPlace(g, cell)>>
      BY DEF TablePictures
    <2>2. PICK t, l \in Nat : /\ FirstPlace(g, cell) = <<t, l>>
                              /\ t \in DOMAIN g /\ l \in DOMAIN g[t] /\ g[t][l] = cell
      <3>1. PICK t, l, b, e : Placed(g, cell, t, l, b, e)
        BY PlacesOfCells
      <3> QED BY <3>1 DEF Placed, Bounds
    <2>3. x = <<d + 1 + t - 1, l, path \o <<t, l>>>>
      BY <2>1, <2>2
    <2>4. <<d + 1 + t - 1, l>> \in Written(more) /\ Says(more, <<d + 1 + t - 1, l>>) = path \o <<t, l>>
      BY <1>4, <2>2
    <2> QED BY <2>3, <2>4
  <1> QED BY <1>3, <1>4, <1>5 DEF Anchored, FirstsSay

\* The merge of the block of a cell, the rows before added.
MergeOf(g, x, d) ==
    <<d + 1 + FirstPlace(g, x)[1] - 1, FirstPlace(g, x)[2],
      d + 1 + Max({p[1] : p \in Places(g, x)}) - 1, Max({p[2] : p \in Places(g, x)})>>

LEMMA MergeIs ==
    ASSUME NEW table \in Tables, NEW g, IsGridTo(Len(table), g, table), NEW x \in CellsIn(g), NEW d \in Nat,
           NEW m, m = MergeOf(g, x, d)
    PROVE  /\ m = <<m[1], m[2], m[3], m[4]>> /\ {m[1], m[2], m[3], m[4]} \subseteq Nat \ {0}
           /\ m[1] <= m[3] /\ m[2] <= m[4] /\ m[1] > d
           /\ FirstPlace(g, x) = <<m[1] - d, m[2]>>
           /\ \A p \in CellsOf(m) : /\ p = <<p[1], p[2]>> /\ p[1] > d /\ p[1] \in Nat /\ p[2] \in Nat
                                    /\ <<p[1] - d, p[2]>> \in Places(g, x)
  <1>1. PICK t, l, b, e : Placed(g, x, t, l, b, e)
    BY PlacesOfCells
  <1>2. t \in Nat \ {0} /\ l \in Nat \ {0} /\ b \in Nat \ {0} /\ e \in Nat \ {0} /\ t <= b /\ l <= e
        /\ Places(g, x) = Cells(t, l, b, e) /\ FirstPlace(g, x) = <<t, l>>
    BY <1>1 DEF Placed, Bounds
  <1>3. m = <<d + 1 + t - 1, l, d + 1 + b - 1, e>>
    BY <1>1, <1>2 DEF Placed, Bounds, MergeOf
  <1>4. m = <<d + t, l, d + b, e>>
    <2>1. d + 1 + t - 1 = d + t /\ d + 1 + b - 1 = d + b
      BY <1>2
    <2> QED BY <1>3, <2>1
  <1>5. m[1] = d + t /\ m[2] = l /\ m[3] = d + b /\ m[4] = e
    BY <1>4
  <1>6. ASSUME NEW p \in CellsOf(m)
        PROVE  /\ p = <<p[1], p[2]>> /\ p[1] > d /\ p[1] \in Nat /\ p[2] \in Nat
               /\ <<p[1] - d, p[2]>> \in Places(g, x)
    <2>1. p = <<p[1], p[2]>> /\ p[1] \in (d + t)..(d + b) /\ p[2] \in l..e
      BY <1>5 DEF CellsOf, Cells
    <2>2. p[1] - d \in t..b /\ p[1] > d /\ p[1] \in Nat /\ p[2] \in Nat
      <3>1. p[1] \in Nat /\ p[1] >= d + t /\ p[1] <= d + b
        BY <1>2, <2>1
      <3>2. p[1] - d \in t..b /\ p[1] > d
        BY <1>2, <3>1
      <3>3. p[2] \in Nat
        BY <1>2, <2>1
      <3> QED BY <3>1, <3>2, <3>3
    <2>3. <<p[1] - d, p[2]>> \in Cells(t, l, b, e)
      BY <2>1, <2>2 DEF Cells
    <2> QED BY <1>2, <2>1, <2>2, <2>3
  <1>7. FirstPlace(g, x) = <<m[1] - d, m[2]>>
    <2>1. m[1] - d = t
      BY <1>2, <1>5
    <2> QED BY <1>2, <1>5, <2>1
  <1>8. {m[1], m[2], m[3], m[4]} \subseteq Nat \ {0} /\ m[1] <= m[3] /\ m[2] <= m[4] /\ m[1] > d
    BY <1>2, <1>5
  <1>9. m = <<m[1], m[2], m[3], m[4]>>
    BY <1>4
  <1> QED BY <1>6, <1>7, <1>8, <1>9

LEMMA TableMerged ==
    ASSUME NEW table \in Tables, NEW g, IsGridTo(Len(table), g, table), NEW nx, NEW path, IsPath(path, nx),
           NEW before, IsRows(before), NEW more, Below(before, TableRows(g, path), more),
           NEW new, new = TableMerges(g, Len(before) + 1)
    PROVE  Merged(more, new) /\ \A m \in new : m[1] > Len(before)
  <1>1. PICK low : low = TableRows(g, path) /\ Below(before, low, more)
    OBVIOUS
  <1>2. path \in Seq(Nat)
    BY DEF IsPath
  <1>3. /\ IsRows(low) /\ Len(low) = Len(table)
        /\ \A r \in 1..Len(table) : DOMAIN low[r] = DOMAIN g[r]
        /\ \A r, c : <<r, c>> \in Written(low) <=>
             r \in DOMAIN g /\ c \in DOMAIN g[r] /\ FirstPlace(g, g[r][c]) = <<r, c>>
    BY <1>1, <1>2, TableRowsAre
  <1>4. /\ Len(more) = Len(before) + Len(low) /\ Kept(before, more)
        /\ \A r \in 1..Len(low) : more[Len(before) + r] = low[r]
        /\ \A p \in Written(more) : p[1] > Len(before) => <<p[1] - Len(before), p[2]>> \in Written(low)
    <2>1. IsRows(before) /\ IsRows(low) /\ Below(before, low, more)
      BY <1>1, <1>3
    <2> QED BY ONLY <2>1, RowsBelow
  <1>5. PICK d \in Nat, size \in Nat : d = Len(before) /\ size = Len(table) /\ DOMAIN g = 1..size
    BY RowsAre, TablesAreTables DEF IsGridTo
  <1>6. DOMAIN more = 1..d + size
    <2>1. IsRows(more)
      BY <1>4 DEF Kept
    <2> QED BY <1>3, <1>4, <1>5, <2>1, RowsAre
  <1>7. \A m \in new : \E x \in CellsIn(g) : m = MergeOf(g, x, d)
    BY <1>5 DEF TableMerges, MergeOf
  <1>8. ASSUME NEW m \in new PROVE IsMerge(more, m) /\ m[1] > d
    <2>1. PICK x \in CellsIn(g) : m = MergeOf(g, x, d)
      BY <1>7
    <2>2. /\ m = <<m[1], m[2], m[3], m[4]>> /\ {m[1], m[2], m[3], m[4]} \subseteq Nat \ {0}
          /\ m[1] <= m[3] /\ m[2] <= m[4] /\ m[1] > d
          /\ FirstPlace(g, x) = <<m[1] - d, m[2]>>
          /\ \A p \in CellsOf(m) : /\ p = <<p[1], p[2]>> /\ p[1] > d /\ p[1] \in Nat /\ p[2] \in Nat
                                   /\ <<p[1] - d, p[2]>> \in Places(g, x)
      BY <2>1, MergeIs
    <2>3. ASSUME NEW p \in CellsOf(m)
          PROVE  /\ p[1] \in DOMAIN more /\ p[2] \in DOMAIN more[p[1]]
                 /\ p \in Written(more) => p = <<m[1], m[2]>>
      <3>1. PICK n \in Nat : n = p[1] - d /\ p[1] = d + n
        <4>1. p[1] \in Nat /\ p[1] > d
          BY <2>2
        <4>2. p[1] - d \in Nat /\ p[1] = d + (p[1] - d)
          BY <4>1
        <4> QED BY <4>2
      <3>2. n \in 1..size /\ p[2] \in DOMAIN g[n] /\ g[n][p[2]] = x
        <4>1. <<n, p[2]>> \in Places(g, x)
          BY <2>2, <3>1
        <4> QED BY <1>5, <4>1, PlacesAre
      <3>3. more[p[1]] = low[n] /\ DOMAIN low[n] = DOMAIN g[n] /\ p[1] \in 1..d + size
        <4>1. n \in 1..Len(low) /\ d + n \in 1..d + size
          BY <1>3, <1>5, <3>2
        <4>2. more[d + n] = low[n]
          BY <1>4, <1>5, <4>1
        <4> QED BY <1>3, <1>5, <3>1, <3>2, <4>1, <4>2
      <3>4. ASSUME p \in Written(more) PROVE p = <<m[1], m[2]>>
        <4>1. <<n, p[2]>> \in Written(low)
          BY <1>4, <1>5, <2>2, <3>1, <3>4
        <4>2. <<m[1] - d, m[2]>> = <<n, p[2]>>
          BY <1>3, <2>2, <3>2, <4>1
        <4>3. m[1] - d = n /\ m[2] = p[2]
          BY <4>2
        <4>4. m[1] = p[1]
          <5>1. m[1] \in Nat
            BY <2>2
          <5> QED BY <3>1, <4>3, <5>1
        <4> QED BY <2>2, <4>3, <4>4
      <3> QED BY <1>6, <3>2, <3>3, <3>4
    <2> QED BY <2>2, <2>3 DEF IsMerge
  <1>9. ASSUME NEW m \in new, NEW n \in new, m # n PROVE CellsOf(m) \cap CellsOf(n) = {}
    <2> SUFFICES ASSUME NEW p \in CellsOf(m), p \in CellsOf(n) PROVE FALSE
      OBVIOUS
    <2>1. PICK x \in CellsIn(g) : m = MergeOf(g, x, d)
      BY <1>7
    <2>2. PICK y \in CellsIn(g) : n = MergeOf(g, y, d)
      BY <1>7
    <2>3. <<p[1] - d, p[2]>> \in Places(g, x)
      BY <2>1, MergeIs
    <2>4. <<p[1] - d, p[2]>> \in Places(g, y)
      BY <2>2, MergeIs
    <2>5. x = y
      BY <2>3, <2>4, PlacesAre
    <2> QED BY <1>9, <2>1, <2>2, <2>5
  <1> QED BY <1>5, <1>8, <1>9 DEF Merged, Disjoint

LEMMA MergesJoined ==
    ASSUME NEW before, NEW more, Kept(before, more), NEW ss, Merged(before, ss), NEW ts, OwnRows(before, ss, ts),
           NEW new, Merged(more, new), \A m \in new : m[1] > Len(before)
    PROVE  Merged(more, ss \cup new) /\ OwnRows(more, ss \cup new, ts)
  <1>1. Merged(more, ss) /\ OwnRows(more, ss, ts)
    BY KeptMerged, KeptOwnRows
  <1>2. PICK d \in Nat : d = Len(before) /\ DOMAIN before = 1..d
    BY RowsAre DEF Kept
  <1>3. ASSUME NEW m \in ss, NEW n \in new PROVE CellsOf(m) \cap CellsOf(n) = {}
    <2> SUFFICES ASSUME NEW p \in CellsOf(m), p \in CellsOf(n) PROVE FALSE
      OBVIOUS
    <2>1. IsMerge(before, m) /\ IsMerge(more, n)
      BY DEF Merged
    <2>2. p[1] \in 1..d
      BY <1>2, <2>1, InRows
    <2>3. p[1] \in n[1]..n[3]
      BY <2>1, InRows
    <2>4. n[1] > d /\ n[1] \in Nat /\ n[3] \in Nat
      BY <1>2, <2>1 DEF IsMerge
    <2> QED BY <2>2, <2>3, <2>4
  <1>4. Disjoint(ss \cup new)
    <2> SUFFICES ASSUME NEW m \in ss \cup new, NEW n \in ss \cup new, m # n PROVE CellsOf(m) \cap CellsOf(n) = {}
      BY DEF Disjoint
    <2>1. CASE m \in ss /\ n \in ss
      BY <1>1, <2>1 DEF Merged, Disjoint
    <2>2. CASE m \in new /\ n \in new
      BY <2>2 DEF Merged, Disjoint
    <2>3. CASE m \in ss /\ n \in new
      BY <1>3, <2>3
    <2>4. CASE m \in new /\ n \in ss
      BY <1>3, <2>4
    <2> QED BY <2>1, <2>2, <2>3, <2>4
  <1>5. ASSUME NEW r \in ts, NEW m \in ss \cup new PROVE r \notin m[1]..m[3]
    <2>1. r \in 1..d
      BY <1>2 DEF OwnRows
    <2>2. CASE m \in new
      <3>1. m[1] > d /\ IsMerge(more, m)
        BY <1>2, <2>2 DEF Merged
      <3>2. m[1] \in Nat /\ m[3] \in Nat
        BY <3>1 DEF IsMerge
      <3> QED BY <2>1, <3>1, <3>2
    <2> QED BY <2>2 DEF OwnRows
  <1> QED BY <1>1, <1>4, <1>5 DEF Merged, OwnRows

\* The tables in a table that was just added.
LEMMA TableWaits ==
    ASSUME NEW table \in Tables, NEW g, IsGridTo(Len(table), g, table), NEW nx, NEW path, IsPath(path, nx),
           NEW rs, NEW before, Kept(rs, before), NEW more, Below(before, TableRows(g, path), more),
           Grows(rs, more, path, 2), NEW new, new = NestedTables(table, g, Len(before) + 1, path)
    PROVE  Waiting(more, new, nx) /\ \A i \in DOMAIN new : Extends(new[i].path, path)
  <1>1. path \in Seq(Nat) /\ Len(path) % 3 = 1 /\ path[1] < nx /\ IsRows(before)
    BY DEF IsPath, Kept
  <1>2. PICK len \in Nat, d \in Nat : len = Len(path) /\ d = Len(before) /\ len > 0
    <2>1. Len(path) \in Nat /\ Len(before) \in Nat
      BY <1>1, RowsAre, LenProperties
    <2>2. Len(path) > 0
      BY <1>1, <2>1
    <2> QED BY <2>1, <2>2
  <1>3. AreNested(new, g, d + 1, path)
    <2>1. d + 1 \in Nat \ {0}
      OBVIOUS
    <2> QED BY <1>1, <1>2, <2>1, NestedAre
  <1>4. FirstsSay(g, more, d, path)
    BY <1>1, <1>2, TableAnchors
  <1>5. ASSUME NEW i \in DOMAIN new
        PROVE  /\ Waits(more, new[i], nx) /\ new[i].path \in Seq(Nat)
               /\ Len(new[i].path) = len + 3 /\ Extends(new[i].path, path)
    <2>1. PICK entry : entry = new[i]
      OBVIOUS
    <2>2. entry \in TodoEntry
      <3>1. new \in Seq(TodoEntry)
        BY <1>3 DEF AreNested
      <3> QED BY <2>1, <3>1, LenProperties, ElementOfSeq
    <2>3. PICK r, c, n : r \in DOMAIN g /\ c \in DOMAIN g[r] /\ InPlace(entry, g, d + 1, path, r, c, n)
      BY <1>3, <2>1 DEF AreNested
    <2>4. r \in Nat /\ c \in Nat /\ n \in Nat
      <3>1. r \in 1..Len(table)
        BY <2>3 DEF IsGridTo
      <3>2. DOMAIN g[r] = 1..Width(table[r])
        BY <3>1, RowOfGrid
      <3>3. r \in Nat
        BY <3>1
      <3>4. c \in Nat
        BY <2>3, <3>2
      <3>5. n \in Nat
        BY <2>3 DEF InPlace
      <3> QED BY <3>3, <3>4, <3>5
    <2>5. entry.path = path \o <<r, c, n>> /\ entry.cell = <<d + 1 + r - 1, c>> /\ FirstPlace(g, g[r][c]) = <<r, c>>
      BY <2>3 DEF InPlace
    <2>6. PICK s : s = entry.path
      OBVIOUS
    <2>7. s \in Seq(Nat) /\ Len(s) = len + 3 /\ (\A j \in 1..len : s[j] = path[j])
          /\ s[len + 1] = r /\ s[len + 2] = c
      <3>1. PICK t : t = path \o <<r, c, n>>
        OBVIOUS
      <3>2. /\ t \in Seq(Nat) /\ Len(t) = Len(path) + 3 /\ t[Len(path) + 1] = r /\ t[Len(path) + 2] = c
            /\ \A j \in 1..Len(path) : t[j] = path[j]
        BY <1>1, <2>4, <3>1, LongerPaths
      <3>3. s = t
        BY <2>5, <2>6, <3>1
      <3> QED BY <1>2, <3>2, <3>3
    <2>8. IsPath(s, nx)
      <3>1. (len + 3) % 3 = 1
        BY <1>1, <1>2
      <3>2. s[1] = path[1]
        BY <1>2, <2>7
      <3> QED BY <1>1, <2>7, <3>1, <3>2 DEF IsPath
    <2>9. Extends(s, path)
      BY <1>2, <2>7 DEF Extends
    <2>10. ASSUME NEW p \in Written(more), Extends(Says(more, p), s) PROVE FALSE
      <3>1. PICK t : t = Says(more, p) /\ t \in Seq(Nat)
        BY AddedIs
      <3>2. Len(t) >= len + 3 /\ Len(t) \in Nat
        BY <2>7, <2>10, <3>1, LenProperties DEF Extends
      <3>3. CASE p \in Written(rs) /\ t = Says(rs, p)
        <4>1. Extends(t, path)
          BY <1>1, <2>7, <2>9, <2>10, <3>1, ExtendsOn
        <4>2. t = path
          BY <3>3, <4>1 DEF Grows
        <4> QED BY <1>2, <3>2, <4>2
      <3>4. CASE Len(t) = len + 2
        BY <3>2, <3>4
      <3> QED BY <1>2, <3>1, <3>3, <3>4, AddedIs
    <2>11. PICK own : own = path \o <<r, c>>
      OBVIOUS
    <2>12. entry.cell \in Written(more) /\ Says(more, entry.cell) = own
      BY <1>4, <2>3, <2>5, <2>11 DEF FirstsSay
    <2>13. IsLabel(s, own)
      <3>1. Len(own) = len + 2 /\ (\A j \in 1..len : own[j] = path[j]) /\ own[len + 1] = r /\ own[len + 2] = c
        BY <1>1, <1>2, <2>4, <2>11, CellPaths
      <3>2. \A j \in 1..len + 2 : j \in 1..len \/ j = len + 1 \/ j = len + 2
        OBVIOUS
      <3>3. \A j \in 1..len + 2 : s[j] = own[j]
        BY <2>7, <3>1, <3>2
      <3>4. Len(s) = Len(own) + 1 /\ Len(own) <= Len(s)
        BY <2>7, <3>1
      <3> QED BY <3>1, <3>3, <3>4 DEF IsLabel, Extends
    <2>14. Waits(more, entry, nx)
      BY <2>2, <2>6, <2>8, <2>10, <2>12, <2>13 DEF Waits, Unsaid
    <2> QED BY <2>1, <2>6, <2>7, <2>9, <2>14
  <1>6. ASSUME NEW i \in DOMAIN new, NEW j \in DOMAIN new, i # j PROVE Apart(new[i].path, new[j].path)
    <2>1. PICK s, t : s = new[i].path /\ t = new[j].path
      OBVIOUS
    <2>2. s \in Seq(Nat) /\ t \in Seq(Nat) /\ Len(s) = Len(t)
      BY <1>5, <2>1
    <2>3. s # t
      BY <1>3, <1>6, <2>1 DEF AreNested
    <2>4. ~Extends(s, t) /\ ~Extends(t, s)
      BY <2>2, <2>3, ExtendsOn
    <2> QED BY <2>1, <2>4 DEF Apart
  <1>7. new \in Seq(TodoEntry)
    BY <1>3 DEF AreNested
  <1> QED BY <1>5, <1>6, <1>7 DEF Waiting

LEMMA WaitingJoined ==
    ASSUME NEW rs, NEW nx, NEW new, Waiting(rs, new, nx), NEW path \in Seq(Nat),
           \A i \in DOMAIN new : Extends(new[i].path, path), NEW after, Waiting(rs, after, nx), Beside(path, after),
           NEW td, td = new \o after
    PROVE  Waiting(rs, td, nx)
  <1>1. new \in Seq(TodoEntry) /\ after \in Seq(TodoEntry)
    BY DEF Waiting
  <1>2. PICK a \in Nat, b \in Nat : a = Len(new) /\ b = Len(after) /\ DOMAIN new = 1..a /\ DOMAIN after = 1..b
    BY <1>1, LenProperties
  <1>3. td \in Seq(TodoEntry) /\ Len(td) = a + b /\ (\A i \in 1..a : td[i] = new[i])
        /\ \A i \in 1..b : td[a + i] = after[i]
    BY <1>1, <1>2, ConcatProperties
  <1>4. DOMAIN td = 1..a + b
    BY <1>3, LenProperties
  <1>5. \A i \in DOMAIN td : \/ i \in DOMAIN new /\ td[i] = new[i]
                             \/ \E k \in DOMAIN after : i = a + k /\ td[i] = after[k]
    <2> TAKE i \in DOMAIN td
    <2>1. CASE i <= a
      BY <1>2, <1>3, <1>4, <2>1
    <2>2. CASE i > a
      <3>1. PICK k \in 1..b : i = a + k
        <4>1. i - a \in 1..b /\ i = a + (i - a)
          BY <1>4, <2>2
        <4> QED BY <4>1
      <3> QED BY <1>2, <1>3, <3>1
    <2> QED BY <1>4, <2>1, <2>2
  <1>6. \A i \in DOMAIN td : Waits(rs, td[i], nx)
    BY <1>5 DEF Waiting
  <1>7. ASSUME NEW i \in DOMAIN new, NEW k \in DOMAIN after
        PROVE  Apart(new[i].path, after[k].path) /\ Apart(after[k].path, new[i].path)
    <2>1. PICK s, t : s = new[i].path /\ t = after[k].path
      OBVIOUS
    <2>2. s \in Seq(Nat) /\ t \in Seq(Nat) /\ Extends(s, path) /\ Apart(path, t)
      BY <2>1 DEF Waiting, Waits, IsPath, Beside
    <2>3. ~Extends(s, t) /\ ~Extends(t, s)
      BY <2>2, ExtendsOn DEF Apart
    <2> QED BY <2>1, <2>3 DEF Apart
  <1>8. ASSUME NEW i \in DOMAIN td, NEW j \in DOMAIN td, i # j PROVE Apart(td[i].path, td[j].path)
    <2>1. CASE i \in DOMAIN new /\ td[i] = new[i] /\ j \in DOMAIN new /\ td[j] = new[j]
      BY <1>8, <2>1 DEF Waiting
    <2>2. ASSUME NEW k \in DOMAIN after, NEW l \in DOMAIN after, i = a + k, j = a + l, td[i] = after[k], td[j] = after[l]
          PROVE  Apart(td[i].path, td[j].path)
      <3>1. k # l
        BY <1>8, <2>2
      <3> QED BY <2>2, <3>1 DEF Waiting
    <2> QED BY <1>5, <1>7, <2>1, <2>2
  <1> QED BY <1>3, <1>6, <1>8 DEF Waiting

-----------------------------------------------------------------------------
(* Every stage of the parse                                                    *)

Laid(rs, ss, ts, ls, ps, td, nx) ==
    /\ IsRows(rs) /\ nx \in Nat /\ Texts(rs, nx)
    /\ LinksLead(rs, ls) /\ LabelsLinked(rs, DOMAIN ls) /\ Waiting(rs, td, nx)
    /\ Merged(rs, ss) /\ OwnRows(rs, ss, ts) /\ Anchored(rs, ps)

\* A row of its own for a paragraph or a label.
LEMMA OwnRowAdded ==
    ASSUME NEW rs, NEW more, Kept(rs, more), NEW ss, Merged(rs, ss), NEW ts, OwnRows(rs, ss, ts),
           NEW r, r \in DOMAIN more, r > Len(rs), NEW text, more[r] = <<text>>
    PROVE  OwnRows(more, ss, ts \cup {r})
  <1>1. OwnRows(more, ss, ts) /\ Len(more[r]) = 1
    BY KeptOwnRows
  <1>2. ASSUME NEW m \in ss PROVE r \notin m[1]..m[3]
    <2>1. IsMerge(rs, m)
      BY DEF Merged
    <2>2. PICK p : p = <<m[3], m[4]>>
      OBVIOUS
    <2>3. p \in CellsOf(m) /\ m[1] \in Nat /\ m[3] \in Nat
      BY <2>1, <2>2 DEF IsMerge, CellsOf, Cells
    <2>4. p[1] \in DOMAIN rs
      BY <2>1, <2>3 DEF IsMerge
    <2>5. m[3] \in 1..Len(rs) /\ Len(rs) \in Nat
      BY <2>2, <2>4, RowsAre DEF Kept
    <2>6. r \in 1..Len(more) /\ Len(more) \in Nat
      BY RowsAre DEF Kept
    <2> QED BY <2>3, <2>5, <2>6
  <1> QED BY <1>1, <1>2 DEF OwnRows

LEMMA TextsOn ==
    ASSUME NEW rs, IsRows(rs), NEW nx \in Nat, Texts(rs, nx)
    PROVE  Texts(rs, nx + 1)
  <1> SUFFICES ASSUME NEW p \in Written(rs) PROVE Says(rs, p)[1] < nx + 1
    BY DEF Texts
  <1>1. PICK t : t = Says(rs, p) /\ t \in Seq(Nat) /\ t # Blank
    BY WrittenIs
  <1>2. t[1] \in Nat
    <2>1. Len(t) \in Nat \ {0} /\ \A i \in 1..Len(t) : t[i] \in Nat
      BY <1>1, LenProperties, ElementOfSeq, EmptySeq DEF Blank
    <2> QED BY <2>1
  <1>3. t[1] < nx
    BY <1>1 DEF Texts
  <1> QED BY <1>1, <1>2, <1>3

\* The path of the next block: no row is below it yet.
LEMMA BlockPath ==
    ASSUME NEW rs, IsRows(rs), NEW nx \in Nat, Texts(rs, nx), NEW path, path = <<nx>>
    PROVE  IsPath(path, nx + 1) /\ Unsaid(rs, path) /\ Texts(rs, nx + 1)
  <1>1. path \in Seq(Nat) /\ Len(path) = 1 /\ path[1] = nx
    OBVIOUS
  <1>2. IsPath(path, nx + 1)
    BY <1>1 DEF IsPath
  <1>3. ASSUME NEW p \in Written(rs), Extends(Says(rs, p), path) PROVE FALSE
    <2>1. Says(rs, p)[1] = nx
      BY <1>1, <1>3 DEF Extends
    <2>2. Says(rs, p)[1] < nx
      BY DEF Texts
    <2> QED BY <2>1, <2>2
  <1> QED BY <1>2, <1>3, TextsOn DEF Unsaid

LEMMA ParagraphLaid ==
    ASSUME NEW rs, NEW ss, NEW ts, NEW ls, NEW ps, NEW nx, Laid(rs, ss, ts, ls, ps, <<>>, nx),
           NEW sep, sep = IF rs = <<>> THEN rs ELSE Append(rs, <<Blank>>),
           NEW more, more = Append(sep, <<<<nx>>>>),
           NEW images, \A x \in images : x = <<Len(sep) + 1, 1, <<nx>>>>
    PROVE  Laid(more, ss, ts \cup {Len(sep) + 1}, ls, ps \cup images, <<>>, nx + 1)
  <1>1. PICK path : path = <<nx>>
    OBVIOUS
  <1>2. IsRows(rs) /\ nx \in Nat /\ Texts(rs, nx)
    BY DEF Laid
  <1>3. IsPath(path, nx + 1) /\ Unsaid(rs, path) /\ Texts(rs, nx + 1)
    BY <1>1, <1>2, BlockPath
  <1>4. PICK r : r = Len(sep) + 1
    OBVIOUS
  <1>5. /\ Grows(rs, more, path, 0) /\ <<r, 1>> \in Written(more) /\ Says(more, <<r, 1>>) = path
        /\ more[r] = <<path>> /\ r \in DOMAIN more /\ r > Len(rs)
    <2>1. Labelled(rs, sep, path, more)
      BY <1>1 DEF Labelled
    <2>2. LabelIn(rs, more, path, r)
      BY <1>2, <1>3, <1>4, <2>1, LabelAdds
    <2> QED BY <2>2 DEF LabelIn
  <1>6. Kept(rs, more) /\ IsRows(more)
    BY <1>5 DEF Grows, Kept
  <1>7. Texts(more, nx + 1)
    <2>1. nx + 1 \in Nat /\ path[1] < nx + 1
      BY <1>2, <1>3 DEF IsPath
    <2>2. Grows(rs, more, path, 0)
      BY <1>5
    <2> QED BY <1>3, <2>1, <2>2, GrowsTexts
  <1>8. LinksLead(more, ls)
    BY <1>6, KeptLinks DEF Laid
  <1>9. LabelsLinked(more, DOMAIN ls)
    <2>1. \A q \in Written(rs) : ~IsLabel(path, Says(rs, q))
      <3> TAKE q \in Written(rs)
      <3>1. Len(Says(rs, q)) \in Nat \ {0} /\ Len(path) = 1
        BY <1>1, <1>2, WrittenIs
      <3> QED BY <3>1 DEF IsLabel
    <2>2. Grows(rs, more, path, 0) /\ LabelsLinked(rs, DOMAIN ls)
      BY <1>5 DEF Laid
    <2> QED BY <1>2, <2>1, <2>2, GrowsLabels
  <1>10. Waiting(more, <<>>, nx + 1)
    BY DEF Waiting
  <1>11. Merged(more, ss) /\ OwnRows(more, ss, ts \cup {r})
    BY <1>5, <1>6, KeptMerged, OwnRowAdded DEF Laid
  <1>12. Anchored(more, ps)
    BY <1>6, KeptAnchored DEF Laid
  <1>13. Anchored(more, images)
    <2> SUFFICES ASSUME NEW x \in images
                 PROVE  /\ x = <<x[1], x[2], x[3]>>
                        /\ <<x[1], x[2]>> \in Written(more) /\ Says(more, <<x[1], x[2]>>) = x[3]
      BY DEF Anchored
    <2>1. x = <<r, 1, path>>
      BY <1>1, <1>4
    <2>2. x = <<x[1], x[2], x[3]>> /\ x[1] = r /\ x[2] = 1 /\ x[3] = path
      BY <2>1
    <2> QED BY <1>5, <2>2
  <1>14. Anchored(more, ps \cup images)
    BY <1>12, <1>13 DEF Anchored
  <1>15. nx + 1 \in Nat
    BY <1>2
  <1> QED BY <1>4, <1>6, <1>7, <1>8, <1>9, <1>10, <1>11, <1>14, <1>15 DEF Laid

\* The label of the next nested table, and the link to it.
LinkedAs(lk, ls, cell, row) == lk = [c \in DOMAIN ls \cup {cell} |-> IF c = cell THEN row ELSE ls[c]]

LEMMA LabelLaid ==
    ASSUME NEW rs, NEW ss, NEW ts, NEW ls, NEW ps, NEW td, NEW nx, Laid(rs, ss, ts, ls, ps, td, nx), td # <<>>,
           NEW sep, NEW path, path = Head(td).path, NEW more, Labelled(rs, sep, path, more),
           NEW cell, cell = Head(td).cell, NEW lk, LinkedAs(lk, ls, cell, Len(sep) + 1)
    PROVE  /\ Laid(more, ss, ts \cup {Len(sep) + 1}, lk, ps, Tail(td), nx)
           /\ Head(td) \in TodoEntry /\ IsPath(path, nx) /\ Free(more, path) /\ Beside(path, Tail(td))
  <1>1. IsRows(rs) /\ nx \in Nat /\ Texts(rs, nx) /\ Waiting(rs, td, nx)
    BY DEF Laid
  <1>2. PICK n \in Nat : n = Len(td) /\ DOMAIN td = 1..n /\ n > 0 /\ td \in Seq(TodoEntry)
    <2>1. td \in Seq(TodoEntry)
      BY <1>1 DEF Waiting
    <2>2. Len(td) \in Nat /\ Len(td) # 0
      BY <2>1, LenProperties, EmptySeq
    <2> QED BY <2>1, <2>2, LenProperties
  <1>3. Head(td) = td[1] /\ 1 \in DOMAIN td
    BY <1>2
  <1>4. PICK rest : rest = Tail(td)
    OBVIOUS
  <1>5. rest \in Seq(TodoEntry) /\ Len(rest) = n - 1 /\ \A i \in 1..(n - 1) : rest[i] = td[i + 1]
    BY <1>2, <1>4, HeadTailProperties
  <1>6. \A i \in DOMAIN rest : i + 1 \in DOMAIN td /\ i + 1 # 1 /\ rest[i] = td[i + 1]
    <2>1. DOMAIN rest = 1..(n - 1)
      BY <1>5, LenProperties
    <2> QED BY <1>2, <1>5, <2>1
  <1>7. PICK entry : entry = Head(td) /\ Waits(rs, entry, nx)
    BY <1>1, <1>3 DEF Waiting
  <1>8. /\ entry \in TodoEntry /\ IsPath(path, nx) /\ Unsaid(rs, path)
        /\ cell \in Written(rs) /\ IsLabel(path, Says(rs, cell))
    BY <1>7 DEF Waits
  <1>9. Beside(path, rest)
    <2> SUFFICES ASSUME NEW i \in DOMAIN rest PROVE Apart(path, rest[i].path)
      BY DEF Beside
    <2>1. PICK j \in DOMAIN td : j # 1 /\ rest[i] = td[j]
      BY <1>6
    <2>2. Apart(td[1].path, td[j].path)
      BY <1>1, <1>3, <2>1 DEF Waiting
    <2> QED BY <1>3, <2>1, <2>2
  <1>10. Waiting(rs, rest, nx)
    <2>1. \A i \in DOMAIN rest : Waits(rs, rest[i], nx)
      BY <1>1, <1>6 DEF Waiting
    <2>2. ASSUME NEW i \in DOMAIN rest, NEW j \in DOMAIN rest, i # j PROVE Apart(rest[i].path, rest[j].path)
      <3>1. i \in Nat /\ j \in Nat
        BY <1>5, LenProperties
      <3>2. PICK k \in DOMAIN td, l \in DOMAIN td : k # l /\ rest[i] = td[k] /\ rest[j] = td[l]
        <4>1. i + 1 # j + 1
          BY <2>2, <3>1
        <4> QED BY <1>6, <4>1
      <3>3. Apart(td[k].path, td[l].path)
        BY <1>1, <3>2 DEF Waiting
      <3> QED BY <3>2, <3>3
    <2> QED BY <1>5, <2>1, <2>2 DEF Waiting
  <1>11. PICK r : r = Len(sep) + 1
    OBVIOUS
  <1>12. /\ Grows(rs, more, path, 0) /\ <<r, 1>> \in Written(more) /\ Says(more, <<r, 1>>) = path
         /\ more[r] = <<path>> /\ r \in DOMAIN more /\ r > Len(rs)
         /\ \A p \in Written(more) : p[1] > Len(rs) => p = <<r, 1>>
    <2>1. LabelIn(rs, more, path, r)
      BY <1>1, <1>8, <1>11, LabelAdds
    <2> QED BY <2>1 DEF LabelIn
  <1>13. Kept(rs, more) /\ IsRows(more)
    BY <1>12 DEF Grows, Kept
  <1>14. Texts(more, nx)
    BY <1>1, <1>8, <1>12, GrowsTexts DEF IsPath
  <1>15. DOMAIN lk = DOMAIN ls \cup {cell} /\ lk[cell] = r /\ \A c \in DOMAIN ls : c # cell => lk[c] = ls[c]
    BY <1>11 DEF LinkedAs
  <1>16. cell \in Written(more) /\ Says(more, cell) = Says(rs, cell)
    BY <1>8, <1>13, KeptRows
  <1>17. LinksLead(more, lk)
    <2> SUFFICES ASSUME NEW p \in DOMAIN lk
                 PROVE  /\ p \in Written(more) /\ <<lk[p], 1>> \in Written(more)
                        /\ IsLabel(Says(more, <<lk[p], 1>>), Says(more, p))
      BY DEF LinksLead
    <2>1. LinksLead(more, ls)
      BY <1>13, KeptLinks DEF Laid
    <2>2. CASE p = cell
      BY <1>8, <1>12, <1>15, <1>16, <2>2
    <2>3. CASE p # cell
      <3>1. p \in DOMAIN ls /\ lk[p] = ls[p]
        BY <1>15, <2>3
      <3> QED BY <2>1, <3>1 DEF LinksLead
    <2> QED BY <2>2, <2>3
  <1>18. LabelsLinked(more, DOMAIN lk)
    <2>1. LabelsLinked(rs, DOMAIN lk)
      BY <1>15 DEF Laid, LabelsLinked
    <2>2. ASSUME NEW q \in Written(rs), IsLabel(path, Says(rs, q)) PROVE q \in DOMAIN lk
      <3>1. PICK t, u : t = Says(rs, q) /\ u = Says(rs, cell)
        OBVIOUS
      <3>2. t \in Seq(Nat) /\ u \in Seq(Nat) /\ Len(t) \in Nat /\ Len(u) \in Nat
        BY <1>1, <1>8, <3>1, WrittenIs
      <3>3. Extends(path, t) /\ Extends(path, u) /\ Len(path) = Len(t) + 1 /\ Len(path) = Len(u) + 1
        BY <1>8, <2>2, <3>1 DEF IsLabel
      <3>4. Len(t) = Len(u)
        BY <3>2, <3>3
      <3>5. Extends(t, u)
        <4>1. \A i \in 1..Len(u) : t[i] = u[i]
          BY <3>3, <3>4 DEF Extends
        <4> QED BY <3>2, <3>4, <4>1 DEF Extends
      <3>6. t = u
        BY <3>2, <3>4, <3>5, ExtendsOn
      <3>7. q = cell
        BY <1>1, <1>8, <3>1, <3>6 DEF Texts
      <3> QED BY <1>15, <3>7
    <2> QED BY <1>1, <1>12, <2>1, <2>2, GrowsLabels
  <1>19. Waiting(more, rest, nx)
    BY <1>9, <1>10, <1>12, GrowsWaiting
  <1>20. Merged(more, ss) /\ OwnRows(more, ss, ts \cup {r}) /\ Anchored(more, ps)
    BY <1>12, <1>13, KeptMerged, OwnRowAdded, KeptAnchored DEF Laid
  <1>21. Free(more, path)
    <2> SUFFICES ASSUME NEW p \in Written(more), Extends(Says(more, p), path) PROVE Says(more, p) = path
      BY DEF Free
    <2>1. CASE p \in Written(rs) /\ Says(more, p) = Says(rs, p)
      BY <1>8, <2>1 DEF Unsaid
    <2>2. CASE p[1] > Len(rs)
      BY <1>12, <2>2
    <2> QED BY <1>12, <2>1, <2>2, AddedIs
  <1> QED BY <1>1, <1>4, <1>7, <1>8, <1>9, <1>11, <1>13, <1>14, <1>17, <1>18, <1>19, <1>20, <1>21 DEF Laid

\* A table, the rows before separated from it or ending in its label.
LEMMA TableLaid ==
    ASSUME NEW rs, NEW ss, NEW ts, NEW ls, NEW ps, NEW td, NEW nx, Laid(rs, ss, ts, ls, ps, td, nx),
           NEW table \in Tables, NEW g, IsGridTo(Len(table), g, table), NEW path, IsPath(path, nx),
           Free(rs, path), Beside(path, td),
           NEW before, Kept(rs, before), Written(before) \subseteq Written(rs),
           NEW more, Below(before, TableRows(g, path), more),
           NEW new, new = NestedTables(table, g, Len(before) + 1, path)
    PROVE  Laid(more, ss \cup TableMerges(g, Len(before) + 1), ts, ls,
                ps \cup TablePictures(table, g, Len(before) + 1, path), new \o td, nx)
  <1>1. nx \in Nat /\ Texts(rs, nx) /\ Waiting(rs, td, nx) /\ IsRows(rs) /\ IsRows(before) /\ path \in Seq(Nat)
    BY DEF Laid, Kept, IsPath
  <1>2. Grows(rs, more, path, 2) /\ Kept(before, more)
    BY TableAdds
  <1>3. Kept(rs, more) /\ IsRows(more)
    BY <1>2 DEF Grows, Kept
  <1>4. Texts(more, nx)
    BY <1>1, <1>2, GrowsTexts DEF IsPath
  <1>5. LinksLead(more, ls)
    BY <1>3, KeptLinks DEF Laid
  <1>6. LabelsLinked(more, DOMAIN ls)
    <2>1. LabelsLinked(rs, DOMAIN ls)
      BY DEF Laid
    <2> QED BY <1>1, <1>2, <2>1, GrowsLabels
  <1>7. Waiting(more, td, nx)
    BY <1>1, <1>2, GrowsWaiting
  <1>8. Waiting(more, new, nx) /\ \A i \in DOMAIN new : Extends(new[i].path, path)
    BY <1>2, TableWaits
  <1>9. Waiting(more, new \o td, nx)
    BY <1>1, <1>7, <1>8, WaitingJoined
  <1>10. PICK merges : merges = TableMerges(g, Len(before) + 1)
    OBVIOUS
  <1>11. Merged(more, merges) /\ \A m \in merges : m[1] > Len(before)
    BY <1>1, <1>10, TableMerged
  <1>12. Merged(more, ss \cup merges) /\ OwnRows(more, ss \cup merges, ts)
    <2>1. Merged(before, ss) /\ OwnRows(before, ss, ts)
      BY KeptMerged, KeptOwnRows DEF Laid
    <2> QED BY <1>2, <1>11, <2>1, MergesJoined
  <1>13. PICK images : images = TablePictures(table, g, Len(before) + 1, path)
    OBVIOUS
  <1>14. Anchored(more, images)
    BY <1>1, <1>13, TableAnchors
  <1>15. Anchored(more, ps \cup images)
    <2>1. Anchored(more, ps)
      BY <1>3, KeptAnchored DEF Laid
    <2> QED BY <1>14, <2>1 DEF Anchored
  <1> QED BY <1>1, <1>3, <1>4, <1>5, <1>6, <1>9, <1>10, <1>12, <1>13, <1>15 DEF Laid

-----------------------------------------------------------------------------
(* The width of the sheet                                                      *)

Wide(rs, w) == w \in Nat \ {0} /\ w <= MaxWidth /\ \A r \in DOMAIN rs : Len(rs[r]) <= w

LEMMA WideRow ==
    ASSUME NEW rs, IsRows(rs), NEW w, Wide(rs, w), NEW row \in Seq(Seq(Nat)), Len(row) = 1,
           NEW more, more = Append(rs, row)
    PROVE  Wide(more, w)
  <1>1. PICK n \in Nat : n = Len(rs) /\ DOMAIN rs = 1..n
    BY RowsAre
  <1>2. Kept(rs, more) /\ Len(more) = n + 1 /\ more[n + 1] = row
    BY <1>1, RowAdded
  <1>3. DOMAIN more = 1..n + 1
    BY <1>2, RowsAre DEF Kept
  <1>4. ASSUME NEW r \in DOMAIN more PROVE Len(more[r]) <= w
    <2>1. CASE r \in 1..n
      BY <1>1, <1>2, <2>1 DEF Kept, Wide
    <2>2. CASE r = n + 1
      <3>1. Len(more[r]) = 1
        BY <1>2, <2>2
      <3> QED BY <3>1 DEF Wide
    <2> QED BY <1>3, <2>1, <2>2
  <1> QED BY <1>4 DEF Wide

LEMMA WideSeparated ==
    ASSUME NEW rs, IsRows(rs), NEW w, Wide(rs, w), NEW sep, sep = IF rs = <<>> THEN rs ELSE Append(rs, <<Blank>>)
    PROVE  Wide(sep, w)
  <1>1. <<Blank>> \in Seq(Seq(Nat)) /\ Len(<<Blank>>) = 1
    BY DEF Blank
  <1>2. CASE rs = <<>>
    BY <1>2
  <1>3. CASE rs # <<>>
    BY <1>1, <1>3, WideRow
  <1> QED BY <1>2, <1>3

LEMMA WideTable ==
    ASSUME NEW table \in Tables, NEW g, IsGridTo(Len(table), g, table), NEW path \in Seq(Nat),
           NEW before, IsRows(before), NEW w, Wide(before, w), NEW more, Below(before, TableRows(g, path), more),
           NEW v, v = Max({Len(g[r]) : r \in DOMAIN g} \cup {w}), \A r \in DOMAIN g : Len(g[r]) <= MaxWidth
    PROVE  Wide(more, v)
  <1>1. PICK low : low = TableRows(g, path) /\ Below(before, low, more)
    OBVIOUS
  <1>2. IsRows(low) /\ Len(low) = Len(table) /\ \A r \in 1..Len(table) : Len(low[r]) = Len(g[r])
    BY <1>1, TableRowsAre
  <1>3. PICK d \in Nat, size \in Nat : d = Len(before) /\ size = Len(table) /\ DOMAIN before = 1..d
    BY RowsAre, TablesAreTables
  <1>4. /\ Kept(before, more) /\ Len(more) = d + size /\ \A r \in 1..size : more[d + r] = low[r]
    <2>1. IsRows(before) /\ IsRows(low) /\ Below(before, low, more) /\ d = Len(before) /\ size = Len(low)
      BY <1>1, <1>2, <1>3
    <2> QED BY ONLY <2>1, RowsBelow
  <1>5. DOMAIN more = 1..d + size
    BY <1>4, RowsAre DEF Kept
  <1>6. DOMAIN g = 1..size
    BY <1>3 DEF IsGridTo
  <1>7. PICK widths : widths = {Len(g[r]) : r \in DOMAIN g}
    OBVIOUS
  <1>8. \A r \in 1..size : Len(g[r]) \in Nat
    BY <1>3, RowOfGrid
  <1>9. IsFiniteSet(widths)
    <2>1. IsFiniteSet(1..size)
      BY FS_Interval
    <2>2. PICK f : f = [r \in 1..size |-> Len(g[r])]
      OBVIOUS
    <2>3. f \in Surjection(1..size, widths)
      BY <1>6, <1>7, <2>2 DEF Surjection
    <2> QED BY <2>1, <2>3, FS_Surjection
  <1>10. IsFiniteSet(widths \cup {w})
    BY <1>9, FS_AddElement
  <1>11. PICK all : all = widths \cup {w}
    OBVIOUS
  <1>12. all \in SUBSET Nat /\ all # {} /\ IsFiniteSet(all)
    BY <1>6, <1>7, <1>8, <1>10, <1>11 DEF Wide
  <1>13. v = Max(all)
    BY <1>7, <1>11
  <1>14. v \in all /\ \A y \in all : y <= v
    BY <1>12, <1>13, LargestExists
  <1>15. v \in Nat /\ v >= w /\ v <= MaxWidth /\ \A r \in 1..size : Len(g[r]) <= v
    BY <1>6, <1>7, <1>11, <1>12, <1>14 DEF Wide
  <1>16. ASSUME NEW r \in DOMAIN more PROVE Len(more[r]) <= v
    <2>1. CASE r \in 1..d
      <3>1. more[r] = before[r] /\ Len(before[r]) <= w /\ Len(before[r]) \in Nat /\ w \in Nat
        BY <1>3, <1>4, <2>1, RowsAre DEF Kept, Wide
      <3> QED BY <1>15, <3>1
    <2>2. CASE r > d
      <3>1. PICK q \in 1..size : r = d + q
        <4>1. r - d \in 1..size /\ r = d + (r - d)
          BY <1>5, <2>2
        <4> QED BY <4>1
      <3> QED BY <1>2, <1>3, <1>4, <1>15, <3>1
    <2> QED BY <1>5, <2>1, <2>2
  <1>17. v # 0
    BY <1>15 DEF Wide
  <1> QED BY <1>15, <1>16, <1>17 DEF Wide

-----------------------------------------------------------------------------
(* The document is laid out                                                    *)

Fits(rs, w, m) == CellsOf(m) \subseteq Cells(1, 1, Len(rs), w)
Clears(rs, m) == \E p \in CellsOf(m) : p # <<m[1], m[2]>> /\ p \in Written(rs)
Ready(rs, ss, ls, ps, w) ==
    /\ IsRows(rs) /\ w <= MaxWidth /\ LinksLead(rs, ls) /\ LabelsLinked(rs, DOMAIN ls) /\ Anchored(rs, ps)
    /\ Disjoint(ss) /\ \A m \in ss : Fits(rs, w, m) /\ ~Clears(rs, m)

\* The row of a paragraph or a label, over the widest table.
LEMMA OwnRowFits ==
    ASSUME NEW rs, IsRows(rs), NEW ss, Merged(rs, ss), NEW ts, OwnRows(rs, ss, ts), NEW w, Wide(rs, w),
           NEW r \in ts, NEW m, m = <<r, 1, r, w>>
    PROVE  /\ Fits(rs, w, m) /\ ~Clears(rs, m) /\ \A n \in ss : CellsOf(m) \cap CellsOf(n) = {}
           /\ \A p \in CellsOf(m) : p[1] = r
  <1>1. r \in DOMAIN rs /\ Len(rs[r]) = 1 /\ r \in 1..Len(rs) /\ Len(rs) \in Nat
    BY RowsAre DEF OwnRows
  <1>2. m[1] = r /\ m[2] = 1 /\ m[3] = r /\ m[4] = w /\ w \in Nat
    BY DEF Wide
  <1>3. ASSUME NEW p \in CellsOf(m)
        PROVE  p = <<p[1], p[2]>> /\ p[1] = r /\ p[2] \in 1..w
    <2>1. p = <<p[1], p[2]>> /\ p[1] \in r..r /\ p[2] \in 1..w
      BY <1>2 DEF CellsOf, Cells
    <2> QED BY <1>1, <2>1
  <1>4. Fits(rs, w, m)
    BY <1>1, <1>3 DEF Fits, Cells
  <1>5. ~Clears(rs, m)
    <2> SUFFICES ASSUME NEW p \in CellsOf(m), p # <<r, 1>>, p \in Written(rs) PROVE FALSE
      BY <1>2 DEF Clears
    <2>1. p[2] \in 1..Len(rs[p[1]]) /\ p[1] = r
      BY <1>3, WrittenIs
    <2>2. p[2] = 1
      <3>1. p[2] \in 1..1
        BY <1>1, <2>1
      <3> QED BY <3>1
    <2> QED BY <1>3, <2>1, <2>2
  <1>6. ASSUME NEW n \in ss PROVE CellsOf(m) \cap CellsOf(n) = {}
    <2> SUFFICES ASSUME NEW p \in CellsOf(m), p \in CellsOf(n) PROVE FALSE
      OBVIOUS
    <2>1. IsMerge(rs, n)
      BY DEF Merged
    <2>2. p[1] \in n[1]..n[3]
      BY <2>1, InRows
    <2> QED BY <1>3, <2>2 DEF OwnRows
  <1> QED BY <1>3, <1>4, <1>5, <1>6

LEMMA EverythingFits ==
    ASSUME NEW rs, NEW ss, NEW ts, NEW ls, NEW ps, NEW td, NEW nx, Laid(rs, ss, ts, ls, ps, td, nx),
           NEW w, Wide(rs, w), NEW long, long = IF w > 1 THEN {<<r, 1, r, w>> : r \in ts} ELSE {}
    PROVE  Ready(rs, ss \cup long, ls, ps, w)
  <1>1. IsRows(rs) /\ Merged(rs, ss) /\ OwnRows(rs, ss, ts)
    BY DEF Laid
  <1>2. \A m \in long : \E r \in ts : m = <<r, 1, r, w>>
    OBVIOUS
  <1>3. ASSUME NEW m \in ss PROVE Fits(rs, w, m) /\ ~Clears(rs, m)
    <2>1. IsMerge(rs, m)
      BY <1>1 DEF Merged
    <2>2. ASSUME NEW p \in CellsOf(m) PROVE p \in Cells(1, 1, Len(rs), w)
      <3>1. p = <<p[1], p[2]>> /\ p[1] \in DOMAIN rs /\ p[2] \in DOMAIN rs[p[1]]
        BY <2>1, InRows
      <3>2. p[1] \in 1..Len(rs) /\ p[2] \in 1..Len(rs[p[1]]) /\ Len(rs[p[1]]) \in Nat
        BY <1>1, <3>1, RowsAre
      <3>3. Len(rs[p[1]]) <= w /\ w \in Nat
        BY <3>1 DEF Wide
      <3>4. p[2] \in 1..w
        BY <3>2, <3>3
      <3> QED BY <3>1, <3>2, <3>4 DEF Cells
    <2>3. ~Clears(rs, m)
      BY <2>1 DEF IsMerge, Clears
    <2> QED BY <2>2, <2>3 DEF Fits
  <1>4. ASSUME NEW m \in long
        PROVE  Fits(rs, w, m) /\ ~Clears(rs, m) /\ \A n \in ss : CellsOf(m) \cap CellsOf(n) = {}
    BY <1>1, <1>2, OwnRowFits
  <1>5. ASSUME NEW m \in long, NEW n \in long, m # n PROVE CellsOf(m) \cap CellsOf(n) = {}
    <2>1. PICK q \in ts : m = <<q, 1, q, w>>
      BY <1>2
    <2>2. PICK r \in ts : n = <<r, 1, r, w>>
      BY <1>2
    <2>3. \A p \in CellsOf(m) : p[1] = q
      BY <1>1, <2>1, OwnRowFits
    <2>4. \A p \in CellsOf(n) : p[1] = r
      BY <1>1, <2>2, OwnRowFits
    <2> QED BY <1>5, <2>1, <2>2, <2>3, <2>4
  <1>6. Disjoint(ss \cup long)
    <2> SUFFICES ASSUME NEW m \in ss \cup long, NEW n \in ss \cup long, m # n PROVE CellsOf(m) \cap CellsOf(n) = {}
      BY DEF Disjoint
    <2>1. CASE m \in ss /\ n \in ss
      BY <1>1, <2>1 DEF Merged, Disjoint
    <2>2. CASE m \in long /\ n \in long
      BY <1>5, <2>2
    <2>3. CASE m \in long /\ n \in ss
      BY <1>4, <2>3
    <2>4. CASE m \in ss /\ n \in long
      BY <1>4, <2>4
    <2> QED BY <2>1, <2>2, <2>3, <2>4
  <1>7. LinksLead(rs, ls) /\ LabelsLinked(rs, DOMAIN ls) /\ Anchored(rs, ps) /\ w <= MaxWidth
    BY DEF Laid, Wide
  <1> QED BY <1>1, <1>3, <1>4, <1>6, <1>7 DEF Ready

-----------------------------------------------------------------------------
(* The invariant                                                               *)

WordSpec == WordInit /\ [][WordNext]_wordVars

Shown(rs) == {<<p[1], p[2], Says(rs, p)>> : p \in Written(rs)}

\* The rows of a document being parsed, the rows to write, and the sheet.
Parsing == Laid(rows, spans, texts, links, pictures, todo, next) /\ Wide(rows, widest)
WordInv ==
    /\ doc \in Documents /\ next \in Nat \ {0}
    /\ step = "parse" => Parsing
    /\ step \in {"write", "done"} => Ready(rows, spans, links, pictures, widest)
    /\ step = "done" => sheet = Shown(rows)

LEMMA ConstantsOfWord ==
    /\ MaxWidth \in Nat \ {0}
    /\ \A d \in Documents : Len(d) \in Nat /\ \A i \in 1..Len(d) : d[i].table \in Tables
  <1>1. MaxWidth \in Nat \ {0} /\ Documents \subseteq Seq([paragraph : BOOLEAN, image : BOOLEAN, table : Tables])
    <2>1. MaxWidth \in Nat /\ MaxWidth > 0
      BY WordAssumption
    <2>2. Documents \subseteq Seq([paragraph : BOOLEAN, image : BOOLEAN, table : Tables])
      BY WordAssumption, Zenon
    <2>3. MaxWidth \in Nat \ {0}
      BY <2>1
    <2> QED BY <2>2, <2>3
  <1>2. ASSUME NEW d \in Documents PROVE Len(d) \in Nat /\ \A i \in 1..Len(d) : d[i].table \in Tables
    <2>1. d \in Seq([paragraph : BOOLEAN, image : BOOLEAN, table : Tables])
      BY <1>1
    <2>2. Len(d) \in Nat /\ \A i \in 1..Len(d) : d[i] \in [paragraph : BOOLEAN, image : BOOLEAN, table : Tables]
      BY <2>1, LenProperties, ElementOfSeq
    <2> QED BY <2>2
  <1> QED BY <1>1, <1>2

LEMMA WordInitInv == WordInit => WordInv
  <1> SUFFICES ASSUME WordInit PROVE WordInv
    OBVIOUS
  <1>1. /\ doc \in Documents /\ next = 1 /\ widest = 1 /\ todo = <<>> /\ rows = <<>>
        /\ spans = {} /\ texts = {} /\ pictures = {} /\ links = <<>> /\ step = "parse"
    BY DEF WordInit
  <1>2. IsRows(<<>>) /\ Written(<<>>) = {} /\ DOMAIN <<>> = {}
    <2>1. DOMAIN <<>> = {}
      OBVIOUS
    <2> QED BY <2>1 DEF IsRows, Written
  <1>3. Laid(<<>>, {}, {}, <<>>, {}, <<>>, 1)
    BY <1>2 DEF Laid, Texts, LinksLead, LabelsLinked, Waiting, Merged, Disjoint, OwnRows, Anchored
  <1>4. Wide(<<>>, 1)
    BY <1>2, ConstantsOfWord DEF Wide
  <1> QED BY <1>1, <1>3, <1>4 DEF WordInv, Parsing

\* A table is laid out below the rows, unless the document is too complex.
LEMMA TableStep ==
    ASSUME NEW rs, NEW ts, NEW ls, NEW td, NEW nx, Laid(rs, spans, ts, ls, pictures, td, nx),
           NEW entry, entry.table \in Tables, IsPath(entry.path, nx), Free(rs, entry.path), Beside(entry.path, td),
           NEW before, Kept(rs, before), Written(before) \subseteq Written(rs), Wide(before, widest),
           Append_table(entry, before, td)
    PROVE  /\ step' \in {"parse", "tooComplex"}
           /\ step' = "parse" => Laid(rows', spans', ts, ls, pictures', todo', nx) /\ Wide(rows', widest')
  <1>1. PICK table, path, g, first :
           table = entry.table /\ path = entry.path /\ g = RowCells(table) /\ first = Len(before) + 1
    OBVIOUS
  <1>2. table \in Tables /\ IsGridTo(Len(table), g, table) /\ IsPath(path, nx) /\ path \in Seq(Nat)
    BY <1>1, GridIs DEF IsPath
  <1>3. PICK new : new = NestedTables(table, g, first, path)
    OBVIOUS
  <1>4. /\ rows' = before \o TableRows(g, path) /\ spans' = spans \cup TableMerges(g, first)
        /\ pictures' = pictures \cup TablePictures(table, g, first, path)
        /\ widest' = Max({Len(g[r]) : r \in DOMAIN g} \cup {widest}) /\ todo' = new \o td
    BY <1>1, <1>3 DEF Append_table
  <1>5. step' \in {"parse", "tooComplex"}
    BY DEF Append_table
  <1>6. ASSUME step' = "parse" PROVE \A r \in DOMAIN g : Len(g[r]) <= MaxWidth
    <2>1. ~\E u \in {Len(g[r]) : r \in DOMAIN g} : u > MaxWidth
      BY <1>1, <1>6 DEF Append_table
    <2>2. \A r \in DOMAIN g : Len(g[r]) \in Nat
      BY <1>2, RowOfGrid DEF IsGridTo
    <2> QED BY <2>1, <2>2, ConstantsOfWord
  <1>7. PICK more : more = rows' /\ Below(before, TableRows(g, path), more)
    BY <1>4 DEF Below
  <1>8. Free(rs, path) /\ Beside(path, td)
    BY <1>1
  <1>9. Laid(more, spans \cup TableMerges(g, first), ts, ls,
             pictures \cup TablePictures(table, g, first, path), new \o td, nx)
    BY <1>1, <1>2, <1>3, <1>7, <1>8, TableLaid
  <1>10. PICK v : v = widest'
    OBVIOUS
  <1>11. ASSUME step' = "parse" PROVE Wide(more, v)
    <2>1. v = Max({Len(g[r]) : r \in DOMAIN g} \cup {widest}) /\ IsRows(before)
      BY <1>4, <1>10 DEF Kept
    <2> QED BY <1>2, <1>6, <1>7, <1>11, <2>1, WideTable
  <1> QED BY <1>4, <1>5, <1>7, <1>9, <1>10, <1>11

LEMMA ParagraphInv == WordInv /\ AppendParagraph => WordInv'
  <1> SUFFICES ASSUME WordInv, AppendParagraph PROVE WordInv'
    OBVIOUS
  <1>1. PICK sep, more : sep = Separated /\ more = Append(sep, <<<<next>>>>)
    OBVIOUS
  <1>2. PICK images : images = IF doc[next].image THEN {<<Len(sep) + 1, 1, <<next>>>>} ELSE {}
    OBVIOUS
  <1>3. /\ rows' = more /\ texts' = texts \cup {Len(sep) + 1} /\ pictures' = pictures \cup images
        /\ step = "parse" /\ todo = <<>> /\ step' \in {"parse", "tooComplex"} /\ next' = next + 1
        /\ UNCHANGED <<doc, todo, spans, links, widest>>
    BY <1>1, <1>2 DEF AppendParagraph
  <1>4. Laid(rows, spans, texts, links, pictures, <<>>, next) /\ Wide(rows, widest) /\ next \in Nat \ {0} /\ doc \in Documents
    BY <1>3 DEF WordInv, Parsing
  <1>5. sep = IF rows = <<>> THEN rows ELSE Append(rows, <<Blank>>)
    BY <1>1 DEF Separated
  <1>6. Laid(more, spans, texts \cup {Len(sep) + 1}, links, pictures \cup images, <<>>, next + 1)
    <2>1. \A x \in images : x = <<Len(sep) + 1, 1, <<next>>>>
      BY <1>2
    <2> QED BY <1>1, <1>4, <1>5, <2>1, ParagraphLaid
  <1>7. Wide(more, widest)
    <2>1. IsRows(rows) /\ Kept(rows, sep)
      BY <1>4, <1>5, SeparatedSays DEF Laid
    <2>2. IsRows(sep) /\ Wide(sep, widest)
      BY <1>4, <1>5, <2>1, WideSeparated DEF Kept
    <2>3. <<<<next>>>> \in Seq(Seq(Nat)) /\ Len(<<<<next>>>>) = 1
      BY <1>4
    <2> QED BY <1>1, <2>2, <2>3, WideRow
  <1>8. (step = "parse" => Parsing)'
    BY <1>3, <1>6, <1>7 DEF Parsing
  <1>9. next' \in Nat \ {0} /\ doc' \in Documents
    BY <1>3, <1>4
  <1> QED BY <1>3, <1>8, <1>9 DEF WordInv

LEMMA TableInv == WordInv /\ AppendTable => WordInv'
  <1> SUFFICES ASSUME WordInv, AppendTable PROVE WordInv'
    OBVIOUS
  <1>1. PICK sep, path, entry :
           sep = Separated /\ path = <<next>> /\ entry = [table |-> doc[next].table, path |-> path]
    OBVIOUS
  <1>2. /\ step = "parse" /\ todo = <<>> /\ next <= Len(doc) /\ Append_table(entry, sep, <<>>)
        /\ next' = next + 1 /\ UNCHANGED <<doc, texts, links, sheet>>
    BY <1>1 DEF AppendTable
  <1>3. Laid(rows, spans, texts, links, pictures, <<>>, next) /\ Wide(rows, widest) /\ next \in Nat \ {0} /\ doc \in Documents
    BY <1>2 DEF WordInv, Parsing
  <1>4. entry.table \in Tables /\ entry.path = path
    <2>1. next \in 1..Len(doc)
      BY <1>2, <1>3, ConstantsOfWord
    <2> QED BY <1>1, <1>3, <2>1, ConstantsOfWord
  <1>5. IsRows(rows) /\ Texts(rows, next) /\ next \in Nat
    BY <1>3 DEF Laid
  <1>6. IsPath(path, next + 1) /\ Unsaid(rows, path) /\ Texts(rows, next + 1)
    BY <1>1, <1>5, BlockPath
  <1>7. Laid(rows, spans, texts, links, pictures, <<>>, next + 1)
    <2>1. Waiting(rows, <<>>, next + 1) /\ next + 1 \in Nat
      BY <1>5 DEF Waiting
    <2> QED BY <1>3, <1>6, <2>1 DEF Laid
  <1>8. sep = IF rows = <<>> THEN rows ELSE Append(rows, <<Blank>>)
    BY <1>1 DEF Separated
  <1>9. Kept(rows, sep) /\ Written(sep) \subseteq Written(rows) /\ Wide(sep, widest)
    BY <1>3, <1>5, <1>8, SeparatedSays, WideSeparated
  <1>10. Free(rows, path) /\ Beside(path, <<>>)
    BY <1>6 DEF Unsaid, Free, Beside
  <1>11. /\ step' \in {"parse", "tooComplex"}
         /\ step' = "parse" => Laid(rows', spans', texts, links, pictures', todo', next + 1) /\ Wide(rows', widest')
    BY <1>2, <1>4, <1>6, <1>7, <1>9, <1>10, TableStep
  <1>12. (step = "parse" => Parsing)'
    BY <1>2, <1>11 DEF Parsing
  <1>13. next' \in Nat \ {0} /\ doc' \in Documents
    BY <1>2, <1>3
  <1> QED BY <1>11, <1>12, <1>13 DEF WordInv

LEMMA NestedInv == WordInv /\ AppendNestedTable => WordInv'
  <1> SUFFICES ASSUME WordInv, AppendNestedTable PROVE WordInv'
    OBVIOUS
  <1>1. PICK sep, entry, path, before :
           sep = Separated /\ entry = Head(todo) /\ path = entry.path /\ before = Append(sep, <<path>>)
    OBVIOUS
  <1>2. PICK ts, lk : ts = texts' /\ lk = links'
    OBVIOUS
  <1>3. /\ step = "parse" /\ todo # <<>> /\ ts = texts \cup {Len(sep) + 1}
        /\ lk = [c \in DOMAIN links \cup {entry.cell} |-> IF c = entry.cell THEN Len(sep) + 1 ELSE links[c]]
        /\ Append_table(entry, before, Tail(todo)) /\ UNCHANGED <<doc, next, sheet>>
    BY <1>1, <1>2 DEF AppendNestedTable, LinksWith, LabelRow
  <1>4. Laid(rows, spans, texts, links, pictures, todo, next) /\ Wide(rows, widest) /\ next \in Nat \ {0} /\ doc \in Documents
    BY <1>3 DEF WordInv, Parsing
  <1>5. sep = IF rows = <<>> THEN rows ELSE Append(rows, <<Blank>>)
    BY <1>1 DEF Separated
  <1>6. /\ Laid(before, spans, ts, lk, pictures, Tail(todo), next)
        /\ entry \in TodoEntry /\ IsPath(path, next) /\ Free(before, path) /\ Beside(path, Tail(todo))
    <2>1. Labelled(rows, sep, path, before)
      BY <1>1, <1>5 DEF Labelled
    <2>2. LinkedAs(lk, links, Head(todo).cell, Len(sep) + 1)
      BY <1>1, <1>3 DEF LinkedAs
    <2> QED BY <1>1, <1>3, <1>4, <2>1, <2>2, LabelLaid
  <1>7. Wide(before, widest)
    <2>1. IsRows(rows) /\ Kept(rows, sep)
      BY <1>4, <1>5, SeparatedSays DEF Laid
    <2>2. IsRows(sep) /\ Wide(sep, widest)
      BY <1>4, <1>5, <2>1, WideSeparated DEF Kept
    <2>3. <<path>> \in Seq(Seq(Nat)) /\ Len(<<path>>) = 1
      BY <1>6 DEF IsPath
    <2> QED BY <1>1, <2>2, <2>3, WideRow
  <1>8. Kept(before, before) /\ Written(before) \subseteq Written(before)
    <2>1. IsRows(before) /\ Len(before) \in Nat
      BY <1>6, RowsAre DEF Laid
    <2> QED BY <2>1 DEF Kept
  <1>9. entry.table \in Tables
    BY <1>6 DEF TodoEntry
  <1>10. /\ step' \in {"parse", "tooComplex"}
         /\ step' = "parse" => Laid(rows', spans', ts, lk, pictures', todo', next) /\ Wide(rows', widest')
    BY <1>1, <1>3, <1>6, <1>7, <1>8, <1>9, TableStep
  <1>11. (step = "parse" => Parsing)'
    BY <1>2, <1>3, <1>10 DEF Parsing
  <1> QED BY <1>3, <1>4, <1>10, <1>11 DEF WordInv

LEMMA EndInv == WordInv /\ EndDocument => WordInv'
  <1> SUFFICES ASSUME WordInv, EndDocument PROVE WordInv'
    OBVIOUS
  <1>1. /\ step = "parse" /\ rows' = (IF rows = <<>> THEN <<<<Blank>>>> ELSE rows)
        /\ spans' = spans \cup MergedRows /\ step' = "write"
        /\ UNCHANGED <<doc, next, links, pictures, widest>>
    BY DEF EndDocument
  <1>2. Laid(rows, spans, texts, links, pictures, todo, next) /\ Wide(rows, widest) /\ next \in Nat \ {0} /\ doc \in Documents
    BY <1>1 DEF WordInv, Parsing
  <1>3. PICK more : more = IF rows = <<>> THEN <<<<Blank>>>> ELSE rows
    OBVIOUS
  <1>4. IsRows(rows)
    BY <1>2 DEF Laid
  <1>5. Kept(rows, more) /\ Written(more) \subseteq Written(rows) /\ Wide(more, widest)
    <2>1. CASE rows = <<>>
      <3>1. more = Append(rows, <<Blank>>) /\ <<Blank>> \in Seq(Seq(Nat)) /\ Len(<<Blank>>) = 1
        BY <1>3, <2>1 DEF Blank
      <3> QED BY <1>2, <1>4, <3>1, BlankAdded, WideRow
    <2>2. CASE rows # <<>>
      <3>1. more = rows /\ Len(rows) \in Nat
        BY <1>3, <1>4, <2>2, RowsAre
      <3> QED BY <1>2, <1>4, <3>1 DEF Kept
    <2> QED BY <2>1, <2>2
  <1>6. Laid(more, spans, texts, links, pictures, <<>>, next)
    <2>1. \A p \in Written(more) : p \in Written(rows) /\ Says(more, p) = Says(rows, p)
      BY <1>5, KeptRows
    <2>2. Texts(more, next)
      BY <1>2, <2>1 DEF Laid, Texts
    <2>3. LabelsLinked(more, DOMAIN links)
      BY <1>2, <2>1 DEF Laid, LabelsLinked
    <2>4. LinksLead(more, links) /\ Merged(more, spans) /\ OwnRows(more, spans, texts) /\ Anchored(more, pictures)
      BY <1>2, <1>5, KeptLinks, KeptMerged, KeptOwnRows, KeptAnchored DEF Laid
    <2>5. Waiting(more, <<>>, next) /\ IsRows(more)
      BY <1>5 DEF Waiting, Kept
    <2> QED BY <1>2, <2>2, <2>3, <2>4, <2>5 DEF Laid
  <1>7. PICK long : long = IF widest > 1 THEN {<<r, 1, r, widest>> : r \in texts} ELSE {}
    OBVIOUS
  <1>8. Ready(more, spans \cup long, links, pictures, widest)
    BY <1>5, <1>6, <1>7, EverythingFits
  <1>9. Ready(rows, spans, links, pictures, widest)'
    BY <1>1, <1>3, <1>7, <1>8 DEF MergedRows
  <1> QED BY <1>1, <1>2, <1>9 DEF WordInv

LEMMA WriteInv == WordInv /\ Write => WordInv'
  <1> SUFFICES ASSUME WordInv, Write PROVE WordInv'
    OBVIOUS
  <1>1. /\ step = "write" /\ step' \in {"done", "tooComplex"}
        /\ UNCHANGED <<doc, next, rows, spans, links, pictures, widest>>
    BY DEF Write
  <1>2. Ready(rows, spans, links, pictures, widest) /\ doc \in Documents /\ next \in Nat \ {0}
    BY <1>1 DEF WordInv
  <1>3. Ready(rows, spans, links, pictures, widest)'
    BY <1>1, <1>2
  <1>4. ASSUME step' = "done" PROVE sheet' = Shown(rows)
    <2>1. sheet' = {<<p[1], p[2], rows[p[1]][p[2]]>> :
                      p \in {q \in UNION {{r} \X DOMAIN rows[r] : r \in DOMAIN rows} :
                               rows[q[1]][q[2]] # Blank /\ q \notin Cleared}}
      BY <1>4 DEF Write
    <2>2. IsRows(rows)
      BY <1>2 DEF Ready
    <2>3. ASSUME NEW q \in Written(rows) PROVE q \notin Cleared
      BY <1>2 DEF Cleared, Ready, Clears
    <2>4. ASSUME NEW q PROVE q \in UNION {{r} \X DOMAIN rows[r] : r \in DOMAIN rows} /\ rows[q[1]][q[2]] # Blank
                             <=> q \in Written(rows)
      <3>1. ASSUME NEW r \in DOMAIN rows, q \in {r} \X DOMAIN rows[r], rows[q[1]][q[2]] # Blank PROVE q \in Written(rows)
        <4>1. r \in Nat /\ DOMAIN rows[r] \subseteq Nat
          BY <2>2, RowsAre
        <4>2. q \in Nat \X Nat /\ q[1] = r /\ q[2] \in DOMAIN rows[r]
          BY <3>1, <4>1
        <4> QED BY <3>1, <4>2 DEF Written
      <3>2. ASSUME q \in Written(rows)
            PROVE  q[1] \in DOMAIN rows /\ q \in {q[1]} \X DOMAIN rows[q[1]] /\ rows[q[1]][q[2]] # Blank
        <4>1. q = <<q[1], q[2]>> /\ q[1] \in DOMAIN rows /\ q[2] \in DOMAIN rows[q[1]]
          BY <2>2, <3>2, WrittenIs
        <4>2. rows[q[1]][q[2]] # Blank
          BY <3>2 DEF Written
        <4> QED BY <4>1, <4>2
      <3> QED BY <3>1, <3>2
    <2>5. {q \in UNION {{r} \X DOMAIN rows[r] : r \in DOMAIN rows} : rows[q[1]][q[2]] # Blank /\ q \notin Cleared}
            = Written(rows)
      BY <2>3, <2>4
    <2> QED BY <2>1, <2>5 DEF Shown, Says
  <1> QED BY <1>1, <1>2, <1>3, <1>4 DEF WordInv

LEMMA WordInvHolds == WordSpec => []WordInv
  <1>1. WordInv /\ [WordNext]_wordVars => WordInv'
    <2> SUFFICES ASSUME WordInv, [WordNext]_wordVars PROVE WordInv'
      OBVIOUS
    <2>1. CASE FailConversion
      BY <2>1 DEF FailConversion, WordInv
    <2>2. CASE UNCHANGED wordVars
      BY <2>2 DEF wordVars, WordInv, Parsing
    <2> QED BY <2>1, <2>2, ParagraphInv, TableInv, NestedInv, EndInv, WriteInv DEF WordNext
  <1> QED BY <1>1, WordInitInv, PTL DEF WordSpec

\* Once laid out, every merge is inside the sheet and meets no other; in the written
\* sheet the link of a cell leads to the label of a table that was nested in it and each
\* such cell has one, and every picture is on the cell it was in: blank rows, labels and
\* tables in tables shift none of them, whatever the document and the limits.
THEOREM WordAnchorsFollow == WordSpec => []AnchorsFollowRows
  <1>1. WordInv => AnchorsFollowRows
    <2> SUFFICES ASSUME WordInv PROVE AnchorsFollowRows
      OBVIOUS
    <2>1. MergesFit
      BY DEF WordInv, MergesFit, Ready, Fits, Disjoint
    <2>2. ASSUME step = "done"
          PROVE  /\ Ready(rows, spans, links, pictures, widest) /\ IsRows(rows)
                 /\ \A t : t \in sheet <=> \E p \in Written(rows) : t = <<p[1], p[2], Says(rows, p)>>
      BY <2>2 DEF WordInv, Ready, Shown
    <2>3. ASSUME NEW t \in Seq(Nat), NEW u \in Seq(Nat)
          PROVE  IsLabel(t, u) <=> Len(t) = Len(u) + 1 /\ SubSeq(t, 1, Len(u)) = u
      <3>1. PICK a \in Nat, b \in Nat : a = Len(t) /\ b = Len(u)
        BY LenProperties
      <3>2. ASSUME a = b + 1 PROVE SubSeq(t, 1, b) \in Seq(Nat) /\ Len(SubSeq(t, 1, b)) = b
                                   /\ \A i \in 1..b : SubSeq(t, 1, b)[i] = t[i]
        <4>1. 1 \in 1..a + 1 /\ b \in 1 - 1..a
          BY <3>1, <3>2
        <4> QED BY <3>1, <4>1, SubSeqProperties
      <3>3. ASSUME a = b + 1 PROVE SubSeq(t, 1, b) = u <=> \A i \in 1..b : t[i] = u[i]
        BY <3>1, <3>2, <3>3, SeqEqual
      <3> QED BY <3>1, <3>3 DEF IsLabel, Extends
    <2>4. ASSUME step = "done", NEW p \in Written(rows), NEW t
          PROVE  t \in LabelsOf(<<p[1], p[2]>>) <=>
                   \E q \in Written(rows) : t = <<q[1], q[2], Says(rows, q)>> /\ IsLabel(Says(rows, q), Says(rows, p))
      <3>1. ASSUME NEW own \in sheet, <<own[1], own[2]>> = <<p[1], p[2]>> PROVE own[3] = Says(rows, p)
        <4>1. PICK q \in Written(rows) : own = <<q[1], q[2], Says(rows, q)>>
          BY <2>2, <2>4
        <4>2. q[1] = p[1] /\ q[2] = p[2]
          BY <3>1, <4>1
        <4> QED BY <4>1, <4>2 DEF Says
      <3>2. PICK own : own = <<p[1], p[2], Says(rows, p)>> /\ own \in sheet
        BY <2>2, <2>4
      <3>3. t \in LabelsOf(<<p[1], p[2]>>) <=>
              t \in sheet /\ Len(t[3]) = Len(Says(rows, p)) + 1 /\ SubSeq(t[3], 1, Len(Says(rows, p))) = Says(rows, p)
        BY <3>1, <3>2 DEF LabelsOf
      <3>4. Says(rows, p) \in Seq(Nat)
        BY <2>2, <2>4, WrittenIs
      <3>5. ASSUME NEW q \in Written(rows), t = <<q[1], q[2], Says(rows, q)>> PROVE t[3] = Says(rows, q) /\ t[3] \in Seq(Nat)
        BY <2>2, <2>4, <3>5, WrittenIs
      <3>6. ASSUME NEW q \in Written(rows), t = <<q[1], q[2], Says(rows, q)>>
            PROVE  t \in LabelsOf(<<p[1], p[2]>>) <=> IsLabel(Says(rows, q), Says(rows, p))
        <4>1. t \in sheet
          BY <2>2, <2>4, <3>6
        <4> QED BY <2>3, <3>3, <3>4, <3>5, <3>6, <4>1
      <3>7. t \in LabelsOf(<<p[1], p[2]>>) => \E q \in Written(rows) : t = <<q[1], q[2], Says(rows, q)>>
        BY <2>2, <2>4, <3>3
      <3> QED BY <3>6, <3>7
    <2>5. LinksFindTables
      <3> SUFFICES ASSUME step = "done"
                   PROVE  /\ \A cell \in DOMAIN links : \E t \in LabelsOf(cell) : t[1] = links[cell] /\ t[2] = 1
                          /\ \A own \in sheet : LabelsOf(<<own[1], own[2]>>) # {} => <<own[1], own[2]>> \in DOMAIN links
        BY DEF LinksFindTables
      <3>1. LinksLead(rows, links) /\ LabelsLinked(rows, DOMAIN links)
        BY <2>2 DEF Ready
      <3>2. ASSUME NEW cell \in DOMAIN links PROVE \E t \in LabelsOf(cell) : t[1] = links[cell] /\ t[2] = 1
        <4>1. PICK q : q = <<links[cell], 1>>
          OBVIOUS
        <4>2. cell \in Written(rows) /\ q \in Written(rows) /\ IsLabel(Says(rows, q), Says(rows, cell))
          BY <3>1, <4>1 DEF LinksLead
        <4>3. cell = <<cell[1], cell[2]>>
          BY <2>2, <4>2, WrittenIs
        <4>4. <<q[1], q[2], Says(rows, q)>> \in LabelsOf(cell)
          BY <2>4, <4>2, <4>3
        <4> QED BY <4>1, <4>4
      <3>3. ASSUME NEW own \in sheet, NEW t \in LabelsOf(<<own[1], own[2]>>) PROVE <<own[1], own[2]>> \in DOMAIN links
        <4>1. PICK p \in Written(rows) : own = <<p[1], p[2], Says(rows, p)>>
          BY <2>2
        <4>2. own[1] = p[1] /\ own[2] = p[2] /\ p = <<p[1], p[2]>>
          BY <2>2, <4>1, WrittenIs
        <4>3. PICK q \in Written(rows) : IsLabel(Says(rows, q), Says(rows, p))
          BY <2>4, <3>3, <4>2
        <4> QED BY <3>1, <4>2, <4>3 DEF LabelsLinked
      <3> QED BY <3>2, <3>3
    <2>6. PicturesStay
      <3> SUFFICES ASSUME step = "done", NEW x \in pictures PROVE x \in sheet
        BY DEF PicturesStay
      <3>1. Anchored(rows, pictures)
        BY <2>2 DEF Ready
      <3>2. PICK p : p = <<x[1], x[2]>>
        OBVIOUS
      <3>3. x = <<x[1], x[2], x[3]>> /\ p \in Written(rows) /\ Says(rows, p) = x[3] /\ p[1] = x[1] /\ p[2] = x[2]
        BY <3>1, <3>2 DEF Anchored
      <3>4. x = <<p[1], p[2], Says(rows, p)>>
        BY <3>3
      <3> QED BY <2>2, <3>3, <3>4
    <2> QED BY <2>1, <2>5, <2>6 DEF AnchorsFollowRows
  <1> QED BY <1>1, WordInvHolds, PTL
===============================================================================
