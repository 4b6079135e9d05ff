---------------------------- MODULE DocumentProofs ----------------------------
(* Machine-checked facts about the Office conversions, for every input and     *)
(* every limit.                                                                *)
EXTENDS XmlPackage, SheetBands, Sums, SequenceTheorems

-----------------------------------------------------------------------------
(* Numbers and sets of numbers                                                 *)

LEMMA LargerOfTwo ==
    ASSUME NEW a \in Nat, NEW b \in Nat
    PROVE  Max({a, b}) = IF a <= b THEN b ELSE a
  <1>1. \E x \in {a, b} : \A y \in {a, b} : x >= y
    OBVIOUS
  <1>2. Max({a, b}) \in {a, b} /\ \A y \in {a, b} : Max({a, b}) >= y
    BY <1>1 DEF Max
  <1> QED BY <1>2

LEMMA SmallerOfTwo ==
    ASSUME NEW a \in Nat, NEW b \in Nat
    PROVE  Min({a, b}) = IF a <= b THEN a ELSE b
  <1>1. \E x \in {a, b} : \A y \in {a, b} : x <= y
    OBVIOUS
  <1>2. Min({a, b}) \in {a, b} /\ \A y \in {a, b} : Min({a, b}) <= y
    BY <1>1 DEF Min
  <1> QED BY <1>2

\* The places of the members of a set in its order are 1, 2, ...
LEMMA RankOfMember ==
    ASSUME NEW U \in SUBSET Nat, IsFiniteSet(U), NEW x \in U
    PROVE  Rank(U, x) \in 1..Cardinality(U)
  <1> DEFINE upto == {y \in U : y <= x}
  <1>1. IsFiniteSet(upto) /\ Cardinality(upto) <= Cardinality(U) /\ upto # {}
    BY FS_Subset
  <1>2. Cardinality(upto) \in Nat /\ Cardinality(U) \in Nat /\ Cardinality(upto) # 0
    BY <1>1, FS_CardinalityType, FS_EmptySet
  <1> QED BY <1>1, <1>2 DEF Rank

LEMMA RankKeepsOrder ==
    ASSUME NEW U \in SUBSET Nat, IsFiniteSet(U), NEW x \in U, NEW y \in U, x < y
    PROVE  Rank(U, x) < Rank(U, y)
  <1> DEFINE low == {z \in U : z <= x}
             high == {z \in U : z <= y}
  <1>1. low \in SUBSET high /\ y \in high /\ y \notin low
    <2>1. x \in Nat /\ y \in Nat /\ \A z \in U : z \in Nat
      OBVIOUS
    <2>2. \A z \in U : z <= x => z <= y
      BY <2>1
    <2>3. y <= y /\ ~(y <= x)
      BY <2>1
    <2> QED BY <2>2, <2>3, Zenon
  <1>2. IsFiniteSet(high)
    BY FS_Subset
  <1>3. Cardinality(low) <= Cardinality(high) /\ Cardinality(low) # Cardinality(high) /\ IsFiniteSet(low)
    BY <1>1, <1>2, FS_Subset
  <1>4. Cardinality(low) \in Nat /\ Cardinality(high) \in Nat
    BY <1>2, <1>3, FS_CardinalityType
  <1> QED BY <1>3, <1>4 DEF Rank

LEMMA RanksCover ==
    ASSUME NEW U \in SUBSET Nat, IsFiniteSet(U), NEW n \in 1..Cardinality(U)
    PROVE  \E x \in U : Rank(U, x) = n
  <1> DEFINE size == Cardinality(U)
             rank == [x \in U |-> Rank(U, x)]
  <1>1. size \in Nat
    BY FS_CardinalityType
  <1>2. IsFiniteSet(1..size) /\ Cardinality(1..size) = size
    BY <1>1, FS_Interval
  <1>3. rank \in [U -> 1..size]
    BY RankOfMember
  <1>4. \A x, y \in U : rank[x] = rank[y] => x = y
    <2> SUFFICES ASSUME NEW x \in U, NEW y \in U, x # y PROVE rank[x] # rank[y]
      OBVIOUS
    <2>1. x < y \/ y < x
      OBVIOUS
    <2>2. rank[x] < rank[y] \/ rank[y] < rank[x]
      BY <2>1, RankKeepsOrder
    <2>3. rank[x] \in Nat /\ rank[y] \in Nat
      BY <1>3, <1>1
    <2> QED BY <2>2, <2>3
  <1>5. rank \in Injection(U, 1..size)
    BY <1>3, <1>4 DEF Injection, IsInjective
  <1>6. rank \in Surjection(U, 1..size)
    BY <1>2, <1>5, FS_Injection
  <1> QED BY <1>6 DEF Surjection

\* Nth is the inverse of Rank, and both keep the order.
LEMMA NthOfRank ==
    ASSUME NEW U \in SUBSET Nat, IsFiniteSet(U)
    PROVE  /\ \A n \in 1..Cardinality(U) : Nth(U, n) \in U /\ Rank(U, Nth(U, n)) = n
           /\ \A x \in U : Rank(U, x) \in 1..Cardinality(U) /\ Nth(U, Rank(U, x)) = x
           /\ \A x, y \in U : x < y <=> Rank(U, x) < Rank(U, y)
           /\ \A m, n \in 1..Cardinality(U) : m < n <=> Nth(U, m) < Nth(U, n)
  <1>0. Cardinality(U) \in Nat
    BY FS_CardinalityType
  <1>1. \A n \in 1..Cardinality(U) : Nth(U, n) \in U /\ Rank(U, Nth(U, n)) = n
    BY RanksCover DEF Nth
  <1>2. \A x \in U : Rank(U, x) \in 1..Cardinality(U)
    BY RankOfMember
  <1>3. \A x, y \in U : x < y => Rank(U, x) < Rank(U, y)
    BY RankKeepsOrder
  <1>4. \A x, y \in U : x < y <=> Rank(U, x) < Rank(U, y)
    <2> TAKE x, y \in U
    <2>1. x \in Nat /\ y \in Nat /\ Rank(U, x) \in Nat /\ Rank(U, y) \in Nat
      BY <1>0, <1>2
    <2>2. x < y \/ x = y \/ y < x
      BY <2>1
    <2>3. x = y => Rank(U, x) = Rank(U, y)
      OBVIOUS
    <2> QED BY <2>1, <2>2, <2>3, <1>3
  <1>5. \A x, y \in U : Rank(U, x) = Rank(U, y) => x = y
    <2> TAKE x, y \in U
    <2>1. x \in Nat /\ y \in Nat /\ Rank(U, x) \in Nat /\ Rank(U, y) \in Nat
      BY <1>0, <1>2
    <2> QED BY <2>1, <1>4
  <1>6. \A x \in U : Nth(U, Rank(U, x)) = x
    BY <1>1, <1>2, <1>5
  <1>7. \A m, n \in 1..Cardinality(U) : m < n <=> Nth(U, m) < Nth(U, n)
    <2> TAKE m, n \in 1..Cardinality(U)
    <2>1. /\ Nth(U, m) \in U /\ Rank(U, Nth(U, m)) = m
          /\ Nth(U, n) \in U /\ Rank(U, Nth(U, n)) = n
      BY <1>1
    <2>2. Nth(U, m) < Nth(U, n) <=> Rank(U, Nth(U, m)) < Rank(U, Nth(U, n))
      BY <2>1, <1>4
    <2> QED BY <2>1, <2>2
  <1> QED BY <1>1, <1>2, <1>4, <1>6, <1>7

\* How often a number goes into another.
LEMMA Quotient ==
    ASSUME NEW a \in Nat, NEW b \in Nat \ {0}
    PROVE  /\ a \div b \in Nat
           /\ (a \div b) * b <= a
           /\ a < (a \div b) * b + b
  OBVIOUS

-----------------------------------------------------------------------------
(* The bands of a wide sheet                                                   *)

IsGrid(grid, h, w) ==
    h \in Nat \ {0} /\ w \in Nat \ {0} /\ grid \in [1..h -> [1..w -> Nat \X Nat]]

LEMMA GridSize ==
    ASSUME NEW grid, NEW h, NEW w, IsGrid(grid, h, w)
    PROVE  /\ Len(grid) = h /\ DOMAIN grid = 1..h
           /\ Len(grid[1]) = w /\ DOMAIN grid[1] = 1..w
  <1>1. grid \in Seq([1..w -> Nat \X Nat]) /\ DOMAIN grid = 1..h /\ Len(grid) = h
    BY SMT DEF IsGrid
  <1>2. grid[1] \in [1..w -> Nat \X Nat]
    BY DEF IsGrid
  <1>3. DOMAIN grid[1] = 1..w /\ Len(grid[1]) = w
    BY <1>2, SMT DEF IsGrid
  <1> QED BY <1>1, <1>3

\* Where the columns of band n come from, others than the first.
Before(n) == (n - 1) * (BandWidth - 1)

LEMMA BandColumns ==
    ASSUME NEW sheet, Columns(sheet) \in Nat, BandWidth < Columns(sheet)
    PROVE  /\ \E k \in Nat : DOMAIN Bands(sheet) = 1..k /\ Bands(sheet) \in [1..k -> Seq(Nat)]
           /\ \A n \in DOMAIN Bands(sheet) :
                \E m \in 1..BandWidth - 1 :
                  /\ Before(n) \in Nat /\ Before(n) + m + 1 <= Columns(sheet)
                  /\ m = BandWidth - 1 \/ Before(n) + m + 1 = Columns(sheet)
                  /\ DOMAIN Bands(sheet)[n] = 1..m + 1
                  /\ Len(Bands(sheet)[n]) = m + 1
                  /\ Bands(sheet)[n][1] = 1
                  /\ \A i \in 2..m + 1 : Bands(sheet)[n][i] = Before(n) + i
           /\ \A c \in 2..Columns(sheet) :
                \E n \in DOMAIN Bands(sheet) : Before(n) + 2 <= c /\ c <= Before(n) + BandWidth
  <1> DEFINE b == BandWidth - 1
             width == Columns(sheet)
             last == (width + BandWidth - 3) \div b
             rest(n) == width - 1 - (n - 1) * b
             size(n) == Min({b, rest(n)})
             others(n) == [i \in 1..size(n) |-> 1 + (n - 1) * b + i]
             bands == Bands(sheet)
  <1>1. b \in Nat \ {0} /\ BandWidth = b + 1 /\ width \in Nat /\ b + 2 <= width
    BY BandsAssumption
  <1>2. /\ last \in Nat
        /\ last * b <= width + b - 2
        /\ width + b - 2 < last * b + b
    <2> DEFINE a == width + b - 2
    <2>1. a \in Nat /\ last = a \div b
      BY <1>1
    <2> HIDE DEF a, b, width, last
    <2>2. last \in Nat /\ last * b <= a /\ a < last * b + b
      BY <1>1, <2>1, Quotient
    <2> QED BY <2>2 DEF a
  <1>3. bands = [n \in 1..last |-> <<1>> \o others(n)]
    BY DEF Bands
  <1>4. ASSUME NEW n \in 1..last
        PROVE  /\ Before(n) = (n - 1) * b /\ Before(n) \in Nat
               /\ rest(n) \in Nat \ {0} /\ size(n) \in 1..b
               /\ size(n) = b \/ size(n) = rest(n)
               /\ size(n) <= rest(n)
    <2>1. n \in Nat \ {0} /\ n <= last
      BY <1>2
    <2>2. Before(n) = (n - 1) * b /\ Before(n) \in Nat
      <3> HIDE DEF b
      <3>1. (n - 1) * b \in Nat
        BY <1>1, <2>1
      <3> QED BY <3>1 DEF Before, b
    <2>3. (n - 1) * b <= last * b - b
      <3> HIDE DEF b, last
      <3> QED BY <1>1, <1>2, <2>1
    <2>4. rest(n) \in Nat \ {0}
      <3> DEFINE left == (n - 1) * b
                 all == last * b
      <3>1. left \in Nat /\ left <= all - b /\ all <= width + b - 2 /\ all \in Int
        <4> HIDE DEF b, width, last
        <4> QED BY <1>1, <1>2, <2>1, <2>3
      <3> HIDE DEF left, all, b, width
      <3>2. width - 1 - left \in Nat \ {0}
        BY <1>1, <3>1
      <3> QED BY <3>2 DEF left, b, width
    <2>5. size(n) = IF b <= rest(n) THEN b ELSE rest(n)
      <3> HIDE DEF b, rest
      <3> QED BY <1>1, <2>4, SmallerOfTwo
    <2> HIDE DEF rest, b, size
    <2> QED BY <1>1, <2>2, <2>4, <2>5
  <1>5. ASSUME NEW n \in 1..last
        PROVE  /\ bands[n] \in Seq(Nat) /\ Len(bands[n]) = size(n) + 1
               /\ DOMAIN bands[n] = 1..size(n) + 1 /\ bands[n][1] = 1
               /\ \A i \in 2..size(n) + 1 : bands[n][i] = Before(n) + i
    <2>1. Before(n) = (n - 1) * b /\ Before(n) \in Nat /\ size(n) \in Nat
      <3> HIDE DEF size, b
      <3> QED BY <1>1, <1>4
    <2>2. others(n) = [i \in 1..size(n) |-> 1 + Before(n) + i]
      BY <2>1
    <2> HIDE DEF size, others
    <2>3. others(n) \in Seq(Nat) /\ Len(others(n)) = size(n) /\ <<1>> \in Seq(Nat) /\ Len(<<1>>) = 1
      BY <2>1, <2>2
    <2>4. /\ <<1>> \o others(n) \in Seq(Nat)
          /\ Len(<<1>> \o others(n)) = size(n) + 1
          /\ \A i \in 1..size(n) + 1 : (<<1>> \o others(n))[i] = IF i <= 1 THEN <<1>>[i] ELSE others(n)[i - 1]
      BY <2>1, <2>3, ConcatProperties
    <2>5. bands[n] = <<1>> \o others(n)
      BY <1>3
    <2>6. bands[n][1] = 1
      BY <2>1, <2>4, <2>5
    <2>7. ASSUME NEW i \in 2..size(n) + 1
          PROVE  bands[n][i] = Before(n) + i
      <3>1. i - 1 \in 1..size(n) /\ i \in 1..size(n) + 1 /\ ~(i <= 1)
        BY <2>1
      <3>2. bands[n][i] = others(n)[i - 1]
        BY <2>4, <2>5, <3>1
      <3> QED BY <2>1, <2>2, <3>1, <3>2
    <2>8. DOMAIN bands[n] = 1..size(n) + 1
      BY <2>4, <2>5, LenProperties
    <2> QED BY <2>4, <2>5, <2>6, <2>7, <2>8
  <1>6. DOMAIN bands = 1..last /\ bands \in [1..last -> Seq(Nat)]
    <2>1. \A n \in 1..last : <<1>> \o others(n) \in Seq(Nat)
      BY <1>3, <1>5
    <2> HIDE DEF others, last
    <2> QED BY <1>3, <2>1
  <1>7. ASSUME NEW n \in 1..last
        PROVE  \E m \in 1..b :
                 /\ Before(n) \in Nat /\ Before(n) + m + 1 <= width
                 /\ m = b \/ Before(n) + m + 1 = width
                 /\ DOMAIN bands[n] = 1..m + 1
                 /\ Len(bands[n]) = m + 1
                 /\ bands[n][1] = 1
                 /\ \A i \in 2..m + 1 : bands[n][i] = Before(n) + i
    <2>1. rest(n) = width - 1 - Before(n) /\ Before(n) \in Nat
      BY <1>4
    <2>2. size(n) \in 1..b /\ (size(n) = b \/ size(n) = rest(n)) /\ size(n) <= rest(n)
      BY <1>4
    <2>3. /\ DOMAIN bands[n] = 1..size(n) + 1
          /\ Len(bands[n]) = size(n) + 1
          /\ bands[n][1] = 1
          /\ \A i \in 2..size(n) + 1 : bands[n][i] = Before(n) + i
      BY <1>5
    <2> HIDE DEF rest, size, b, width, bands
    <2>4. Before(n) + size(n) + 1 <= width /\ (size(n) = b \/ Before(n) + size(n) + 1 = width)
      BY <1>1, <2>1, <2>2
    <2> QED BY <2>1, <2>2, <2>3, <2>4
  <1>8. ASSUME NEW c \in 2..width
        PROVE  \E n \in 1..last : Before(n) + 2 <= c /\ c <= Before(n) + BandWidth
    <2> DEFINE q == (c - 2) \div b
    <2>1. q \in Nat /\ q * b <= c - 2 /\ c - 2 < q * b + b
      <3> HIDE DEF b, width
      <3> QED BY <1>1, Quotient
    <2>2. q + 1 \in 1..last
      <3> HIDE DEF b, width, last, q
      <3>1. q * b <= width - 2 /\ width + b - 2 < last * b + b /\ q * b \in Int /\ last * b \in Int
        BY <1>1, <1>2, <2>1
      <3>2. q * b < last * b
        BY <1>1, <3>1
      <3>3. q < last
        BY <1>1, <1>2, <2>1, <3>2
      <3> QED BY <1>2, <2>1, <3>3
    <2>3. Before(q + 1) = q * b
      <3> HIDE DEF q
      <3> QED BY <2>1 DEF Before
    <2>4. Before(q + 1) + 2 <= c /\ c <= Before(q + 1) + BandWidth
      <3> HIDE DEF q, b, width
      <3> QED BY <1>1, <2>1, <2>3
    <2> HIDE DEF q
    <2> QED BY <2>2, <2>4
  <1> HIDE DEF last
  <1> QED BY <1>2, <1>6, <1>7, <1>8

-----------------------------------------------------------------------------
(* The size of what is written                                                 *)

Sized(sheet) == \E h, w \in Nat : IsGrid(sheet.grid, h, w) /\ h * w <= MaxSheetCells

LEMMA ProductKeepsOrder ==
    ASSUME NEW h \in Nat, NEW a \in Nat, NEW b \in Nat, a <= b
    PROVE  h * a <= h * b
  OBVIOUS

HasColumns(table, sheet, columns, h, n) ==
    \A r \in 1..h : \A i \in 1..n : table.grid[r][i] = sheet.grid[r][columns[i]]

LEMMA GridOfColumns ==
    ASSUME NEW sheet, NEW h, NEW w, IsGrid(sheet.grid, h, w),
           NEW columns \in Seq(Nat), NEW n \in Nat \ {0}, DOMAIN columns = 1..n,
           \A i \in 1..n : columns[i] \in 1..w
    PROVE  /\ IsGrid(Band(sheet, columns).grid, h, n)
           /\ HasColumns(Band(sheet, columns), sheet, columns, h, n)
  <1>1. DOMAIN sheet.grid = 1..h
    BY GridSize
  <1>2. Band(sheet, columns).grid = [r \in 1..h |-> [i \in 1..n |-> sheet.grid[r][columns[i]]]]
    BY <1>1 DEF Band
  <1>3. \A r \in 1..h : \A i \in 1..n : sheet.grid[r][columns[i]] \in Nat \X Nat
    BY DEF IsGrid
  <1> DEFINE cut == [r \in 1..h |-> [i \in 1..n |-> sheet.grid[r][columns[i]]]]
  <1>4. cut \in [1..h -> [1..n -> Nat \X Nat]]
    BY <1>3
  <1>5. \A r \in 1..h : \A i \in 1..n : cut[r][i] = sheet.grid[r][columns[i]]
    OBVIOUS
  <1>6. h \in Nat \ {0} /\ n \in Nat \ {0}
    BY DEF IsGrid
  <1>7. Band(sheet, columns).grid = cut
    BY <1>2
  <1> HIDE DEF cut
  <1> QED BY <1>4, <1>5, <1>6, <1>7 DEF IsGrid, HasColumns

LEMMA TableSizeOfGrid ==
    ASSUME NEW table, NEW h, NEW w, IsGrid(table.grid, h, w)
    PROVE  TableSize(table) = h * w /\ Columns(table) = w
  <1>1. Len(table.grid) = h /\ Len(table.grid[1]) = w /\ w \in Nat \ {0}
    BY GridSize DEF IsGrid
  <1>2. Max({1, w}) = w
    BY <1>1, LargerOfTwo
  <1> QED BY <1>1, <1>2 DEF TableSize, Columns

\* No table of a sheet is larger than the sheet.
LEMMA TablesFit ==
    ASSUME NEW sheet, Sized(sheet), NEW n \in DOMAIN SheetTables(sheet)
    PROVE  ~(TableSize(SheetTables(sheet)[n]) > MaxSheetCells)
  <1>1. PICK h \in Nat, w \in Nat : IsGrid(sheet.grid, h, w) /\ h * w <= MaxSheetCells
    BY DEF Sized
  <1>2. Columns(sheet) = w /\ TableSize(sheet) = h * w /\ h * w \in Nat
    BY <1>1, TableSizeOfGrid
  <1>3. CASE w <= BandWidth
    <2>1. SheetTables(sheet) = <<sheet>>
      BY <1>2, <1>3 DEF SheetTables
    <2>2. SheetTables(sheet)[n] = sheet
      BY <2>1
    <2> QED BY <1>1, <1>2, <2>2, BandsAssumption
  <1>4. CASE ~(w <= BandWidth)
    <2>1. n \in DOMAIN Bands(sheet) /\ SheetTables(sheet)[n] = Band(sheet, Bands(sheet)[n])
      BY <1>2, <1>4 DEF SheetTables
    <2>2. BandWidth < Columns(sheet) /\ Columns(sheet) \in Nat
      BY <1>2, <1>4, BandsAssumption
    <2>3. PICK m \in 1..BandWidth - 1 :
            /\ Before(n) \in Nat /\ Before(n) + m + 1 <= w
            /\ DOMAIN Bands(sheet)[n] = 1..m + 1
            /\ Bands(sheet)[n][1] = 1
            /\ \A i \in 2..m + 1 : Bands(sheet)[n][i] = Before(n) + i
      BY <1>2, <2>1, <2>2, BandColumns
    <2>4. Bands(sheet)[n] \in Seq(Nat)
      BY <2>1, <2>2, BandColumns
    <2>5. m \in Nat /\ m + 1 \in Nat \ {0} /\ m + 1 <= w
      BY <2>3, BandsAssumption
    <2>6. \A i \in 1..m + 1 : Bands(sheet)[n][i] \in 1..w
      <3> TAKE i \in 1..m + 1
      <3>1. i = 1 \/ i \in 2..m + 1
        BY <2>5
      <3> QED BY <2>3, <2>5, <3>1
    <2>7. IsGrid(SheetTables(sheet)[n].grid, h, m + 1)
      BY <1>1, <2>1, <2>3, <2>4, <2>5, <2>6, GridOfColumns
    <2>8. TableSize(SheetTables(sheet)[n]) = h * (m + 1) /\ h * (m + 1) \in Nat
      BY <2>5, <2>7, TableSizeOfGrid
    <2>9. h * (m + 1) <= h * w
      BY <2>5, ProductKeepsOrder
    <2> HIDE DEF Sized
    <2>10. \A a, b, c \in Nat : a <= b /\ b <= c => ~(a > c)
      OBVIOUS
    <2> QED BY <1>1, <1>2, <2>8, <2>9, <2>10, BandsAssumption
  <1> QED BY <1>3, <1>4

-----------------------------------------------------------------------------
(* What is parsed                                                              *)

LEMMA ImageIsFinite ==
    ASSUME NEW S, IsFiniteSet(S), NEW f, DOMAIN f = S
    PROVE  IsFiniteSet({f[x] : x \in S})
  <1> DEFINE T == {f[x] : x \in S}
             g == [x \in S |-> f[x]]
  <1>1. g \in Surjection(S, T)
    BY DEF Surjection
  <1> QED BY <1>1, FS_Surjection

\* The rows and columns something is in are finitely many numbers.
LEMMA UsedAreFinite ==
    ASSUME NEW ws, IsWorksheet(ws)
    PROVE  /\ UsedRows(ws) \in SUBSET Nat /\ IsFiniteSet(UsedRows(ws))
           /\ UsedColumns(ws) \in SUBSET Nat /\ IsFiniteSet(UsedColumns(ws))
           /\ UsedRows(ws) = {} <=> UsedColumns(ws) = {}
  <1> DEFINE places == ws.cells \cup ws.anchors
             rows == [p \in places |-> p[1]]
             columns == [p \in places |-> p[2]]
             blocks == [m \in ws.merges |-> m[1]..m[3]]
             widths == [m \in ws.merges |-> m[2]..m[4]]
  <1>1. /\ places \in SUBSET (Nat \X Nat) /\ IsFiniteSet(places)
        /\ ws.merges \in SUBSET (Nat \X Nat \X Nat \X Nat) /\ IsFiniteSet(ws.merges)
        /\ \A m \in ws.merges : m[1] <= m[3] /\ m[2] <= m[4]
    BY FS_Union DEF IsWorksheet
  <1>2. IsFiniteSet({rows[p] : p \in places}) /\ IsFiniteSet({columns[p] : p \in places})
    <2> HIDE DEF places
    <2>1. DOMAIN rows = places /\ DOMAIN columns = places
      OBVIOUS
    <2> HIDE DEF rows, columns
    <2> QED BY <1>1, <2>1, ImageIsFinite
  <1>3. IsFiniteSet({blocks[m] : m \in ws.merges}) /\ IsFiniteSet({widths[m] : m \in ws.merges})
    <2>1. DOMAIN blocks = ws.merges /\ DOMAIN widths = ws.merges
      OBVIOUS
    <2> HIDE DEF blocks, widths
    <2> QED BY <1>1, <2>1, ImageIsFinite
  <1>4. IsFiniteSet(UNION {blocks[m] : m \in ws.merges}) /\ IsFiniteSet(UNION {widths[m] : m \in ws.merges})
    <2>1. \A m \in ws.merges : IsFiniteSet(blocks[m]) /\ IsFiniteSet(widths[m])
      BY <1>1, FS_Interval
    <2> HIDE DEF blocks, widths
    <2> QED BY <1>3, <2>1, FS_UNION
  <1>5. UsedRows(ws) = {rows[p] : p \in places} \cup UNION {blocks[m] : m \in ws.merges}
    BY DEF UsedRows
  <1>6. UsedColumns(ws) = {columns[p] : p \in places} \cup UNION {widths[m] : m \in ws.merges}
    BY DEF UsedColumns
  <1>7. IsFiniteSet(UsedRows(ws)) /\ IsFiniteSet(UsedColumns(ws))
    <2> DEFINE A == {rows[p] : p \in places}
               B == UNION {blocks[m] : m \in ws.merges}
               C == {columns[p] : p \in places}
               E == UNION {widths[m] : m \in ws.merges}
    <2>1. IsFiniteSet(A) /\ IsFiniteSet(B) /\ IsFiniteSet(C) /\ IsFiniteSet(E)
      BY <1>2, <1>4
    <2>2. UsedRows(ws) = A \cup B /\ UsedColumns(ws) = C \cup E
      BY <1>5, <1>6
    <2> HIDE DEF A, B, C, E
    <2> QED BY <2>1, <2>2, FS_Union
  <1>8. UsedRows(ws) \in SUBSET Nat /\ UsedColumns(ws) \in SUBSET Nat
    BY <1>1 DEF UsedRows, UsedColumns
  <1>9. UsedRows(ws) = {} <=> places = {} /\ ws.merges = {}
    <2>1. \A m \in ws.merges : m[1] \in m[1]..m[3]
      BY <1>1
    <2> QED BY <2>1 DEF UsedRows
  <1>10. UsedColumns(ws) = {} <=> places = {} /\ ws.merges = {}
    <2>1. \A m \in ws.merges : m[2] \in m[2]..m[4]
      BY <1>1
    <2> QED BY <2>1 DEF UsedColumns
  <1> QED BY <1>7, <1>8, <1>9, <1>10

LEMMA CompactedGrid ==
    ASSUME NEW ws, IsWorksheet(ws), UsedRows(ws) # {}
    PROVE  /\ IsGrid(Compacted(ws).grid, Cardinality(UsedRows(ws)), Cardinality(UsedColumns(ws)))
           /\ \A r \in 1..Cardinality(UsedRows(ws)) : \A c \in 1..Cardinality(UsedColumns(ws)) :
                Compacted(ws).grid[r][c] = <<Nth(UsedRows(ws), r), Nth(UsedColumns(ws), c)>>
  <1>1. PICK R, C : R = UsedRows(ws) /\ C = UsedColumns(ws)
    OBVIOUS
  <1>2. R \in SUBSET Nat /\ IsFiniteSet(R) /\ C \in SUBSET Nat /\ IsFiniteSet(C) /\ R # {} /\ C # {}
    BY <1>1, UsedAreFinite
  <1>3. Cardinality(R) \in Nat \ {0} /\ Cardinality(C) \in Nat \ {0}
    BY <1>2, FS_CardinalityType, FS_EmptySet
  <1>4. PICK h, w : h = Cardinality(R) /\ w = Cardinality(C)
    OBVIOUS
  <1>5. \A r \in 1..h : Nth(R, r) \in Nat
    BY <1>2, <1>4, NthOfRank
  <1>6. \A c \in 1..w : Nth(C, c) \in Nat
    BY <1>2, <1>4, NthOfRank
  <1> DEFINE dense == [r \in 1..h |-> [c \in 1..w |-> <<Nth(R, r), Nth(C, c)>>]]
  <1>7. dense \in [1..h -> [1..w -> Nat \X Nat]]
    BY <1>5, <1>6
  <1>8. \A r \in 1..h : \A c \in 1..w : dense[r][c] = <<Nth(R, r), Nth(C, c)>>
    OBVIOUS
  <1>9. Compacted(ws).grid = dense
    BY <1>1, <1>3, <1>4 DEF Compacted
  <1> HIDE DEF dense
  <1> QED BY <1>1, <1>3, <1>4, <1>7, <1>8, <1>9 DEF IsGrid

LEMMA OneCellIsSized ==
    ASSUME NEW sheet, sheet.grid = <<<<NoCell>>>>
    PROVE  Sized(sheet) /\ IsGrid(sheet.grid, 1, 1)
  <1>1. <<<<NoCell>>>> \in [1..1 -> [1..1 -> Nat \X Nat]]
    BY DEF NoCell
  <1>2. IsGrid(sheet.grid, 1, 1)
    BY <1>1 DEF IsGrid
  <1>3. 1 * 1 <= MaxSheetCells /\ 1 \in Nat
    BY BandsAssumption
  <1> QED BY <1>2, <1>3 DEF Sized

LEMMA CompactedSized ==
    ASSUME NEW ws, IsWorksheet(ws), ~Oversized(ws)
    PROVE  Sized(Compacted(ws))
  <1>1. CASE UsedRows(ws) = {}
    <2>1. Compacted(ws).grid = <<<<NoCell>>>>
      BY <1>1, FS_EmptySet DEF Compacted
    <2> QED BY <2>1, OneCellIsSized
  <1>2. CASE UsedRows(ws) # {}
    <2>1. PICK h, w : h = Cardinality(UsedRows(ws)) /\ w = Cardinality(UsedColumns(ws))
      OBVIOUS
    <2>2. IsGrid(Compacted(ws).grid, h, w) /\ h \in Nat /\ w \in Nat \ {0}
      BY <1>2, <2>1, CompactedGrid DEF IsGrid
    <2>3. Max({1, w}) = w
      BY <2>2, LargerOfTwo
    <2>4. ~(h * w > MaxSheetCells) /\ h * w \in Nat
      BY <2>1, <2>2, <2>3 DEF Oversized
    <2> QED BY <2>2, <2>4, BandsAssumption DEF Sized
  <1> QED BY <1>1, <1>2

\* Lines of a CSV file with as many values each have so many values together.
LEMMA SumOfEqual ==
    ASSUME NEW D, NEW u \in [D -> Nat], NEW S \in SUBSET D, IsFiniteSet(S),
           NEW w \in Nat, \A x \in S : u[x] = w
    PROVE  SumOn(u, S) = Cardinality(S) * w
  <1> DEFINE T == {R \in SUBSET S : SumOn(u, R) = Cardinality(R) * w}
  <1>1. {} \in T
    BY SumOfNothing, FS_EmptySet
  <1>2. ASSUME NEW R \in SUBSET S, NEW x \in S \ R, R \in T
        PROVE  R \cup {x} \in T
    <2>1. IsFiniteSet(R) /\ Cardinality(R) \in Nat /\ R \in SUBSET D /\ x \in D \ R
      BY FS_Subset, FS_CardinalityType
    <2>2. SumOn(u, R \cup {x}) = SumOn(u, R) + u[x]
      BY <2>1, SumWithOneMore
    <2>3. Cardinality(R \cup {x}) = Cardinality(R) + 1
      BY <2>1, FS_AddElement
    <2>4. (Cardinality(R) + 1) * w = Cardinality(R) * w + w
      BY <2>1
    <2> QED BY <1>2, <2>2, <2>3, <2>4
  <1>3. S \in T
    <2> HIDE DEF T
    <2> QED BY <1>1, <1>2, AllSubsets
  <1> QED BY <1>3

LEMMA CsvSized ==
    ASSUME NEW widths \in Seq(Nat), NEW kept \in SUBSET (DOMAIN widths), \A i \in kept : widths[i] > 0,
           ~(Cardinality({widths[i] : i \in kept}) > 1), ~(SumOn(widths, kept) > MaxSheetCells)
    PROVE  Sized(Dense(Cardinality(kept), Max({0} \cup {widths[i] : i \in kept})))
  <1> DEFINE values == {widths[i] : i \in kept}
             h == Cardinality(kept)
             w == Max({0} \cup values)
  <1>1. /\ Len(widths) \in Nat /\ DOMAIN widths = 1..Len(widths)
        /\ kept \in SUBSET (DOMAIN widths) /\ widths \in [DOMAIN widths -> Nat]
    BY LenProperties
  <1>2. IsFiniteSet(kept) /\ h \in Nat
    <2>1. IsFiniteSet(DOMAIN widths)
      <3>1. PICK n \in Nat : n = Len(widths)
        BY <1>1
      <3>2. IsFiniteSet(1..n)
        BY FS_Interval
      <3> QED BY <1>1, <3>1, <3>2
    <2> QED BY <1>1, <2>1, FS_Subset, FS_CardinalityType
  <1>3. CASE kept = {}
    <2>1. h = 0
      BY <1>3, FS_EmptySet
    <2>2. Dense(h, w).grid = <<<<NoCell>>>>
      BY <2>1 DEF Dense
    <2> QED BY <2>2, OneCellIsSized
  <1>4. CASE kept # {}
    <2>1. IsFiniteSet(values)
      <3>1. DOMAIN [i \in kept |-> widths[i]] = kept /\ values = {[j \in kept |-> widths[j]][i] : i \in kept}
        OBVIOUS
      <3> HIDE DEF values
      <3> QED BY <1>2, <3>1, ImageIsFinite
    <2>2. Cardinality(values) = 1
      <3>1. Cardinality(values) \in Nat /\ Cardinality(values) # 0
        <4>1. values # {}
          BY <1>4
        <4> HIDE DEF values
        <4> QED BY <2>1, <4>1, FS_CardinalityType, FS_EmptySet
      <3> QED BY <3>1
    <2>3. PICK v : values = {v}
      BY <2>1, <2>2, FS_Singleton
    <2>4. v \in Nat \ {0} /\ \A i \in kept : widths[i] = v
      <3>1. \A i \in kept : widths[i] \in Nat \ {0}
        BY <1>1
      <3>2. \A i \in kept : widths[i] \in values
        OBVIOUS
      <3> HIDE DEF values
      <3> QED BY <1>4, <2>3, <3>1, <3>2
    <2>5. w = v
      <3>1. {0} \cup values = {0, v}
        BY <2>3
      <3>2. w = Max({0} \cup values)
        OBVIOUS
      <3> HIDE DEF values, w
      <3> QED BY <2>4, <3>1, <3>2, LargerOfTwo
    <2>6. SumOn(widths, kept) = h * v
      <3> QED BY <1>1, <1>2, <2>4, SumOfEqual
    <2>7. h * v <= MaxSheetCells
      <3>1. ~(h * v > MaxSheetCells)
        BY <2>6
      <3>2. h * v \in Nat
        <4> HIDE DEF h
        <4> QED BY <1>2, <2>4
      <3> HIDE DEF h
      <3> QED BY <3>1, <3>2, BandsAssumption
    <2>8. h # 0
      BY <1>2, <1>4, FS_EmptySet
    <2>9. IsGrid(Dense(h, v).grid, h, v)
      <3> HIDE DEF h
      <3>1. [r \in 1..h |-> [c \in 1..v |-> <<r, c>>]] \in [1..h -> [1..v -> Nat \X Nat]]
        BY <1>2, <2>4
      <3>2. Dense(h, v).grid = [r \in 1..h |-> [c \in 1..v |-> <<r, c>>]]
        BY <2>8 DEF Dense
      <3> QED BY <1>2, <2>4, <2>8, <3>1, <3>2 DEF IsGrid
    <2>10. Sized(Dense(h, v))
      <3> HIDE DEF h
      <3> QED BY <1>2, <2>4, <2>7, <2>9 DEF Sized
    <2> QED BY <2>5, <2>10
  <1> QED BY <1>3, <1>4

-----------------------------------------------------------------------------
(* The parsed sheets and the written tables                                    *)

SheetSpec == BandsInit /\ [][BandsNext]_bandVars

IsSeq(s) == \E S : s \in Seq(S)

LEMMA Appended ==
    ASSUME NEW s, IsSeq(s), NEW e
    PROVE  /\ IsSeq(Append(s, e)) /\ Len(s) \in Nat /\ Len(Append(s, e)) = Len(s) + 1
           /\ DOMAIN s = 1..Len(s) /\ DOMAIN Append(s, e) = 1..Len(s) + 1
           /\ \A i \in 1..Len(s) : Append(s, e)[i] = s[i]
           /\ Append(s, e)[Len(s) + 1] = e
  <1>1. PICK S : s \in Seq(S)
    BY DEF IsSeq
  <1>2. s \in Seq(S \cup {e}) /\ e \in S \cup {e}
    BY <1>1, SeqMonotonic
  <1>3. Append(s, e) \in Seq(S \cup {e})
    BY <1>2, AppendProperties
  <1> QED BY <1>2, <1>3, AppendProperties, LenProperties DEF IsSeq

LEMMA FunctionIsSeq ==
    ASSUME NEW S, NEW k \in Nat, NEW f \in [1..k -> S]
    PROVE  f \in Seq(S) /\ Len(f) = k
  OBVIOUS

Follows(both, s, t) ==
    /\ IsSeq(both) /\ Len(s) \in Nat /\ Len(t) \in Nat
    /\ DOMAIN s = 1..Len(s) /\ DOMAIN t = 1..Len(t) /\ DOMAIN both = 1..Len(s) + Len(t)
    /\ \A i \in 1..Len(s) : both[i] = s[i]
    /\ \A i \in 1..Len(t) : both[Len(s) + i] = t[i]

LEMMA Joined ==
    ASSUME NEW s, IsSeq(s), NEW t, IsSeq(t)
    PROVE  Follows(s \o t, s, t)
  <1>1. PICK S : s \in Seq(S)
    BY DEF IsSeq
  <1>2. PICK T : t \in Seq(T)
    BY DEF IsSeq
  <1>3. s \in Seq(S \cup T) /\ t \in Seq(S \cup T)
    BY <1>1, <1>2, SeqMonotonic
  <1>4. Len(s) \in Nat /\ Len(t) \in Nat /\ DOMAIN s = 1..Len(s) /\ DOMAIN t = 1..Len(t)
    BY <1>3, LenProperties
  <1>5. /\ s \o t \in Seq(S \cup T) /\ Len(s \o t) = Len(s) + Len(t)
        /\ \A i \in 1..Len(s) + Len(t) : (s \o t)[i] = IF i <= Len(s) THEN s[i] ELSE t[i - Len(s)]
    BY <1>3, ConcatProperties
  <1>6. DOMAIN (s \o t) = 1..Len(s) + Len(t)
    BY <1>5, LenProperties
  <1>7. \A i \in 1..Len(s) : (s \o t)[i] = s[i]
    BY <1>4, <1>5
  <1>8. ASSUME NEW i \in 1..Len(t) PROVE (s \o t)[Len(s) + i] = t[i]
    <2>1. Len(s) + i \in 1..Len(s) + Len(t) /\ ~(Len(s) + i <= Len(s)) /\ (Len(s) + i) - Len(s) = i
      BY <1>4
    <2> QED BY <1>5, <2>1
  <1> QED BY <1>4, <1>5, <1>6, <1>7, <1>8 DEF IsSeq, Follows

\* The worksheets before one that are not skipped.
Earlier(n) == {i \in Sources : i < n}

SheetTypes ==
    /\ phase \in {"sheets", "csv", "write", "done", "tooComplex", "failed"}
    /\ book \in Seq(Range(book)) /\ \A ws \in Range(book) : IsWorksheet(ws)
    /\ lines \in Seq(Range(lines)) /\ \A row \in Range(lines) : IsCsvRow(row)
    /\ at \in Nat \ {0}
    /\ IsSeq(parsed) /\ IsSeq(tables)

ParsedFit == \A s \in DOMAIN parsed : Sized(parsed[s])

\* A sheet for each worksheet that was not skipped, in their order.
ParsedOf(sources) ==
    /\ Len(parsed) = Cardinality(sources)
    /\ \A i \in sources : parsed[Rank(Sources, i)] = Compacted(book[i])

BookIsParsed ==
    /\ phase = "sheets" => at <= Len(book) + 1 /\ ParsedOf(Earlier(at))
    /\ phase \in {"write", "done"} /\ book # <<>> => ParsedOf(Sources)
    /\ phase \in {"sheets", "csv"} => tables = <<>>
    /\ phase = "csv" => book = <<>> /\ at = 1

SheetsAreWritten ==
    phase \in {"write", "done"} =>
        /\ at <= Len(parsed) + 1
        /\ phase = "done" => at = Len(parsed) + 1
        /\ \A k \in DOMAIN tables : tables[k].sheet \in 1..at - 1
        /\ \A s \in 1..at - 1 : TablesOf(s) = Range(SheetTables(parsed[s]))

SheetInv == SheetTypes /\ ParsedFit /\ BookIsParsed /\ SheetsAreWritten

LEMMA SheetStart == BandsInit => SheetInv
  <1> SUFFICES ASSUME BandsInit PROVE SheetInv
    OBVIOUS
  <1>1. phase \in {"sheets", "csv"} /\ at = 1 /\ parsed = <<>> /\ tables = <<>>
    BY DEF BandsInit
  <1>2. <<>> \in Seq(Range(<<>>)) /\ Range(<<>>) = {} /\ IsSeq(<<>>) /\ Len(<<>>) = 0 /\ DOMAIN <<>> = {}
    BY DEF Range, IsSeq
  <1>3. /\ book \in Seq(Range(book)) /\ (\A ws \in Range(book) : IsWorksheet(ws))
        /\ lines \in Seq(Range(lines)) /\ (\A row \in Range(lines) : IsCsvRow(row))
    <2>1. CASE book \in Workbooks /\ lines = <<>>
      BY <1>2, <2>1, BandsAssumption
    <2>2. CASE book = <<>> /\ lines \in CsvFiles
      BY <1>2, <2>2, BandsAssumption
    <2> QED BY <2>1, <2>2 DEF BandsInit
  <1>4. SheetTypes
    BY <1>1, <1>2, <1>3 DEF SheetTypes
  <1>5. DOMAIN book = 1..Len(book) /\ Len(book) \in Nat
    BY <1>3, LenProperties
  <1>6. Earlier(1) = {}
    BY <1>5 DEF Earlier, Sources
  <1>7. ParsedOf(Earlier(1))
    BY <1>1, <1>2, <1>6, FS_EmptySet DEF ParsedOf
  <1>8. BookIsParsed
    BY <1>1, <1>5, <1>7 DEF BookIsParsed, BandsInit
  <1>9. ParsedFit /\ SheetsAreWritten
    BY <1>1, <1>2 DEF ParsedFit, SheetsAreWritten
  <1> QED BY <1>4, <1>8, <1>9 DEF SheetInv

LEMMA SourceFacts ==
    ASSUME SheetTypes
    PROVE  /\ Len(book) \in Nat /\ DOMAIN book = 1..Len(book)
           /\ Sources \in SUBSET Nat /\ IsFiniteSet(Sources)
           /\ \A i \in DOMAIN book : IsWorksheet(book[i])
           /\ \A n \in Nat : /\ IsFiniteSet(Earlier(n)) /\ Cardinality(Earlier(n)) \in Nat
                            /\ \A i \in Earlier(n) : Rank(Sources, i) \in 1..Cardinality(Earlier(n))
  <1>1. Len(book) \in Nat /\ DOMAIN book = 1..Len(book)
    BY LenProperties DEF SheetTypes
  <1>2. IsFiniteSet(DOMAIN book)
    <2>1. PICK n \in Nat : n = Len(book)
      BY <1>1
    <2>2. IsFiniteSet(1..n)
      BY FS_Interval
    <2> QED BY <1>1, <2>1, <2>2
  <1>3. Sources \in SUBSET Nat /\ IsFiniteSet(Sources)
    <2>1. Sources \in SUBSET DOMAIN book
      BY DEF Sources
    <2>2. IsFiniteSet(Sources)
      BY <1>2, <2>1, FS_Subset
    <2> QED BY <1>1, <2>1, <2>2
  <1>4. \A i \in DOMAIN book : IsWorksheet(book[i])
    BY DEF SheetTypes, Range
  <1>5. ASSUME NEW n \in Nat
        PROVE  /\ IsFiniteSet(Earlier(n)) /\ Cardinality(Earlier(n)) \in Nat
               /\ \A i \in Earlier(n) : Rank(Sources, i) \in 1..Cardinality(Earlier(n))
    <2>1. Earlier(n) \in SUBSET Sources
      BY DEF Earlier
    <2>2. IsFiniteSet(Earlier(n)) /\ Cardinality(Earlier(n)) \in Nat
      BY <1>3, <2>1, FS_Subset, FS_CardinalityType
    <2>3. ASSUME NEW i \in Earlier(n)
          PROVE  Rank(Sources, i) \in 1..Cardinality(Earlier(n))
      <3>1. i \in Sources /\ i < n /\ i \in Nat
        BY <1>3 DEF Earlier
      <3>2. {y \in Sources : y <= i} \in SUBSET Earlier(n)
        <4>1. \A y \in Sources : y <= i => y < n
          BY <1>3, <3>1
        <4> QED BY <4>1 DEF Earlier
      <3>3. Cardinality({y \in Sources : y <= i}) <= Cardinality(Earlier(n))
        BY <2>2, <3>2, FS_Subset
      <3>4. Rank(Sources, i) \in 1..Cardinality(Sources) /\ Cardinality(Sources) \in Nat
        BY <1>3, <3>1, RankOfMember, FS_CardinalityType
      <3> QED BY <2>2, <3>3, <3>4 DEF Rank
    <2> QED BY <2>2, <2>3
  <1> QED BY <1>1, <1>3, <1>4, <1>5

\* A worksheet that is not skipped is the next of those that are not.
LEMMA NextSource ==
    ASSUME SheetTypes, at \in DOMAIN book
    PROVE  /\ ~Shows(book[at]) => Earlier(at + 1) = Earlier(at)
           /\ Shows(book[at]) =>
                /\ Earlier(at + 1) = Earlier(at) \cup {at}
                /\ Rank(Sources, at) = Cardinality(Earlier(at)) + 1
                /\ Cardinality(Earlier(at + 1)) = Cardinality(Earlier(at)) + 1
  <1>1. Sources \in SUBSET Nat /\ at \in Nat
    BY SourceFacts DEF SheetTypes
  <1>2. IsFiniteSet(Earlier(at)) /\ at \notin Earlier(at)
    BY <1>1, SourceFacts DEF Earlier
  <1>3. \A i \in Sources : i < at + 1 <=> i < at \/ i = at
    BY <1>1
  <1>4. CASE ~Shows(book[at])
    <2>1. at \notin Sources
      BY <1>4 DEF Sources
    <2> QED BY <1>3, <1>4, <2>1 DEF Earlier
  <1>5. CASE Shows(book[at])
    <2>1. at \in Sources
      BY <1>5 DEF Sources
    <2>2. Earlier(at + 1) = Earlier(at) \cup {at}
      BY <1>3, <2>1 DEF Earlier
    <2>3. {y \in Sources : y <= at} = Earlier(at + 1)
      <3>1. \A y \in Sources : y <= at <=> y < at + 1
        BY <1>1
      <3> QED BY <3>1 DEF Earlier
    <2>4. Cardinality(Earlier(at + 1)) = Cardinality(Earlier(at)) + 1
      BY <1>2, <2>2, FS_AddElement
    <2> QED BY <1>5, <2>2, <2>3, <2>4 DEF Rank
  <1> QED BY <1>4, <1>5

LEMMA ParseSheetStep ==
    ASSUME SheetInv, ParseSheet
    PROVE  SheetInv'
  <1>1. SheetTypes /\ ParsedFit /\ BookIsParsed
    BY DEF SheetInv
  <1>2. /\ phase = "sheets" /\ at <= Len(book) /\ at' = at + 1 /\ UNCHANGED <<book, lines, tables>>
        /\ \/ ~Shows(book[at]) /\ UNCHANGED <<parsed, phase>>
           \/ phase' = "tooComplex" /\ UNCHANGED parsed
           \/ /\ Shows(book[at]) /\ ~Oversized(book[at]) /\ UNCHANGED phase
              /\ parsed' = Append(parsed, Compacted(book[at]))
    BY DEF ParseSheet
  <1>3. at \in DOMAIN book /\ at \in Nat /\ Len(book) \in Nat
    BY <1>1, <1>2, SourceFacts DEF SheetTypes
  <1>4. IsWorksheet(book[at])
    BY <1>1, <1>3, SourceFacts
  <1>5. Sources' = Sources /\ Earlier(at)' = Earlier(at + 1)
    BY <1>2 DEF Sources, Earlier
  <1>6. /\ IsSeq(Append(parsed, Compacted(book[at])))
        /\ Len(Append(parsed, Compacted(book[at]))) = Len(parsed) + 1 /\ Len(parsed) \in Nat
        /\ DOMAIN parsed = 1..Len(parsed) /\ DOMAIN Append(parsed, Compacted(book[at])) = 1..Len(parsed) + 1
        /\ \A i \in 1..Len(parsed) : Append(parsed, Compacted(book[at]))[i] = parsed[i]
        /\ Append(parsed, Compacted(book[at]))[Len(parsed) + 1] = Compacted(book[at])
    BY <1>1, Appended DEF SheetTypes
  <1>7. SheetTypes'
    <2>1. IsSeq(parsed)' /\ IsSeq(tables)'
      BY <1>1, <1>2, <1>6 DEF SheetTypes
    <2>2. at' \in Nat \ {0} /\ phase' \in {"sheets", "tooComplex"}
      BY <1>2, <1>3
    <2> QED BY <1>1, <1>2, <2>1, <2>2 DEF SheetTypes
  <1>8. ParsedFit'
    <2>1. CASE parsed' = parsed
      BY <1>1, <2>1 DEF ParsedFit
    <2>2. CASE ~Oversized(book[at]) /\ parsed' = Append(parsed, Compacted(book[at]))
      <3>1. Sized(Compacted(book[at]))
        BY <1>4, <2>2, CompactedSized
      <3> SUFFICES ASSUME NEW s \in DOMAIN parsed' PROVE Sized(parsed'[s])
        BY DEF ParsedFit, Sized
      <3>2. s \in 1..Len(parsed) \/ s = Len(parsed) + 1
        BY <1>6, <2>2
      <3> QED BY <1>1, <1>6, <2>2, <3>1, <3>2 DEF ParsedFit
    <2> QED BY <1>2, <2>1, <2>2
  <1>9. ParsedOf(Earlier(at)) /\ tables = <<>>
    BY <1>1, <1>2 DEF BookIsParsed
  <1>10. phase' = "sheets" => ParsedOf(Earlier(at))'
    <2>1. CASE ~Shows(book[at]) /\ UNCHANGED parsed
      BY <1>1, <1>2, <1>3, <1>5, <1>9, <2>1, NextSource DEF ParsedOf
    <2>2. CASE Shows(book[at]) /\ parsed' = Append(parsed, Compacted(book[at]))
      <3>1. /\ Earlier(at + 1) = Earlier(at) \cup {at}
            /\ Rank(Sources, at) = Len(parsed) + 1
            /\ Cardinality(Earlier(at + 1)) = Len(parsed) + 1
        BY <1>1, <1>3, <1>9, <2>2, NextSource DEF ParsedOf
      <3>2. \A i \in Earlier(at) : Rank(Sources, i) \in 1..Len(parsed)
        BY <1>1, <1>3, <1>9, SourceFacts DEF ParsedOf
      <3>3. \A i \in Earlier(at + 1) : parsed'[Rank(Sources, i)] = Compacted(book[i])
        BY <1>6, <1>9, <2>2, <3>1, <3>2 DEF ParsedOf
      <3> QED BY <1>2, <1>5, <1>6, <2>2, <3>1, <3>3 DEF ParsedOf
    <2> QED BY <1>2, <2>1, <2>2
  <1>11. BookIsParsed'
    BY <1>2, <1>3, <1>5, <1>9, <1>10 DEF BookIsParsed
  <1>12. SheetsAreWritten'
    BY <1>2 DEF SheetsAreWritten
  <1> QED BY <1>7, <1>8, <1>11, <1>12 DEF SheetInv

LEMMA RowsAreWide ==
    ASSUME SheetTypes
    PROVE  /\ RowWidths(lines) \in Seq(Nat) /\ Kept(lines) \in SUBSET (DOMAIN RowWidths(lines))
           /\ \A i \in Kept(lines) : RowWidths(lines)[i] > 0
  <1>1. Len(lines) \in Nat /\ DOMAIN lines = 1..Len(lines)
    BY LenProperties DEF SheetTypes
  <1>2. \A i \in DOMAIN lines : lines[i].values \in Nat /\ lines[i].filled \in Nat /\ lines[i].filled <= lines[i].values
    BY DEF SheetTypes, IsCsvRow, Range
  <1>3. RowWidths(lines) \in [1..Len(lines) -> Nat]
    BY <1>1, <1>2 DEF RowWidths
  <1>4. RowWidths(lines) \in Seq(Nat)
    BY <1>1, <1>3, FunctionIsSeq
  <1> QED BY <1>2, <1>4 DEF RowWidths, Kept

LEMMA ParseCsvStep ==
    ASSUME SheetInv, ParseCsv
    PROVE  SheetInv'
  <1> DEFINE dense == Dense(Cardinality(Kept(lines)), Max({0} \cup {RowWidths(lines)[i] : i \in Kept(lines)}))
  <1>1. SheetTypes /\ ParsedFit /\ BookIsParsed
    BY DEF SheetInv
  <1>2. /\ phase = "csv" /\ UNCHANGED <<book, lines, at, tables>>
        /\ \/ phase' \in {"tooComplex", "failed"} /\ UNCHANGED parsed
           \/ /\ phase' = "write" /\ parsed' = <<dense>>
              /\ ~(Cardinality({RowWidths(lines)[i] : i \in Kept(lines)}) > 1)
              /\ ~(SumFunctionOnSet(RowWidths(lines), Kept(lines)) > MaxSheetCells)
    BY DEF ParseCsv
  <1> HIDE DEF dense
  <1>3. tables = <<>> /\ book = <<>> /\ at = 1
    BY <1>1, <1>2 DEF BookIsParsed
  <1>4. CASE phase' \in {"tooComplex", "failed"} /\ UNCHANGED parsed
    <2>1. SheetTypes'
      BY <1>1, <1>2, <1>4 DEF SheetTypes
    <2>2. ParsedFit'
      BY <1>1, <1>4 DEF ParsedFit, Sized
    <2>3. BookIsParsed' /\ SheetsAreWritten'
      BY <1>4 DEF BookIsParsed, SheetsAreWritten
    <2> QED BY <2>1, <2>2, <2>3 DEF SheetInv
  <1>5. CASE /\ phase' = "write" /\ parsed' = <<dense>>
             /\ ~(Cardinality({RowWidths(lines)[i] : i \in Kept(lines)}) > 1)
             /\ ~(SumFunctionOnSet(RowWidths(lines), Kept(lines)) > MaxSheetCells)
    <2>1. Sized(dense)
      <3>1. /\ RowWidths(lines) \in Seq(Nat) /\ Kept(lines) \in SUBSET (DOMAIN RowWidths(lines))
            /\ \A i \in Kept(lines) : RowWidths(lines)[i] > 0
        BY <1>1, RowsAreWide
      <3>2. ~(SumOn(RowWidths(lines), Kept(lines)) > MaxSheetCells)
        BY <1>5 DEF SumFunctionOnSet, SumOn
      <3> QED BY <1>5, <3>1, <3>2, CsvSized DEF dense
    <2>2. <<dense>> \in Seq({dense}) /\ Len(<<dense>>) = 1 /\ DOMAIN <<dense>> = {1} /\ <<dense>>[1] = dense
      OBVIOUS
    <2>3. SheetTypes'
      BY <1>1, <1>2, <1>5, <2>2 DEF SheetTypes, IsSeq
    <2>4. ParsedFit'
      BY <1>5, <2>1, <2>2 DEF ParsedFit, Sized
    <2>5. BookIsParsed'
      BY <1>2, <1>3, <1>5 DEF BookIsParsed
    <2>6. SheetsAreWritten'
      BY <1>2, <1>3, <1>5, <2>2 DEF SheetsAreWritten
    <2> QED BY <2>3, <2>4, <2>5, <2>6 DEF SheetInv
  <1> QED BY <1>2, <1>4, <1>5

LEMMA StartWritingStep ==
    ASSUME SheetInv, StartWriting
    PROVE  SheetInv'
  <1>1. SheetTypes /\ ParsedFit /\ BookIsParsed
    BY DEF SheetInv
  <1>2. /\ phase = "sheets" /\ at > Len(book) /\ phase' = "write" /\ at' = 1
        /\ UNCHANGED <<book, lines, parsed, tables>>
    BY DEF StartWriting
  <1>3. ParsedOf(Earlier(at)) /\ at <= Len(book) + 1 /\ tables = <<>>
    BY <1>1, <1>2 DEF BookIsParsed
  <1>4. Len(book) \in Nat /\ DOMAIN book = 1..Len(book)
    BY <1>1, SourceFacts
  <1>5. at = Len(book) + 1
    BY <1>1, <1>2, <1>3, <1>4 DEF SheetTypes
  <1>6. Earlier(at) = Sources
    <2>1. \A i \in Sources : i < at
      BY <1>4, <1>5 DEF Sources
    <2> QED BY <2>1 DEF Earlier
  <1>7. ParsedOf(Sources)' 
    BY <1>2, <1>3, <1>6 DEF ParsedOf, Sources
  <1>8. Len(parsed) \in Nat
    BY <1>1, Appended DEF SheetTypes
  <1>9. SheetTypes'
    BY <1>1, <1>2 DEF SheetTypes
  <1>10. ParsedFit'
    BY <1>1, <1>2 DEF ParsedFit
  <1>11. BookIsParsed'
    BY <1>2, <1>7 DEF BookIsParsed
  <1>12. SheetsAreWritten'
    BY <1>2, <1>3, <1>8 DEF SheetsAreWritten
  <1> QED BY <1>9, <1>10, <1>11, <1>12 DEF SheetInv

LEMMA TablesAreNumbered ==
    ASSUME NEW sheet, Sized(sheet)
    PROVE  \E k \in Nat : DOMAIN SheetTables(sheet) = 1..k
  <1>1. Columns(sheet) \in Nat
    BY TableSizeOfGrid DEF Sized
  <1>2. CASE Columns(sheet) <= BandWidth
    <2>1. SheetTables(sheet) = <<sheet>>
      BY <1>2 DEF SheetTables
    <2> QED BY <2>1
  <1>3. CASE ~(Columns(sheet) <= BandWidth)
    <2>1. DOMAIN SheetTables(sheet) = DOMAIN Bands(sheet)
      BY <1>3 DEF SheetTables
    <2>2. BandWidth < Columns(sheet)
      BY <1>1, <1>3, BandsAssumption
    <2> QED BY <1>1, <2>1, <2>2, BandColumns
  <1> QED BY <1>2, <1>3

LEMMA WriteSheetStep ==
    ASSUME SheetInv, WriteSheet
    PROVE  SheetInv'
  <1> DEFINE bands == SheetTables(parsed[at])
             new == [n \in DOMAIN bands |-> [sheet |-> at, table |-> bands[n]]]
  <1>1. SheetTypes /\ ParsedFit /\ BookIsParsed /\ SheetsAreWritten
    BY DEF SheetInv
  <1>2. Len(parsed) \in Nat /\ DOMAIN parsed = 1..Len(parsed)
    BY <1>1, Appended DEF SheetTypes
  <1>3. at \in Nat \ {0} /\ at <= Len(parsed) /\ phase = "write"
    BY <1>1 DEF WriteSheet, SheetTypes
  <1>4. Sized(parsed[at])
    BY <1>1, <1>2, <1>3 DEF ParsedFit
  <1>5. /\ phase' = "write" /\ at' = at + 1 /\ UNCHANGED <<book, lines, parsed>>
        /\ tables' = tables \o new
    BY <1>3, <1>4, TablesFit DEF WriteSheet
  <1>6. PICK k \in Nat : DOMAIN bands = 1..k
    BY <1>4, TablesAreNumbered
  <1>7. IsSeq(new) /\ DOMAIN new = 1..k /\ Len(new) = k /\ \A n \in 1..k : new[n].sheet = at /\ new[n].table = bands[n]
    <2>1. DOMAIN new = 1..k
      BY <1>6
    <2>2. \E S : new \in Seq(S) /\ Len(new) = k
      <3>1. PICK S : S = {new[n] : n \in 1..k}
        OBVIOUS
      <3>2. new = [n \in 1..k |-> new[n]]
        BY <1>6
      <3> HIDE DEF new
      <3>3. new \in [1..k -> S]
        BY <3>1, <3>2
      <3> QED BY <1>6, <3>3, FunctionIsSeq
    <2>3. \A n \in 1..k : new[n].sheet = at /\ new[n].table = bands[n]
      BY <1>6
    <2> HIDE DEF new
    <2> QED BY <1>6, <2>1, <2>2, <2>3 DEF IsSeq
  <1> HIDE DEF new, bands
  <1>8. /\ IsSeq(tables \o new) /\ Len(tables) \in Nat
        /\ DOMAIN tables = 1..Len(tables) /\ DOMAIN (tables \o new) = 1..Len(tables) + k
        /\ \A i \in 1..Len(tables) : (tables \o new)[i] = tables[i]
        /\ \A i \in 1..k : (tables \o new)[Len(tables) + i] = new[i]
    <2>1. IsSeq(tables) /\ IsSeq(new) /\ Len(new) = k
      BY <1>1, <1>7 DEF SheetTypes
    <2>2. Follows(tables \o new, tables, new)
      BY <2>1, Joined
    <2> QED BY <2>1, <2>2 DEF Follows
  <1>9. ASSUME NEW i \in DOMAIN tables'
        PROVE  \/ i \in DOMAIN tables /\ tables'[i] = tables[i]
               \/ \E n \in 1..k : i = Len(tables) + n /\ tables'[i] = new[n]
    <2>1. i \in 1..Len(tables) \/ i - Len(tables) \in 1..k
      BY <1>5, <1>6, <1>8
    <2>2. i = Len(tables) + (i - Len(tables))
      BY <1>5, <1>6, <1>8
    <2> QED BY <1>5, <1>8, <2>1, <2>2
  <1>10. \A i \in DOMAIN tables : i \in DOMAIN tables' /\ tables'[i] = tables[i]
    BY <1>5, <1>6, <1>8
  <1>11. \A n \in 1..k : Len(tables) + n \in DOMAIN tables' /\ tables'[Len(tables) + n] = new[n]
    BY <1>5, <1>6, <1>8
  <1>12. \A i \in DOMAIN tables : tables[i].sheet \in 1..at - 1
    BY <1>1, <1>3 DEF SheetsAreWritten
  <1>13. SheetTypes'
    BY <1>1, <1>3, <1>5, <1>8 DEF SheetTypes
  <1>14. ParsedFit'
    BY <1>1, <1>5 DEF ParsedFit
  <1>15. BookIsParsed'
    BY <1>1, <1>3, <1>5 DEF BookIsParsed, ParsedOf, Sources
  <1>16. \A i \in DOMAIN tables' : tables'[i].sheet \in 1..at' - 1
    <2>1. at' - 1 = at /\ at \in 1..at /\ \A n \in 1..at - 1 : n \in 1..at
      BY <1>3, <1>5
    <2> QED BY <1>7, <1>9, <1>12, <2>1
  <1>17. ASSUME NEW s \in 1..at
         PROVE  TablesOf(s)' = Range(SheetTables(parsed[s]))
    <2>1. TablesOf(s)' = {tables'[i].table : i \in {j \in DOMAIN tables' : tables'[j].sheet = s}}
      BY DEF TablesOf
    <2>2. CASE s = at
      <3>1. \A i \in DOMAIN tables : tables[i].sheet # s
        BY <1>3, <1>12, <2>2
      <3>2. {tables'[i].table : i \in {j \in DOMAIN tables' : tables'[j].sheet = s}} = {bands[n] : n \in 1..k}
        BY <1>7, <1>9, <1>11, <2>2, <3>1
      <3>3. Range(bands) = {bands[n] : n \in 1..k}
        BY <1>6 DEF Range
      <3> QED BY <2>1, <2>2, <3>2, <3>3 DEF bands
    <2>3. CASE s # at
      <3>1. s \in 1..at - 1
        BY <1>3, <2>3
      <3>2. {tables'[i].table : i \in {j \in DOMAIN tables' : tables'[j].sheet = s}} = TablesOf(s)
        BY <1>7, <1>9, <1>10, <2>3 DEF TablesOf
      <3> QED BY <1>1, <1>3, <2>1, <3>1, <3>2 DEF SheetsAreWritten
    <2> QED BY <2>2, <2>3
  <1>18. SheetsAreWritten'
    <2>1. at' <= Len(parsed') + 1 /\ at' - 1 = at
      BY <1>2, <1>3, <1>5
    <2>2. \A s \in 1..at' - 1 : TablesOf(s)' = Range(SheetTables(parsed'[s]))
      BY <1>5, <1>17, <2>1
    <2> QED BY <1>5, <1>16, <2>1, <2>2 DEF SheetsAreWritten
  <1> QED BY <1>13, <1>14, <1>15, <1>18 DEF SheetInv

\* What a step without effect on the sheets and tables leaves.
LEMMA SheetsStay ==
    ASSUME SheetInv, UNCHANGED <<book, lines, at, parsed, tables>>,
           \/ phase' \in {"failed", phase}
           \/ phase = "write" /\ phase' = "done" /\ at > Len(parsed)
    PROVE  SheetInv'
  <1>1. SheetTypes /\ ParsedFit /\ BookIsParsed /\ SheetsAreWritten
    BY DEF SheetInv
  <1>2. SheetTypes'
    BY <1>1 DEF SheetTypes
  <1>3. ParsedFit'
    BY <1>1 DEF ParsedFit
  <1>4. Earlier(at)' = Earlier(at) /\ Sources' = Sources
    BY DEF Earlier, Sources
  <1>5. BookIsParsed'
    BY <1>1, <1>4 DEF BookIsParsed, ParsedOf
  <1>6. \A s : TablesOf(s)' = TablesOf(s)
    BY DEF TablesOf
  <1>7. Len(parsed) \in Nat /\ at \in Nat
    BY <1>1, Appended DEF SheetTypes
  <1>8. phase = "write" /\ at > Len(parsed) => at = Len(parsed) + 1
    BY <1>1, <1>7 DEF SheetsAreWritten
  <1>9. SheetsAreWritten'
    BY <1>1, <1>6, <1>8 DEF SheetsAreWritten
  <1> QED BY <1>2, <1>3, <1>5, <1>9 DEF SheetInv

LEMMA SheetInvHolds == SheetSpec => []SheetInv
  <1>1. ASSUME SheetInv, [BandsNext]_bandVars
        PROVE  SheetInv'
    <2>1. CASE SaveDocument
      BY <1>1, <2>1, SheetsStay DEF SaveDocument
    <2>2. CASE FailParse
      BY <1>1, <2>2, SheetsStay DEF FailParse
    <2>3. CASE UNCHANGED bandVars
      BY <1>1, <2>3, SheetsStay DEF bandVars
    <2> QED BY <1>1, <2>1, <2>2, <2>3, ParseSheetStep, ParseCsvStep, StartWritingStep, WriteSheetStep DEF BandsNext
  <1> QED BY <1>1, SheetStart, PTL DEF SheetSpec

\* The parser measures a sheet with every row and column something is in before it
\* builds one, and a band is never larger than its sheet: whatever the workbook or
\* CSV file and whatever the limits, the writer never has to refuse a table.
THEOREM WriterAccepts == SheetSpec => []WriterNeverRefuses
  <1>1. SheetInv => WriterNeverRefuses
    BY DEF SheetInv, SheetTypes, WriterNeverRefuses
  <1> QED BY <1>1, SheetInvHolds, PTL

-----------------------------------------------------------------------------
(* What the tables show                                                        *)

Height(ws) == Cardinality(UsedRows(ws))
Breadth(ws) == Cardinality(UsedColumns(ws))
ColumnRank(ws, x) == Rank(UsedColumns(ws), x)

\* A table with the first n of some columns of the dense grid of a worksheet.
InColumns(ws, cols, n, c) == \E i \in 1..n : cols[i] = c
KeptIn(ws, cols, n) ==
    {m \in ws.merges : \A c \in ColumnRank(ws, m[2])..ColumnRank(ws, m[4]) : InColumns(ws, cols, n, c)}

Cut(table, ws, cols, n) ==
    /\ n \in Nat \ {0} /\ DOMAIN cols = 1..n
    /\ \A i \in 1..n : cols[i] \in 1..Breadth(ws)
    /\ \A i, j \in 1..n : i < j => cols[i] < cols[j]
    /\ IsGrid(table.grid, Height(ws), n)
    /\ \A r \in 1..Height(ws) : \A i \in 1..n :
         table.grid[r][i] = <<Nth(UsedRows(ws), r), Nth(UsedColumns(ws), cols[i])>>
    /\ table.merges =
         {<<Rank(UsedRows(ws), m[1]), PlaceIn(cols, ColumnRank(ws, m[2])),
            Rank(UsedRows(ws), m[3]), PlaceIn(cols, ColumnRank(ws, m[4]))>> : m \in KeptIn(ws, cols, n)}
    /\ table.pictures =
         {<<Rank(UsedRows(ws), p[1]), PlaceIn(cols, ColumnRank(ws, p[2]))>> :
            p \in {x \in Pictured(ws) : InColumns(ws, cols, n, ColumnRank(ws, x[2]))}}

\* Rows and columns of a range lie together in the dense grid too.
RangeMaps(U, a, b) ==
    /\ \A r \in 1..Cardinality(U) : r \in Rank(U, a)..Rank(U, b) <=> Nth(U, r) \in a..b
    /\ Rank(U, a)..Rank(U, b) \subseteq 1..Cardinality(U)
    /\ \A y \in a..b : Rank(U, y) \in Rank(U, a)..Rank(U, b) /\ Nth(U, Rank(U, y)) = y

LEMMA RanksOfRange ==
    ASSUME NEW U \in SUBSET Nat, IsFiniteSet(U), NEW a \in Nat, NEW b \in Nat, a <= b, a..b \subseteq U
    PROVE  RangeMaps(U, a, b)
  <1>1. a \in U /\ b \in U
    <2>1. a \in a..b /\ b \in a..b
      OBVIOUS
    <2> QED BY <2>1
  <1>2. /\ Rank(U, a) \in 1..Cardinality(U) /\ Nth(U, Rank(U, a)) = a
        /\ Rank(U, b) \in 1..Cardinality(U) /\ Nth(U, Rank(U, b)) = b
        /\ Cardinality(U) \in Nat
    BY <1>1, NthOfRank, FS_CardinalityType
  <1>3. ASSUME NEW r \in 1..Cardinality(U)
        PROVE  r \in Rank(U, a)..Rank(U, b) <=> Nth(U, r) \in a..b
    <2>1. Nth(U, r) \in U /\ Nth(U, r) \in Nat
      BY NthOfRank
    <2>2. r < Rank(U, a) <=> Nth(U, r) < a
      BY <1>2, NthOfRank
    <2>3. Rank(U, b) < r <=> b < Nth(U, r)
      BY <1>2, NthOfRank
    <2> QED BY <1>2, <2>1, <2>2, <2>3
  <1>4. Rank(U, a)..Rank(U, b) \subseteq 1..Cardinality(U)
    BY <1>2
  <1>5. ASSUME NEW y \in a..b
        PROVE  Rank(U, y) \in Rank(U, a)..Rank(U, b) /\ Nth(U, Rank(U, y)) = y
    <2>1. Rank(U, y) \in 1..Cardinality(U) /\ Nth(U, Rank(U, y)) = y
      BY NthOfRank
    <2> QED BY <1>3, <2>1
  <1> QED BY <1>3, <1>4, <1>5 DEF RangeMaps

LEMMA PlaceOfColumn ==
    ASSUME NEW n \in Nat, NEW w \in Nat, NEW cols, DOMAIN cols = 1..n, \A i \in 1..n : cols[i] \in 1..w,
           \A i, j \in 1..n : i < j => cols[i] < cols[j]
    PROVE  /\ \A i \in 1..n : PlaceIn(cols, cols[i]) = i
           /\ \A i, j \in 1..n : i < j <=> cols[i] < cols[j]
  <1>1. \A i, j \in 1..n : cols[i] = cols[j] => i = j
    <2> SUFFICES ASSUME NEW i \in 1..n, NEW j \in 1..n, i # j PROVE cols[i] # cols[j]
      OBVIOUS
    <2>1. i < j \/ j < i
      OBVIOUS
    <2>2. cols[i] < cols[j] \/ cols[j] < cols[i]
      BY <2>1
    <2>3. cols[i] \in Nat /\ cols[j] \in Nat
      OBVIOUS
    <2> QED BY <2>2, <2>3
  <1>2. ASSUME NEW i \in 1..n PROVE PlaceIn(cols, cols[i]) = i
    BY <1>1 DEF PlaceIn
  <1>3. ASSUME NEW i \in 1..n, NEW j \in 1..n, cols[i] < cols[j]
        PROVE  i < j
    <2>1. i < j \/ i = j \/ j < i
      OBVIOUS
    <2>2. cols[i] \in Nat /\ cols[j] \in Nat /\ (j < i => cols[j] < cols[i])
      OBVIOUS
    <2> QED BY <1>3, <2>1, <2>2
  <1> QED BY <1>2, <1>3

LEMMA CutFacts ==
    ASSUME NEW ws, IsWorksheet(ws), NEW table, NEW cols, NEW n, Cut(table, ws, cols, n)
    PROVE  /\ PlacesIn(table) = (1..Height(ws)) \X (1..n)
           /\ \A p \in PlacesIn(table) :
                Shown(table, p) = <<Nth(UsedRows(ws), p[1]), Nth(UsedColumns(ws), cols[p[2]])>>
           /\ \A i \in 1..n : PlaceIn(cols, cols[i]) = i
           /\ \A i, j \in 1..n : i < j <=> cols[i] < cols[j]
           /\ Height(ws) \in Nat /\ Breadth(ws) \in Nat /\ n \in Nat
  <1>1. UsedRows(ws) \in SUBSET Nat /\ IsFiniteSet(UsedRows(ws)) /\ IsFiniteSet(UsedColumns(ws))
    BY UsedAreFinite
  <1>2. Height(ws) \in Nat /\ Breadth(ws) \in Nat /\ n \in Nat
    BY <1>1, FS_CardinalityType DEF Height, Breadth, Cut
  <1>3. PlacesIn(table) = (1..Height(ws)) \X (1..n)
    BY GridSize DEF PlacesIn, Cut
  <1>4. \A p \in PlacesIn(table) :
          Shown(table, p) = <<Nth(UsedRows(ws), p[1]), Nth(UsedColumns(ws), cols[p[2]])>>
    BY <1>3 DEF Shown, Cut
  <1>5. /\ \A i \in 1..n : PlaceIn(cols, cols[i]) = i
        /\ \A i, j \in 1..n : i < j <=> cols[i] < cols[j]
    BY <1>2, PlaceOfColumn DEF Cut
  <1> QED BY <1>2, <1>3, <1>4, <1>5

\* Rows and columns keep their order.
LEMMA CutKeepsOrder ==
    ASSUME NEW ws, IsWorksheet(ws), NEW table, NEW cols, NEW n, Cut(table, ws, cols, n),
           NEW p \in PlacesIn(table), NEW q \in PlacesIn(table)
    PROVE  /\ p[1] < q[1] => Shown(table, p)[1] < Shown(table, q)[1]
           /\ p[2] < q[2] => Shown(table, p)[2] < Shown(table, q)[2]
  <1>1. /\ p[1] \in 1..Height(ws) /\ q[1] \in 1..Height(ws) /\ p[2] \in 1..n /\ q[2] \in 1..n
        /\ Shown(table, p) = <<Nth(UsedRows(ws), p[1]), Nth(UsedColumns(ws), cols[p[2]])>>
        /\ Shown(table, q) = <<Nth(UsedRows(ws), q[1]), Nth(UsedColumns(ws), cols[q[2]])>>
    BY CutFacts
  <1>2. cols[p[2]] \in 1..Breadth(ws) /\ cols[q[2]] \in 1..Breadth(ws)
    BY <1>1 DEF Cut
  <1>3. UsedRows(ws) \in SUBSET Nat /\ IsFiniteSet(UsedRows(ws)) /\ UsedColumns(ws) \in SUBSET Nat /\ IsFiniteSet(UsedColumns(ws))
    BY UsedAreFinite
  <1>4. p[1] < q[1] => Nth(UsedRows(ws), p[1]) < Nth(UsedRows(ws), q[1])
    BY <1>1, <1>3, NthOfRank DEF Height
  <1>5. p[2] < q[2] => cols[p[2]] < cols[q[2]]
    BY <1>1 DEF Cut
  <1>6. cols[p[2]] < cols[q[2]] => Nth(UsedColumns(ws), cols[p[2]]) < Nth(UsedColumns(ws), cols[q[2]])
    BY <1>2, <1>3, NthOfRank DEF Breadth
  <1> QED BY <1>1, <1>4, <1>5, <1>6

\* A table shows what is in its columns.
ShowsCell(table, cell) == \E p \in PlacesIn(table) : Shown(table, p) = cell

LEMMA CutShows ==
    ASSUME NEW ws, IsWorksheet(ws), NEW table, NEW cols, NEW n, Cut(table, ws, cols, n),
           NEW y \in UsedRows(ws), NEW z \in UsedColumns(ws)
    PROVE  ShowsCell(table, <<y, z>>) <=> InColumns(ws, cols, n, ColumnRank(ws, z))
  <1>1. PICK R, C : R = UsedRows(ws) /\ C = UsedColumns(ws)
    OBVIOUS
  <1>2. R \in SUBSET Nat /\ IsFiniteSet(R) /\ C \in SUBSET Nat /\ IsFiniteSet(C)
    BY <1>1, UsedAreFinite
  <1>3. Rank(R, y) \in 1..Height(ws) /\ Nth(R, Rank(R, y)) = y /\ Nth(C, Rank(C, z)) = z
    BY <1>1, <1>2, NthOfRank DEF Height
  <1>4. ASSUME NEW i \in 1..n, cols[i] = Rank(C, z)
        PROVE  ShowsCell(table, <<y, z>>)
    <2>1. <<Rank(R, y), i>> \in PlacesIn(table)
      BY <1>3, CutFacts
    <2>2. Shown(table, <<Rank(R, y), i>>) = <<y, z>>
      BY <1>1, <1>3, <1>4, <2>1, CutFacts
    <2> QED BY <2>1, <2>2 DEF ShowsCell
  <1>5. ASSUME NEW p \in PlacesIn(table), Shown(table, p) = <<y, z>>
        PROVE  p[2] \in 1..n /\ cols[p[2]] = Rank(C, z)
    <2>1. p[2] \in 1..n /\ Nth(C, cols[p[2]]) = z
      BY <1>1, <1>5, CutFacts
    <2>2. cols[p[2]] \in 1..Cardinality(C)
      BY <1>1, <2>1 DEF Cut, Breadth
    <2> QED BY <1>2, <2>1, <2>2, NthOfRank
  <1> QED BY <1>1, <1>4, <1>5 DEF ShowsCell, InColumns, ColumnRank
\* Where the merged range m of a worksheet is in a table of it.
Placed(ws, cols, m) ==
    <<Rank(UsedRows(ws), m[1]), PlaceIn(cols, ColumnRank(ws, m[2])),
      Rank(UsedRows(ws), m[3]), PlaceIn(cols, ColumnRank(ws, m[4]))>>

LEMMA MergeFacts ==
    ASSUME NEW ws, IsWorksheet(ws), NEW m \in ws.merges
    PROVE  /\ m[1] \in Nat /\ m[2] \in Nat /\ m[3] \in Nat /\ m[4] \in Nat /\ m[1] <= m[3] /\ m[2] <= m[4]
           /\ m[1]..m[3] \subseteq UsedRows(ws) /\ m[2]..m[4] \subseteq UsedColumns(ws)
  BY DEF IsWorksheet, UsedRows, UsedColumns

LEMMA KeptIsShown ==
    ASSUME NEW ws, IsWorksheet(ws), NEW table, NEW cols, NEW n, Cut(table, ws, cols, n), NEW m \in ws.merges
    PROVE  m \in KeptIn(ws, cols, n) <=> \A cell \in Block(m) : ShowsCell(table, cell)
  <1>1. PICK R, C : R = UsedRows(ws) /\ C = UsedColumns(ws)
    OBVIOUS
  <1>2. R \in SUBSET Nat /\ IsFiniteSet(R) /\ C \in SUBSET Nat /\ IsFiniteSet(C)
    BY <1>1, UsedAreFinite
  <1>3. /\ m[1] \in Nat /\ m[2] \in Nat /\ m[3] \in Nat /\ m[4] \in Nat /\ m[1] <= m[3] /\ m[2] <= m[4]
        /\ m[1]..m[3] \subseteq R /\ m[2]..m[4] \subseteq C
    BY <1>1, MergeFacts
  <1>4. /\ \A c \in 1..Cardinality(C) : c \in Rank(C, m[2])..Rank(C, m[4]) <=> Nth(C, c) \in m[2]..m[4]
        /\ Rank(C, m[2])..Rank(C, m[4]) \subseteq 1..Cardinality(C)
        /\ \A y \in m[2]..m[4] : Rank(C, y) \in Rank(C, m[2])..Rank(C, m[4]) /\ Nth(C, Rank(C, y)) = y
    <2>1. RangeMaps(C, m[2], m[4])
      BY <1>2, <1>3, RanksOfRange
    <2> QED BY <2>1 DEF RangeMaps
  <1>5. \A y \in m[1]..m[3] : \A z \in m[2]..m[4] :
          ShowsCell(table, <<y, z>>) <=> InColumns(ws, cols, n, Rank(C, z))
    BY <1>1, <1>3, CutShows DEF ColumnRank
  <1>6. m[1] \in m[1]..m[3]
    BY <1>3
  <1>7. ASSUME m \in KeptIn(ws, cols, n), NEW cell \in Block(m)
        PROVE  ShowsCell(table, cell)
    <2>1. PICK y \in m[1]..m[3], z \in m[2]..m[4] : cell = <<y, z>>
      BY <1>7 DEF Block
    <2>2. InColumns(ws, cols, n, Rank(C, z))
      BY <1>1, <1>4, <1>7 DEF KeptIn, ColumnRank
    <2> QED BY <1>5, <2>1, <2>2
  <1>8. ASSUME \A cell \in Block(m) : ShowsCell(table, cell), NEW c \in Rank(C, m[2])..Rank(C, m[4])
        PROVE  InColumns(ws, cols, n, c)
    <2>1. c \in 1..Cardinality(C) /\ Nth(C, c) \in m[2]..m[4]
      BY <1>4
    <2>2. Rank(C, Nth(C, c)) = c
      BY <1>2, <2>1, NthOfRank
    <2>3. <<m[1], Nth(C, c)>> \in Block(m)
      BY <1>6, <2>1 DEF Block
    <2> QED BY <1>5, <1>6, <1>8, <2>1, <2>2, <2>3
  <1> QED BY <1>1, <1>7, <1>8 DEF KeptIn, ColumnRank

LEMMA PlacedShows ==
    ASSUME NEW ws, IsWorksheet(ws), NEW table, NEW cols, NEW n, Cut(table, ws, cols, n), NEW m \in KeptIn(ws, cols, n)
    PROVE  {Shown(table, p) : p \in Block(Placed(ws, cols, m))} = Block(m)
  <1>1. PICK R, C : R = UsedRows(ws) /\ C = UsedColumns(ws)
    OBVIOUS
  <1>2. R \in SUBSET Nat /\ IsFiniteSet(R) /\ C \in SUBSET Nat /\ IsFiniteSet(C)
    BY <1>1, UsedAreFinite
  <1>3. /\ m[1] \in Nat /\ m[2] \in Nat /\ m[3] \in Nat /\ m[4] \in Nat /\ m[1] <= m[3] /\ m[2] <= m[4]
        /\ m[1]..m[3] \subseteq R /\ m[2]..m[4] \subseteq C
    BY <1>1, MergeFacts DEF KeptIn
  <1>4. PICK a, b, i, j : /\ a = Rank(R, m[1]) /\ b = Rank(R, m[3])
                          /\ i = PlaceIn(cols, Rank(C, m[2])) /\ j = PlaceIn(cols, Rank(C, m[4]))
    OBVIOUS
  <1>5. Block(Placed(ws, cols, m)) = (a..b) \X (i..j)
    BY <1>1, <1>4 DEF Block, Placed, ColumnRank
  <1>6. /\ \A r \in 1..Height(ws) : r \in a..b <=> Nth(R, r) \in m[1]..m[3]
        /\ a..b \subseteq 1..Height(ws)
        /\ \A y \in m[1]..m[3] : Rank(R, y) \in a..b /\ Nth(R, Rank(R, y)) = y
    <2>1. RangeMaps(R, m[1], m[3])
      BY <1>2, <1>3, RanksOfRange
    <2> QED BY <1>1, <1>4, <2>1 DEF RangeMaps, Height
  <1>7. /\ \A c \in 1..Breadth(ws) : c \in Rank(C, m[2])..Rank(C, m[4]) <=> Nth(C, c) \in m[2]..m[4]
        /\ Rank(C, m[2])..Rank(C, m[4]) \subseteq 1..Breadth(ws)
        /\ \A y \in m[2]..m[4] : Rank(C, y) \in Rank(C, m[2])..Rank(C, m[4]) /\ Nth(C, Rank(C, y)) = y
    <2>1. RangeMaps(C, m[2], m[4])
      BY <1>2, <1>3, RanksOfRange
    <2> QED BY <1>1, <2>1 DEF RangeMaps, Breadth
  <1>8. \A c \in Rank(C, m[2])..Rank(C, m[4]) : \E k \in 1..n : cols[k] = c
    BY <1>1 DEF KeptIn, InColumns, ColumnRank
  <1>9. m[2] \in m[2]..m[4] /\ m[4] \in m[2]..m[4]
    BY <1>3
  <1>10. /\ PlacesIn(table) = (1..Height(ws)) \X (1..n)
         /\ \A p \in PlacesIn(table) : Shown(table, p) = <<Nth(R, p[1]), Nth(C, cols[p[2]])>>
         /\ \A k \in 1..n : PlaceIn(cols, cols[k]) = k
         /\ \A k, l \in 1..n : k < l <=> cols[k] < cols[l]
         /\ Height(ws) \in Nat /\ Breadth(ws) \in Nat /\ n \in Nat
         /\ \A k \in 1..n : cols[k] \in 1..Breadth(ws)
    <2>1. \A k \in 1..n : cols[k] \in 1..Breadth(ws)
      BY DEF Cut
    <2> QED BY <1>1, <2>1, CutFacts
  <1>11. i \in 1..n /\ cols[i] = Rank(C, m[2]) /\ j \in 1..n /\ cols[j] = Rank(C, m[4])
    BY <1>4, <1>7, <1>8, <1>9, <1>10
  <1>12. \A k \in 1..n : k \in i..j <=> cols[k] \in Rank(C, m[2])..Rank(C, m[4])
    BY <1>10, <1>11
  <1>13. ASSUME NEW p \in (a..b) \X (i..j) PROVE Shown(table, p) \in Block(m)
    <2>1. p[1] \in 1..Height(ws) /\ p[2] \in 1..n /\ p = <<p[1], p[2]>>
      BY <1>6, <1>10, <1>11
    <2>2. Nth(R, p[1]) \in m[1]..m[3] /\ Nth(C, cols[p[2]]) \in m[2]..m[4]
      BY <1>6, <1>7, <1>10, <1>12, <2>1
    <2>3. Shown(table, p) = <<Nth(R, p[1]), Nth(C, cols[p[2]])>>
      BY <1>10, <2>1
    <2> QED BY <2>2, <2>3 DEF Block
  <1>14. ASSUME NEW cell \in Block(m) PROVE \E p \in (a..b) \X (i..j) : Shown(table, p) = cell
    <2>1. PICK y \in m[1]..m[3], z \in m[2]..m[4] : cell = <<y, z>>
      BY DEF Block
    <2>2. PICK k \in 1..n : cols[k] = Rank(C, z)
      BY <1>7, <1>8
    <2>3. k \in i..j /\ Rank(R, y) \in a..b
      BY <1>6, <1>7, <1>12, <2>2
    <2>4. <<Rank(R, y), k>> \in PlacesIn(table)
      BY <1>6, <1>10, <2>3
    <2>5. Shown(table, <<Rank(R, y), k>>) = cell
      BY <1>6, <1>7, <1>10, <2>1, <2>2, <2>4
    <2> QED BY <2>3, <2>5
  <1> QED BY <1>5, <1>13, <1>14

\* A table merges the merged ranges of the worksheet it shows the whole of.
MergesWhole(ws, table) ==
    {{Shown(table, p) : p \in Block(m)} : m \in table.merges}
    = {Block(m) : m \in {x \in ws.merges : Block(x) \subseteq {Shown(table, p) : p \in PlacesIn(table)}}}

LEMMA CutMerges ==
    ASSUME NEW ws, IsWorksheet(ws), NEW table, NEW cols, NEW n, Cut(table, ws, cols, n)
    PROVE  MergesWhole(ws, table)
  <1>1. \A m \in ws.merges : m \in KeptIn(ws, cols, n) <=> Block(m) \subseteq {Shown(table, p) : p \in PlacesIn(table)}
    BY KeptIsShown DEF ShowsCell
  <1>2. KeptIn(ws, cols, n) = {x \in ws.merges : Block(x) \subseteq {Shown(table, p) : p \in PlacesIn(table)}}
    BY <1>1 DEF KeptIn
  <1>3. table.merges = {Placed(ws, cols, m) : m \in KeptIn(ws, cols, n)}
    BY DEF Cut, Placed
  <1>4. \A m \in KeptIn(ws, cols, n) : {Shown(table, p) : p \in Block(Placed(ws, cols, m))} = Block(m)
    BY PlacedShows
  <1>5. {{Shown(table, p) : p \in Block(m)} : m \in table.merges}
        = {{Shown(table, p) : p \in Block(Placed(ws, cols, m))} : m \in KeptIn(ws, cols, n)}
    BY <1>3
  <1>6. {{Shown(table, p) : p \in Block(Placed(ws, cols, m))} : m \in KeptIn(ws, cols, n)} = {Block(m) : m \in KeptIn(ws, cols, n)}
    BY <1>4
  <1> QED BY <1>2, <1>5, <1>6 DEF MergesWhole

\* A picture of the worksheet is in a table where its cell is, and in no other.
PicturesPlaced(ws, table) ==
    /\ table.pictures \subseteq PlacesIn(table)
    /\ {Shown(table, p) : p \in table.pictures} = {Shown(table, p) : p \in PlacesIn(table)} \cap Pictured(ws)

LEMMA CutPictures ==
    ASSUME NEW ws, IsWorksheet(ws), NEW table, NEW cols, NEW n, Cut(table, ws, cols, n)
    PROVE  PicturesPlaced(ws, table)
  <1> DEFINE place(a) == <<Rank(UsedRows(ws), a[1]), PlaceIn(cols, ColumnRank(ws, a[2]))>>
             held == {x \in Pictured(ws) : InColumns(ws, cols, n, ColumnRank(ws, x[2]))}
  <1>1. table.pictures = {place(a) : a \in held}
    BY DEF Cut
  <1>2. \A a \in Pictured(ws) : a = <<a[1], a[2]>> /\ a[1] \in UsedRows(ws) /\ a[2] \in UsedColumns(ws)
    <2> SUFFICES ASSUME NEW a \in Pictured(ws)
                 PROVE  a = <<a[1], a[2]>> /\ a[1] \in UsedRows(ws) /\ a[2] \in UsedColumns(ws)
      OBVIOUS
    <2>1. a \in Nat \X Nat /\ a \in ws.anchors
      BY DEF IsWorksheet, Pictured
    <2> QED BY <2>1 DEF UsedRows, UsedColumns
  <1>3. ASSUME NEW a \in held PROVE place(a) \in PlacesIn(table) /\ Shown(table, place(a)) = a
    <2>1. a = <<a[1], a[2]>> /\ a[1] \in UsedRows(ws) /\ a[2] \in UsedColumns(ws)
      BY <1>2
    <2>2. PICK k \in 1..n : cols[k] = Rank(UsedColumns(ws), a[2])
      BY DEF InColumns, ColumnRank
    <2>3. PlaceIn(cols, ColumnRank(ws, a[2])) = k
      BY <2>2, CutFacts DEF ColumnRank
    <2>4. /\ Rank(UsedRows(ws), a[1]) \in 1..Height(ws) /\ Nth(UsedRows(ws), Rank(UsedRows(ws), a[1])) = a[1]
          /\ Nth(UsedColumns(ws), Rank(UsedColumns(ws), a[2])) = a[2]
      BY <2>1, UsedAreFinite, NthOfRank DEF Height
    <2>5. place(a) \in PlacesIn(table)
      BY <2>3, <2>4, CutFacts
    <2>6. Shown(table, place(a)) = <<Nth(UsedRows(ws), place(a)[1]), Nth(UsedColumns(ws), cols[place(a)[2]])>>
      BY <2>5, CutFacts
    <2> QED BY <2>1, <2>2, <2>3, <2>4, <2>5, <2>6
  <1>4. \A a \in Pictured(ws) : a \in held <=> \E p \in PlacesIn(table) : Shown(table, p) = a
    <2> SUFFICES ASSUME NEW a \in Pictured(ws)
                 PROVE  a \in held <=> \E p \in PlacesIn(table) : Shown(table, p) = a
      OBVIOUS
    <2>1. ShowsCell(table, <<a[1], a[2]>>) <=> InColumns(ws, cols, n, ColumnRank(ws, a[2]))
      BY <1>2, CutShows
    <2> QED BY <1>2, <2>1 DEF ShowsCell
  <1> HIDE DEF place, held
  <1>5. table.pictures \subseteq PlacesIn(table)
    BY <1>1, <1>3
  <1>6. {Shown(table, p) : p \in table.pictures} = held
    BY <1>1, <1>3
  <1>7. held = {Shown(table, p) : p \in PlacesIn(table)} \cap Pictured(ws)
    BY <1>4 DEF held
  <1> QED BY <1>5, <1>6, <1>7 DEF PicturesPlaced
-----------------------------------------------------------------------------
(* The tables of a sheet are cuts of it                                        *)

LEMMA NarrowCut ==
    ASSUME NEW ws, IsWorksheet(ws), UsedRows(ws) # {}, NEW cols, cols = [c \in 1..Breadth(ws) |-> c]
    PROVE  Cut(Compacted(ws), ws, cols, Breadth(ws))
  <1>1. PICK R, C, w : R = UsedRows(ws) /\ C = UsedColumns(ws) /\ w = Breadth(ws)
    OBVIOUS
  <1>2. R \in SUBSET Nat /\ IsFiniteSet(R) /\ C \in SUBSET Nat /\ IsFiniteSet(C)
    BY <1>1, UsedAreFinite
  <1>3. /\ IsGrid(Compacted(ws).grid, Height(ws), w)
        /\ \A r \in 1..Height(ws) : \A c \in 1..w : Compacted(ws).grid[r][c] = <<Nth(R, r), Nth(C, c)>>
    BY <1>1, CompactedGrid DEF Height, Breadth
  <1>4. w \in Nat \ {0}
    BY <1>3 DEF IsGrid
  <1>5. DOMAIN cols = 1..w /\ \A c \in 1..w : cols[c] = c
    BY <1>1
  <1>6. \A c \in 1..w : PlaceIn(cols, c) = c
    BY <1>5 DEF PlaceIn
  <1>7. \A c \in 1..w : InColumns(ws, cols, w, c)
    BY <1>5 DEF InColumns
  <1>8. \A m \in ws.merges : /\ Rank(C, m[2]) \in 1..w /\ Rank(C, m[4]) \in 1..w
                             /\ Rank(C, m[2])..Rank(C, m[4]) \subseteq 1..w
    <2> TAKE m \in ws.merges
    <2>1. m[2] \in m[2]..m[4] /\ m[4] \in m[2]..m[4] /\ m[2]..m[4] \subseteq C
      BY <1>1, MergeFacts
    <2>2. Rank(C, m[2]) \in 1..w /\ Rank(C, m[4]) \in 1..w
      BY <1>1, <1>2, <2>1, NthOfRank DEF Breadth
    <2> QED BY <1>4, <2>2
  <1>9. \A a \in Pictured(ws) : Rank(C, a[2]) \in 1..w
    <2> TAKE a \in Pictured(ws)
    <2>1. a[2] \in C
      BY <1>1 DEF UsedColumns, Pictured
    <2> QED BY <1>1, <1>2, <2>1, NthOfRank DEF Breadth
  <1>10. KeptIn(ws, cols, w) = ws.merges
    BY <1>1, <1>7, <1>8 DEF KeptIn, ColumnRank
  <1>11. {x \in Pictured(ws) : InColumns(ws, cols, w, ColumnRank(ws, x[2]))} = Pictured(ws)
    BY <1>1, <1>7, <1>9 DEF ColumnRank
  <1>12. Compacted(ws).merges =
           {<<Rank(R, m[1]), PlaceIn(cols, Rank(C, m[2])), Rank(R, m[3]), PlaceIn(cols, Rank(C, m[4]))>> : m \in ws.merges}
    <2>1. Compacted(ws).merges = {MappedMerge(ws, m) : m \in ws.merges}
      BY DEF Compacted
    <2>2. \A m \in ws.merges : MappedMerge(ws, m) =
            <<Rank(R, m[1]), PlaceIn(cols, Rank(C, m[2])), Rank(R, m[3]), PlaceIn(cols, Rank(C, m[4]))>>
      BY <1>1, <1>6, <1>8 DEF MappedMerge
    <2> QED BY <2>1, <2>2
  <1>13. Compacted(ws).pictures = {<<Rank(R, a[1]), PlaceIn(cols, Rank(C, a[2]))>> : a \in Pictured(ws)}
    <2>1. Compacted(ws).pictures = {MappedAnchor(ws, a) : a \in Pictured(ws)}
      BY DEF Compacted
    <2>2. \A a \in Pictured(ws) : MappedAnchor(ws, a) = <<Rank(R, a[1]), PlaceIn(cols, Rank(C, a[2]))>>
      BY <1>1, <1>6, <1>9 DEF MappedAnchor
    <2> QED BY <2>1, <2>2
  <1>14. \A i, j \in 1..w : i < j => cols[i] < cols[j]
    BY <1>5
  <1>15. Compacted(ws).merges = {Placed(ws, cols, m) : m \in KeptIn(ws, cols, w)}
    BY <1>1, <1>10, <1>12 DEF Placed, ColumnRank
  <1>16. Compacted(ws).pictures =
           {<<Rank(R, a[1]), PlaceIn(cols, ColumnRank(ws, a[2]))>> :
              a \in {x \in Pictured(ws) : InColumns(ws, cols, w, ColumnRank(ws, x[2]))}}
    BY <1>1, <1>11, <1>13 DEF ColumnRank
  <1>17. \A i \in 1..w : cols[i] \in 1..w
    BY <1>5
  <1>18. \A r \in 1..Height(ws) : \A i \in 1..w :
           Compacted(ws).grid[r][i] = <<Nth(R, r), Nth(C, cols[i])>>
    BY <1>3, <1>5
  <1>19. Cut(Compacted(ws), ws, cols, w)
    BY <1>1, <1>3, <1>4, <1>5, <1>14, <1>15, <1>16, <1>17, <1>18 DEF Cut, Placed
  <1> QED BY <1>1, <1>19

LEMMA BandCut ==
    ASSUME NEW ws, IsWorksheet(ws), UsedRows(ws) # {},
           NEW cols \in Seq(Nat), NEW n \in Nat \ {0}, DOMAIN cols = 1..n,
           \A i \in 1..n : cols[i] \in 1..Breadth(ws), \A i, j \in 1..n : i < j => cols[i] < cols[j]
    PROVE  Cut(Band(Compacted(ws), cols), ws, cols, n)
  <1>1. PICK R, C, w : R = UsedRows(ws) /\ C = UsedColumns(ws) /\ w = Breadth(ws)
    OBVIOUS
  <1>2. /\ IsGrid(Compacted(ws).grid, Height(ws), w)
        /\ \A r \in 1..Height(ws) : \A c \in 1..w : Compacted(ws).grid[r][c] = <<Nth(R, r), Nth(C, c)>>
    BY <1>1, CompactedGrid DEF Height, Breadth
  <1>3. PICK sheet, table : sheet = Compacted(ws) /\ table = Band(sheet, cols)
    OBVIOUS
  <1>4. /\ IsGrid(table.grid, Height(ws), n)
        /\ \A r \in 1..Height(ws) : \A i \in 1..n : table.grid[r][i] = sheet.grid[r][cols[i]]
    <2>1. IsGrid(sheet.grid, Height(ws), w) /\ \A i \in 1..n : cols[i] \in 1..w
      BY <1>1, <1>2, <1>3
    <2>2. /\ IsGrid(Band(sheet, cols).grid, Height(ws), n)
          /\ \A r \in 1..Height(ws) : \A i \in 1..n : Band(sheet, cols).grid[r][i] = sheet.grid[r][cols[i]]
      <3>1. PICK h, g : h = Height(ws) /\ g = sheet.grid
        OBVIOUS
      <3>2. IsGrid(g, h, w)
        BY <2>1, <3>1
      <3>3. IsGrid(sheet.grid, h, w)
        BY <3>1, <3>2
      <3>4. DOMAIN cols = 1..n /\ \A i \in 1..n : cols[i] \in 1..w
        BY <2>1
      <3>5. IsGrid(Band(sheet, cols).grid, h, n)
        BY <3>3, <3>4, GridOfColumns
      <3>6. HasColumns(Band(sheet, cols), sheet, cols, h, n)
        BY <3>3, <3>4, GridOfColumns
      <3> QED BY <3>1, <3>5, <3>6 DEF HasColumns
    <2> QED BY <1>3, <2>2
  <1>5. \A r \in 1..Height(ws) : \A i \in 1..n : table.grid[r][i] = <<Nth(R, r), Nth(C, cols[i])>>
    BY <1>1, <1>2, <1>3, <1>4
  <1>6. \A c : c \in Range(cols) <=> InColumns(ws, cols, n, c)
    BY DEF InColumns, Range
  <1> DEFINE merge(m) == <<m[1], PlaceIn(cols, m[2]), m[3], PlaceIn(cols, m[4])>>
             picture(p) == <<p[1], PlaceIn(cols, p[2])>>
             held == {x \in Pictured(ws) : InColumns(ws, cols, n, ColumnRank(ws, x[2]))}
  <1>7. \A m : /\ MappedMerge(ws, m)[2] = ColumnRank(ws, m[2]) /\ MappedMerge(ws, m)[4] = ColumnRank(ws, m[4])
               /\ merge(MappedMerge(ws, m)) = Placed(ws, cols, m)
    BY DEF MappedMerge, ColumnRank, Placed
  <1>8. \A p : /\ MappedAnchor(ws, p)[2] = ColumnRank(ws, p[2])
               /\ picture(MappedAnchor(ws, p)) = <<Rank(R, p[1]), PlaceIn(cols, ColumnRank(ws, p[2]))>>
    BY <1>1 DEF MappedAnchor, ColumnRank
  <1>9. table.merges = {merge(m) : m \in KeptMerges(sheet, cols)}
    BY <1>3 DEF Band
  <1>10. KeptMerges(sheet, cols) = {MappedMerge(ws, m) : m \in KeptIn(ws, cols, n)}
    <2>1. sheet.merges = {MappedMerge(ws, m) : m \in ws.merges}
      BY <1>3 DEF Compacted
    <2>2. \A m \in ws.merges : m \in KeptIn(ws, cols, n) <=>
            MappedMerge(ws, m)[2]..MappedMerge(ws, m)[4] \subseteq Range(cols)
      BY <1>6, <1>7 DEF KeptIn
    <2>3. KeptIn(ws, cols, n) \subseteq ws.merges
      BY DEF KeptIn
    <2> QED BY <2>1, <2>2, <2>3 DEF KeptMerges
  <1>11. table.pictures = {picture(p) : p \in {x \in sheet.pictures : x[2] \in Range(cols)}}
    BY <1>3 DEF Band
  <1>12. {x \in sheet.pictures : x[2] \in Range(cols)} = {MappedAnchor(ws, p) : p \in held}
    <2>1. sheet.pictures = {MappedAnchor(ws, p) : p \in Pictured(ws)}
      BY <1>3 DEF Compacted
    <2>2. \A p \in Pictured(ws) : p \in held <=> MappedAnchor(ws, p)[2] \in Range(cols)
      BY <1>6, <1>8
    <2> QED BY <2>1, <2>2
  <1> HIDE DEF merge, picture, held
  <1>13. table.merges = {Placed(ws, cols, m) : m \in KeptIn(ws, cols, n)}
    <2>1. {merge(m) : m \in {MappedMerge(ws, x) : x \in KeptIn(ws, cols, n)}}
          = {merge(MappedMerge(ws, m)) : m \in KeptIn(ws, cols, n)}
      OBVIOUS
    <2> QED BY <1>7, <1>9, <1>10, <2>1
  <1>14. table.pictures = {<<Rank(R, p[1]), PlaceIn(cols, ColumnRank(ws, p[2]))>> : p \in held}
    <2>1. {picture(p) : p \in {MappedAnchor(ws, x) : x \in held}} = {picture(MappedAnchor(ws, p)) : p \in held}
      OBVIOUS
    <2>2. table.pictures = {picture(MappedAnchor(ws, p)) : p \in held}
      BY <1>11, <1>12, <2>1
    <2>3. \A p \in held : picture(MappedAnchor(ws, p)) = <<Rank(R, p[1]), PlaceIn(cols, ColumnRank(ws, p[2]))>>
      BY <1>8
    <2> QED BY <2>2, <2>3
  <1> QED BY <1>1, <1>3, <1>4, <1>5, <1>13, <1>14 DEF Cut, Placed, held

\* The first column is in every band, each of the others is in one.
LEMMA BandsMeetOnce ==
    ASSUME NEW n \in Nat, NEW k \in Nat, NEW c \in Nat,
           Before(n) + 2 <= c, c <= Before(n) + BandWidth, Before(k) + 2 <= c, c <= Before(k) + BandWidth
    PROVE  n = k
  <1>1. PICK b \in Nat \ {0} : b = BandWidth - 1
    BY BandsAssumption
  <1>2. Before(n) = (n - 1) * b /\ Before(k) = (k - 1) * b
    BY <1>1 DEF Before
  <1>3. \A x, y \in Nat : x < y => (x - 1) * b + b <= (y - 1) * b
    <2> SUFFICES ASSUME NEW x \in Nat, NEW y \in Nat, x < y PROVE (x - 1) * b + b <= (y - 1) * b
      OBVIOUS
    <2>1. PICK d \in Nat : y = x + 1 + d
      <3>1. y - x - 1 \in Nat /\ y = x + 1 + (y - x - 1)
        OBVIOUS
      <3> QED BY <3>1
    <2>2. (y - 1) * b = (x - 1) * b + b + d * b
      BY <2>1
    <2>3. d * b \in Nat
      OBVIOUS
    <2>4. (x - 1) * b \in Int /\ (y - 1) * b \in Int
      OBVIOUS
    <2> QED BY <2>2, <2>3, <2>4
  <1>4. BandWidth = b + 1 /\ Before(n) \in Int /\ Before(k) \in Int
    BY <1>1, <1>2, BandsAssumption
  <1>5. ~(n < k)
    <2> SUFFICES ASSUME n < k PROVE FALSE
      OBVIOUS
    <2>1. Before(n) + b <= Before(k)
      BY <1>2, <1>3
    <2> QED BY <1>4, <2>1
  <1>6. ~(k < n)
    <2> SUFFICES ASSUME k < n PROVE FALSE
      OBVIOUS
    <2>1. Before(k) + b <= Before(n)
      BY <1>2, <1>3
    <2> QED BY <1>4, <2>1
  <1> QED BY <1>5, <1>6
InBand(n, c) == c = 1 \/ (Before(n) + 2 <= c /\ c <= Before(n) + BandWidth)

LEMMA WideCut ==
    ASSUME NEW ws, IsWorksheet(ws), UsedRows(ws) # {}, BandWidth < Breadth(ws), NEW n \in DOMAIN Bands(Compacted(ws))
    PROVE  \E k : /\ Cut(Band(Compacted(ws), Bands(Compacted(ws))[n]), ws, Bands(Compacted(ws))[n], k)
                  /\ \A c \in 1..Breadth(ws) : InColumns(ws, Bands(Compacted(ws))[n], k, c) <=> InBand(n, c)
  <1>1. PICK sheet, w, cols : sheet = Compacted(ws) /\ w = Breadth(ws) /\ cols = Bands(sheet)[n]
    OBVIOUS
  <1>2. IsGrid(sheet.grid, Height(ws), w)
    BY <1>1, CompactedGrid DEF Height, Breadth
  <1>3. Columns(sheet) = w /\ w \in Nat /\ BandWidth < w
    BY <1>1, <1>2, TableSizeOfGrid DEF IsGrid
  <1>4. PICK m \in 1..BandWidth - 1 :
          /\ Before(n) \in Nat /\ Before(n) + m + 1 <= w
          /\ m = BandWidth - 1 \/ Before(n) + m + 1 = w
          /\ DOMAIN cols = 1..m + 1
          /\ cols[1] = 1
          /\ \A i \in 2..m + 1 : cols[i] = Before(n) + i
    <2>1. Columns(sheet) \in Nat /\ BandWidth < Columns(sheet) /\ n \in DOMAIN Bands(sheet)
      BY <1>1, <1>3
    <2>2. \E m \in 1..BandWidth - 1 :
            /\ Before(n) \in Nat /\ Before(n) + m + 1 <= Columns(sheet)
            /\ m = BandWidth - 1 \/ Before(n) + m + 1 = Columns(sheet)
            /\ DOMAIN Bands(sheet)[n] = 1..m + 1
            /\ Bands(sheet)[n][1] = 1
            /\ \A i \in 2..m + 1 : Bands(sheet)[n][i] = Before(n) + i
      BY <2>1, BandColumns
    <2> QED BY <1>1, <1>3, <2>2
  <1>5. cols \in Seq(Nat)
    BY <1>1, <1>3, BandColumns
  <1>6. PICK k \in Nat \ {0} : k = m + 1 /\ m \in Nat
    BY BandsAssumption
  <1>7. DOMAIN cols = 1..k /\ \A i \in 2..k : cols[i] = Before(n) + i
    BY <1>4, <1>6
  <1>8. \A i \in 1..k : i = 1 \/ i \in 2..k
    BY <1>6
  <1>9. k <= BandWidth /\ Before(n) + k <= w /\ (k = BandWidth \/ Before(n) + k = w)
    BY <1>4, <1>6, BandsAssumption
  <1>10. \A i \in 1..k : cols[i] \in 1..w
    <2> TAKE i \in 1..k
    <2> QED BY <1>3, <1>4, <1>6, <1>7, <1>8, <1>9
  <1>11. \A i, j \in 1..k : i < j => cols[i] < cols[j]
    <2> SUFFICES ASSUME NEW i \in 1..k, NEW j \in 1..k, i < j PROVE cols[i] < cols[j]
      OBVIOUS
    <2>1. j \in 2..k /\ cols[j] = Before(n) + j
      BY <1>6, <1>7, <1>8
    <2> QED BY <1>4, <1>7, <1>8, <2>1
  <1>12. Cut(Band(sheet, cols), ws, cols, k)
    BY <1>1, <1>5, <1>7, <1>10, <1>11, BandCut
  <1>13. ASSUME NEW c \in 1..w PROVE InColumns(ws, cols, k, c) <=> InBand(n, c)
    <2>1. ASSUME NEW i \in 1..k, cols[i] = c PROVE InBand(n, c)
      BY <1>3, <1>4, <1>7, <1>8, <1>9, <2>1, BandsAssumption DEF InBand
    <2>2. CASE c = 1
      <3>1. 1 \in 1..k
        BY <1>6
      <3> QED BY <1>4, <2>2, <3>1 DEF InColumns, InBand
    <2>3. ASSUME Before(n) + 2 <= c, c <= Before(n) + BandWidth
          PROVE  InColumns(ws, cols, k, c)
      <3>1. PICK i \in Nat : i = c - Before(n)
        BY <1>3, <1>4, <2>3
      <3>2. i \in 2..k /\ c = Before(n) + i
        BY <1>3, <1>4, <1>9, <2>3, <3>1, BandsAssumption
      <3>3. i \in 1..k /\ cols[i] = c
        BY <1>7, <3>2
      <3> QED BY <3>3 DEF InColumns
    <2> QED BY <2>1, <2>2, <2>3 DEF InColumns, InBand
  <1> QED BY <1>1, <1>12, <1>13

\* The first used column is the first of the dense grid.
LEMMA FirstColumn ==
    ASSUME NEW U \in SUBSET Nat, IsFiniteSet(U), NEW z \in U
    PROVE  z = Min(U) <=> Rank(U, z) = 1
  <1>1. 1 \in 1..Cardinality(U) /\ Rank(U, z) \in 1..Cardinality(U) /\ Cardinality(U) \in Nat
    BY NthOfRank, FS_CardinalityType
  <1>2. PICK f \in U : Rank(U, f) = 1
    BY <1>1, NthOfRank
  <1>3. \A y \in U : y >= f
    <2> TAKE y \in U
    <2>1. Rank(U, y) \in 1..Cardinality(U)
      BY NthOfRank
    <2>2. ~(y < f)
      BY <1>1, <1>2, <2>1, NthOfRank
    <2> QED BY <2>2
  <1>4. Min(U) \in U /\ \A y \in U : Min(U) <= y
    BY <1>2, <1>3 DEF Min
  <1>5. Min(U) = f
    <2>1. Min(U) \in Nat /\ f \in Nat /\ Min(U) >= f /\ Min(U) <= f
      BY <1>3, <1>4
    <2> QED BY <2>1
  <1>6. Rank(U, z) = 1 => z = f
    BY <1>1, <1>2, NthOfRank
  <1> QED BY <1>2, <1>5, <1>6

-----------------------------------------------------------------------------
(* The tables of a sheet make it                                               *)

\* Every cell of a worksheet is in one of some tables, those of the first column in all.
CellsOnce(ws, T) ==
    \A cell \in ws.cells :
        LET in == {t \in T : \E p \in PlacesIn(t) : Shown(t, p) = cell}
        IN  IF cell[2] = Min(UsedColumns(ws)) THEN in = T ELSE Cardinality(in) = 1

OrderKept(t) ==
    \A p, q \in PlacesIn(t) :
        (p[1] < q[1] => Shown(t, p)[1] < Shown(t, q)[1]) /\ (p[2] < q[2] => Shown(t, p)[2] < Shown(t, q)[2])

MadeOf(ws, T) ==
    /\ CellsOnce(ws, T)
    /\ \A t \in T : OrderKept(t) /\ MergesWhole(ws, t) /\ PicturesPlaced(ws, t)

LEMMA CellsAreUsed ==
    ASSUME NEW ws, IsWorksheet(ws), NEW cell \in ws.cells
    PROVE  /\ cell = <<cell[1], cell[2]>> /\ cell[1] \in UsedRows(ws) /\ cell[2] \in UsedColumns(ws)
           /\ ColumnRank(ws, cell[2]) \in 1..Breadth(ws)
           /\ cell[2] = Min(UsedColumns(ws)) <=> ColumnRank(ws, cell[2]) = 1
  <1>1. cell \in Nat \X Nat
    BY DEF IsWorksheet
  <1>2. cell = <<cell[1], cell[2]>> /\ cell[1] \in UsedRows(ws) /\ cell[2] \in UsedColumns(ws)
    BY <1>1 DEF UsedRows, UsedColumns
  <1>3. UsedColumns(ws) \in SUBSET Nat /\ IsFiniteSet(UsedColumns(ws))
    BY UsedAreFinite
  <1>4. ColumnRank(ws, cell[2]) \in 1..Breadth(ws)
    BY <1>2, <1>3, NthOfRank DEF ColumnRank, Breadth
  <1>5. cell[2] = Min(UsedColumns(ws)) <=> ColumnRank(ws, cell[2]) = 1
    BY <1>2, <1>3, FirstColumn DEF ColumnRank
  <1> QED BY <1>2, <1>4, <1>5

LEMMA CutIsMade ==
    ASSUME NEW ws, IsWorksheet(ws), NEW table, NEW cols, NEW n, Cut(table, ws, cols, n)
    PROVE  /\ OrderKept(table) /\ MergesWhole(ws, table) /\ PicturesPlaced(ws, table)
           /\ \A cell \in ws.cells : ShowsCell(table, cell) <=> InColumns(ws, cols, n, ColumnRank(ws, cell[2]))
  <1>1. OrderKept(table)
    BY CutKeepsOrder DEF OrderKept
  <1>2. ASSUME NEW cell \in ws.cells
        PROVE  ShowsCell(table, cell) <=> InColumns(ws, cols, n, ColumnRank(ws, cell[2]))
    <2>1. cell = <<cell[1], cell[2]>> /\ cell[1] \in UsedRows(ws) /\ cell[2] \in UsedColumns(ws)
      BY CellsAreUsed
    <2>2. ShowsCell(table, <<cell[1], cell[2]>>) <=> InColumns(ws, cols, n, ColumnRank(ws, cell[2]))
      BY <2>1, CutShows
    <2> QED BY <2>1, <2>2
  <1> QED BY <1>1, <1>2, CutMerges, CutPictures

LEMMA NarrowIsMade ==
    ASSUME NEW ws, IsWorksheet(ws), UsedRows(ws) # {}, Breadth(ws) <= BandWidth
    PROVE  MadeOf(ws, Range(SheetTables(Compacted(ws))))
  <1>1. PICK sheet, cols : sheet = Compacted(ws) /\ cols = [c \in 1..Breadth(ws) |-> c]
    OBVIOUS
  <1>2. IsGrid(sheet.grid, Height(ws), Breadth(ws))
    BY <1>1, CompactedGrid DEF Height, Breadth
  <1>3. Columns(sheet) = Breadth(ws)
    BY <1>2, TableSizeOfGrid
  <1>4. Range(SheetTables(sheet)) = {sheet}
    <2>1. SheetTables(sheet) = <<sheet>>
      BY <1>3 DEF SheetTables
    <2> QED BY <2>1 DEF Range
  <1>5. Cut(sheet, ws, cols, Breadth(ws))
    BY <1>1, NarrowCut
  <1>6. ASSUME NEW cell \in ws.cells PROVE ShowsCell(sheet, cell)
    <2>1. ColumnRank(ws, cell[2]) \in 1..Breadth(ws)
      BY CellsAreUsed
    <2>2. InColumns(ws, cols, Breadth(ws), ColumnRank(ws, cell[2]))
      BY <1>1, <2>1 DEF InColumns
    <2> QED BY <1>5, <2>2, CutIsMade
  <1>7. CellsOnce(ws, {sheet})
    <2>1. \A cell \in ws.cells : {t \in {sheet} : \E p \in PlacesIn(t) : Shown(t, p) = cell} = {sheet}
      BY <1>6 DEF ShowsCell
    <2>2. Cardinality({sheet}) = 1
      BY FS_Singleton
    <2> QED BY <2>1, <2>2 DEF CellsOnce
  <1>8. OrderKept(sheet) /\ MergesWhole(ws, sheet) /\ PicturesPlaced(ws, sheet)
    BY <1>5, CutIsMade
  <1> QED BY <1>1, <1>4, <1>7, <1>8 DEF MadeOf

LEMMA WideIsMade ==
    ASSUME NEW ws, IsWorksheet(ws), UsedRows(ws) # {}, BandWidth < Breadth(ws)
    PROVE  MadeOf(ws, Range(SheetTables(Compacted(ws))))
  <1>1. PICK sheet, bands : sheet = Compacted(ws) /\ bands = Bands(sheet)
    OBVIOUS
  <1>2. IsGrid(sheet.grid, Height(ws), Breadth(ws))
    BY <1>1, CompactedGrid DEF Height, Breadth
  <1>3. Columns(sheet) = Breadth(ws) /\ Breadth(ws) \in Nat
    BY <1>2, TableSizeOfGrid DEF IsGrid
  <1>4. PICK size \in Nat : DOMAIN bands = 1..size
    BY <1>1, <1>3, BandColumns
  <1>5. PICK T : T = {Band(sheet, bands[n]) : n \in DOMAIN bands}
    OBVIOUS
  <1>6. Range(SheetTables(sheet)) = T
    <2>1. SheetTables(sheet) = [n \in DOMAIN bands |-> Band(sheet, bands[n])]
      BY <1>1, <1>3, BandsAssumption DEF SheetTables
    <2> QED BY <1>5, <2>1 DEF Range
  <1>7. ASSUME NEW n \in DOMAIN bands
        PROVE  /\ \A cell \in ws.cells : ShowsCell(Band(sheet, bands[n]), cell) <=> InBand(n, ColumnRank(ws, cell[2]))
               /\ OrderKept(Band(sheet, bands[n])) /\ MergesWhole(ws, Band(sheet, bands[n]))
               /\ PicturesPlaced(ws, Band(sheet, bands[n]))
    <2>1. PICK k : /\ Cut(Band(sheet, bands[n]), ws, bands[n], k)
                   /\ \A c \in 1..Breadth(ws) : InColumns(ws, bands[n], k, c) <=> InBand(n, c)
      BY <1>1, WideCut
    <2>2. \A cell \in ws.cells : ColumnRank(ws, cell[2]) \in 1..Breadth(ws)
      BY CellsAreUsed
    <2> QED BY <2>1, <2>2, CutIsMade
  <1>8. ASSUME NEW cell \in ws.cells, NEW in, in = {t \in T : \E p \in PlacesIn(t) : Shown(t, p) = cell}
        PROVE  IF cell[2] = Min(UsedColumns(ws)) THEN in = T ELSE Cardinality(in) = 1
    <2>1. PICK c \in 1..Breadth(ws) : c = ColumnRank(ws, cell[2]) /\ (cell[2] = Min(UsedColumns(ws)) <=> c = 1)
      BY CellsAreUsed
    <2>2. in = {t \in T : ShowsCell(t, cell)}
      BY <1>8 DEF ShowsCell
    <2>3. \A n \in DOMAIN bands : ShowsCell(Band(sheet, bands[n]), cell) <=> InBand(n, c)
      BY <1>7, <2>1
    <2>4. CASE c = 1
      BY <1>5, <2>1, <2>2, <2>3, <2>4 DEF InBand
    <2>5. CASE c # 1
      <3>1. c \in 2..Columns(sheet) /\ c \in Nat
        BY <1>3, <2>5
      <3>2. PICK n \in DOMAIN bands : Before(n) + 2 <= c /\ c <= Before(n) + BandWidth
        BY <1>1, <1>3, <3>1, BandColumns
      <3>3. \A k \in DOMAIN bands : InBand(k, c) <=> k = n
        BY <1>4, <2>5, <3>1, <3>2, BandsMeetOnce DEF InBand
      <3>4. in = {Band(sheet, bands[n])}
        BY <1>5, <2>2, <2>3, <3>3
      <3> QED BY <2>1, <2>5, <3>4, FS_Singleton
    <2> QED BY <2>4, <2>5
  <1>9. CellsOnce(ws, T)
    BY <1>8 DEF CellsOnce
  <1>10. \A t \in T : OrderKept(t) /\ MergesWhole(ws, t) /\ PicturesPlaced(ws, t)
    BY <1>5, <1>7
  <1> QED BY <1>1, <1>6, <1>9, <1>10 DEF MadeOf

\* A worksheet with nothing but floating pictures: a table of one cell.
LEMMA EmptyIsMade ==
    ASSUME NEW ws, IsWorksheet(ws), UsedRows(ws) = {}
    PROVE  MadeOf(ws, Range(SheetTables(Compacted(ws))))
  <1>1. PICK sheet : sheet = Compacted(ws)
    OBVIOUS
  <1>2. ws.cells = {} /\ ws.anchors = {} /\ ws.merges = {}
    BY MergeFacts, UsedAreFinite DEF UsedRows
  <1>3. sheet.grid = <<<<NoCell>>>> /\ sheet.merges = {} /\ sheet.pictures = {}
    BY <1>1, <1>2, FS_EmptySet DEF Compacted, Pictured
  <1>4. IsGrid(sheet.grid, 1, 1)
    BY <1>3, OneCellIsSized
  <1>5. Columns(sheet) = 1 /\ PlacesIn(sheet) = {1} \X {1}
    <2>1. DOMAIN sheet.grid = 1..1 /\ DOMAIN sheet.grid[1] = 1..1
      BY <1>4, GridSize
    <2> QED BY <1>4, <2>1, TableSizeOfGrid DEF PlacesIn
  <1>6. Range(SheetTables(sheet)) = {sheet}
    <2>1. SheetTables(sheet) = <<sheet>>
      BY <1>5, BandsAssumption DEF SheetTables
    <2> QED BY <2>1 DEF Range
  <1>7. CellsOnce(ws, {sheet})
    BY <1>2 DEF CellsOnce
  <1>8. OrderKept(sheet)
    <2>1. \A p \in PlacesIn(sheet) : p[1] = 1 /\ p[2] = 1
      BY <1>5
    <2> QED BY <2>1 DEF OrderKept
  <1>9. MergesWhole(ws, sheet) /\ PicturesPlaced(ws, sheet)
    BY <1>2, <1>3 DEF MergesWhole, PicturesPlaced, Pictured
  <1> QED BY <1>1, <1>6, <1>7, <1>8, <1>9 DEF MadeOf

LEMMA SheetIsMade ==
    ASSUME NEW ws, IsWorksheet(ws)
    PROVE  MadeOf(ws, Range(SheetTables(Compacted(ws))))
  <1>1. UsedColumns(ws) \in SUBSET Nat /\ IsFiniteSet(UsedColumns(ws)) /\ BandWidth \in Nat
    BY UsedAreFinite, BandsAssumption
  <1>2. Breadth(ws) \in Nat
    BY <1>1, FS_CardinalityType DEF Breadth
  <1>3. Breadth(ws) <= BandWidth \/ BandWidth < Breadth(ws)
    BY <1>1, <1>2
  <1> QED BY <1>3, NarrowIsMade, WideIsMade, EmptyIsMade

\* The tables of the document with the number of a worksheet's sheet are the tables
\* of that worksheet.
LEMMA TablesOfSource ==
    ASSUME SheetInv, phase = "done", book # <<>>, NEW i \in Sources
    PROVE  IsWorksheet(book[i]) /\ TablesFrom(i) = Range(SheetTables(Compacted(book[i])))
  <1>1. SheetTypes /\ ParsedOf(Sources) /\ SheetsAreWritten
    BY DEF SheetInv, BookIsParsed
  <1>2. Sources \in SUBSET Nat /\ IsFiniteSet(Sources) /\ IsWorksheet(book[i])
    BY <1>1, SourceFacts DEF Sources
  <1>3. Rank(Sources, i) \in 1..Cardinality(Sources)
    BY <1>2, NthOfRank
  <1>4. Len(parsed) = Cardinality(Sources) /\ parsed[Rank(Sources, i)] = Compacted(book[i])
    BY <1>1 DEF ParsedOf
  <1>5. Cardinality(Sources) \in Nat /\ at = Len(parsed) + 1
    BY <1>1, <1>2, FS_CardinalityType DEF SheetsAreWritten
  <1>6. Rank(Sources, i) \in 1..at - 1
    BY <1>3, <1>4, <1>5
  <1>7. TablesOf(Rank(Sources, i)) = Range(SheetTables(parsed[Rank(Sources, i)]))
    BY <1>1, <1>6 DEF SheetsAreWritten
  <1> QED BY <1>2, <1>4, <1>7 DEF TablesFrom

\* When the document is saved, every cell of a worksheet is in one of its tables (those
\* of its first column in all of them) and rows and columns kept their order: cutting
\* a sheet of any width into bands of any width loses and doubles nothing.
THEOREM SheetsAreWhole == SheetSpec => []TablesMakeTheSheet
  <1>1. SheetInv => TablesMakeTheSheet
    <2> SUFFICES ASSUME SheetInv, phase = "done", book # <<>>, NEW i \in Sources
                 PROVE  CellsOnce(book[i], TablesFrom(i)) /\ \A t \in TablesFrom(i) : OrderKept(t)
      BY DEF TablesMakeTheSheet, CellsOnce, OrderKept
    <2> QED BY TablesOfSource, SheetIsMade DEF MadeOf
  <1> QED BY <1>1, SheetInvHolds, PTL

\* A merged range and a picture stay with the cells they were on: dropping what is
\* empty and cutting into bands moves neither off the rows and columns it belongs to.
THEOREM SheetAnchorsStay == SheetSpec => []AnchorsKeepPlace
  <1>1. SheetInv => AnchorsKeepPlace
    <2> SUFFICES ASSUME SheetInv, phase = "done", book # <<>>, NEW i \in Sources, NEW t \in TablesFrom(i)
                 PROVE  MergesWhole(book[i], t) /\ PicturesPlaced(book[i], t)
      BY DEF AnchorsKeepPlace, MergesStayWhole, PicturesKeepPlace, MergesWhole, PicturesPlaced
    <2> QED BY TablesOfSource, SheetIsMade DEF MadeOf
  <1> QED BY <1>1, SheetInvHolds, PTL
-----------------------------------------------------------------------------
(* The pass over an XML part                                                   *)

XmlSpec == XmlInit /\ [][XmlNext]_xmlVars

Tags == Parts \cup UNION {Children(t) : t \in Parts \cup {"tbl", "tr", "tc"}}

XmlTypes ==
    /\ nodes \in Seq([tag : Tags, value : Nat, column : Nat, parent : Nat])
    /\ open \in Seq(Nat)
    /\ count \in [Kinds -> Nat]
    /\ grids \in Seq(Nat) /\ cellsIn \in Seq(Nat)
    /\ late \in Nat

\* The elements make a tree, and those that are open a path from its root.
IsTree ==
    /\ Len(nodes) <= MaxNodes
    /\ \A i \in DOMAIN nodes :
         /\ nodes[i].value \in Values(nodes[i].tag)
         /\ nodes[i].parent < i
         /\ IF nodes[i].parent = 0 THEN nodes[i].tag \in Parts
            ELSE nodes[i].tag \in Children(nodes[nodes[i].parent].tag)

IsPath ==
    \A k \in DOMAIN open :
        /\ open[k] \in DOMAIN nodes
        /\ nodes[open[k]].parent = IF k = 1 THEN 0 ELSE open[k - 1]
        /\ \A j \in 1..k - 1 : open[j] < open[k]
        /\ Depth(open[k]) = k

OneSpan == \A i, j \in Tagged("gridSpan") : nodes[i].parent = nodes[j].parent => i = j

\* A counter has what the starts of all elements and the ends of some have added.
StartSum(k) == SumFunction([i \in DOMAIN nodes |-> AddedAtStart(nodes[i].tag)[k]])
EndSum(k) == SumFunction([i \in Ended(DOMAIN nodes) |-> AddedAtEnd(nodes[i].tag, nodes[i].value)[k]])

Counted == \A k \in Kinds : count[k] = StartSum(k) + EndSum(k)

\* A number for each of some places, in their order.
Stacked(U, s, w) == Len(s) = Cardinality(U) /\ \A k \in U : s[Rank(U, k)] = w[k]

\* For each open table the columns it has declared, and those of its open row.
OpenTables == {k \in DOMAIN open : nodes[open[k]].tag = "tbl"}
GridOf(k) == Cardinality(Under(open[k], "gridCol"))
RowOf(k) ==
    IF k + 1 \in DOMAIN open /\ nodes[open[k + 1]].tag = "tr" THEN RowWidth(open[k + 1]) ELSE NoRow

TablesOpen ==
    /\ Stacked(OpenTables, grids, [k \in OpenTables |-> GridOf(k)])
    /\ Stacked(OpenTables, cellsIn, [k \in OpenTables |-> RowOf(k)])

ClockSeen == late # NotLate => late <= Len(nodes) /\ Len(nodes) - late <= Len(nodes) % CheckEvery

Reading == XmlTypes /\ IsTree /\ IsPath /\ OneSpan /\ Counted /\ TablesOpen /\ ClockSeen

\* Inductive: as long as the scan reads, its counters are those of the tree.
XmlInv == (scan = "reading" => Reading) /\ VerdictMatchesTree

-----------------------------------------------------------------------------
(* The depth of an element                                                     *)

Numbered(ns) == ns \in Seq([tag : Tags, value : Nat, column : Nat, parent : Nat]) /\ \A i \in DOMAIN ns : ns[i].parent < i

IsDepth(f, ns) == f = [n \in 0..Len(ns) |-> IF n = 0 THEN 0 ELSE 1 + f[ns[n].parent]]

DepthIn(ns, i) ==
    LET depth[n \in 0..Len(ns)] == IF n = 0 THEN 0 ELSE 1 + depth[ns[n].parent]
    IN  depth[i]

DepthsTo(n, ns, f) == f \in [0..n -> Nat] /\ f[0] = 0 /\ \A i \in 1..n : f[i] = 1 + f[ns[i].parent]

LEMMA ParentsBefore ==
    ASSUME NEW ns, Numbered(ns)
    PROVE  /\ Len(ns) \in Nat /\ DOMAIN ns = 1..Len(ns)
           /\ \A i \in 1..Len(ns) : ns[i].parent \in Nat /\ ns[i].parent < i
  <1>1. Len(ns) \in Nat /\ DOMAIN ns = 1..Len(ns)
    BY LenProperties DEF Numbered
  <1>2. \A i \in 1..Len(ns) : ns[i] \in [tag : Tags, value : Nat, column : Nat, parent : Nat]
    BY ElementOfSeq DEF Numbered
  <1> QED BY <1>1, <1>2 DEF Numbered

LEMMA DepthExists ==
    ASSUME NEW ns, Numbered(ns)
    PROVE  \E f : DepthsTo(Len(ns), ns, f)
  <1>1. PICK size \in Nat : size = Len(ns)
    BY ParentsBefore
  <1>2. \A i \in 1..size : ns[i].parent \in Nat /\ ns[i].parent < i
    BY <1>1, ParentsBefore
  <1> DEFINE T == {n \in Nat : n <= size => \E f : DepthsTo(n, ns, f)}
  <1>3. 0 \in T
    <2>1. DepthsTo(0, ns, [i \in 0..0 |-> 0])
      BY DEF DepthsTo
    <2> QED BY <2>1
  <1>4. ASSUME NEW n \in Nat, n \in T PROVE n + 1 \in T
    <2> SUFFICES ASSUME n + 1 <= size PROVE \E f : DepthsTo(n + 1, ns, f)
      OBVIOUS
    <2>1. PICK f : DepthsTo(n, ns, f)
      BY <1>4
    <2>2. PICK p : p = ns[n + 1].parent
      OBVIOUS
    <2>3. p \in 0..n
      BY <1>2, <2>2
    <2> DEFINE g == [i \in 0..n + 1 |-> IF i = n + 1 THEN 1 + f[p] ELSE f[i]]
    <2>4. \A i \in 0..n : g[i] = f[i]
      OBVIOUS
    <2>5. g \in [0..n + 1 -> Nat]
      BY <2>1, <2>3 DEF DepthsTo
    <2>6. g[n + 1] = 1 + g[p]
      BY <2>3, <2>4
    <2> HIDE DEF g
    <2>7. \A i \in 1..n + 1 : g[i] = 1 + g[ns[i].parent]
      <3> TAKE i \in 1..n + 1
      <3>1. CASE i = n + 1
        BY <2>2, <2>6, <3>1
      <3>2. CASE i # n + 1
        <4>1. i \in 1..n /\ ns[i].parent \in 0..n
          BY <1>2, <3>2
        <4> QED BY <2>1, <2>4, <4>1 DEF DepthsTo
      <3> QED BY <3>1, <3>2
    <2>8. g[0] = 0
      BY <2>1, <2>4 DEF DepthsTo
    <2> QED BY <2>5, <2>7, <2>8 DEF DepthsTo
  <1>5. Nat \subseteq T
    <2> HIDE DEF T
    <2> QED BY <1>3, <1>4, AllNumbers
  <1> QED BY <1>1, <1>5

LEMMA DepthUnique ==
    ASSUME NEW ns, Numbered(ns), NEW f, DepthsTo(Len(ns), ns, f), NEW g, IsDepth(g, ns)
    PROVE  f = g
  <1>1. PICK size \in Nat : size = Len(ns)
    BY ParentsBefore
  <1>2. \A i \in 1..size : ns[i].parent \in Nat /\ ns[i].parent < i
    BY <1>1, ParentsBefore
  <1>3. /\ g = [n \in 0..size |-> g[n]] /\ g[0] = 0
        /\ \A i \in 1..size : g[i] = 1 + g[ns[i].parent]
    BY <1>1 DEF IsDepth
  <1>4. f = [n \in 0..size |-> f[n]] /\ f[0] = 0 /\ \A i \in 1..size : f[i] = 1 + f[ns[i].parent]
    BY <1>1 DEF DepthsTo
  <1> DEFINE T == {n \in Nat : \A i \in 0..size : i <= n => f[i] = g[i]}
  <1>5. 0 \in T
    BY <1>3, <1>4
  <1>6. ASSUME NEW n \in Nat, n \in T PROVE n + 1 \in T
    <2> SUFFICES ASSUME NEW i \in 0..size, i = n + 1 PROVE f[i] = g[i]
      BY <1>6
    <2>1. ns[i].parent \in 0..size /\ ns[i].parent <= n
      BY <1>2
    <2>2. f[ns[i].parent] = g[ns[i].parent]
      BY <1>6, <2>1
    <2>3. i \in 1..size
      OBVIOUS
    <2>4. f[i] = 1 + f[ns[i].parent] /\ g[i] = 1 + g[ns[i].parent]
      BY <1>3, <1>4, <2>3
    <2> QED BY <2>2, <2>4
  <1>7. size \in T
    <2> HIDE DEF T
    <2> QED BY <1>5, <1>6, AllNumbers
  <1> QED BY <1>3, <1>4, <1>7

LEMMA DepthIsIts ==
    ASSUME NEW ns, Numbered(ns), NEW f, DepthsTo(Len(ns), ns, f), NEW i
    PROVE  DepthIn(ns, i) = f[i]
  <1>1. PICK size \in Nat : size = Len(ns)
    BY ParentsBefore
  <1>2. IsDepth(f, ns)
    <2>1. f = [n \in 0..size |-> f[n]]
      BY <1>1 DEF DepthsTo
    <2>2. \A n \in 0..size : f[n] = IF n = 0 THEN 0 ELSE 1 + f[ns[n].parent]
      BY <1>1 DEF DepthsTo
    <2>3. f = [n \in 0..size |-> IF n = 0 THEN 0 ELSE 1 + f[ns[n].parent]]
      BY <2>1, <2>2
    <2> QED BY <1>1, <2>3 DEF IsDepth
  <1>3. (CHOOSE g : IsDepth(g, ns)) = f
    BY <1>2, DepthUnique
  <1> QED BY <1>3 DEF DepthIn, IsDepth

\* One more element does not move the others.
LEMMA DepthsStay ==
    ASSUME NEW ns, NEW ms, Numbered(ns), Numbered(ms), Len(ns) <= Len(ms), \A i \in 1..Len(ns) : ms[i] = ns[i]
    PROVE  /\ \A i \in 0..Len(ns) : DepthIn(ms, i) = DepthIn(ns, i) /\ DepthIn(ns, i) \in Nat
           /\ DepthIn(ns, 0) = 0
           /\ \A i \in 1..Len(ms) : DepthIn(ms, i) = 1 + DepthIn(ms, ms[i].parent)
  <1>1. PICK size, larger \in Nat : size = Len(ns) /\ larger = Len(ms) /\ size \in Nat /\ size <= larger
    BY ParentsBefore
  <1>2. PICK f : DepthsTo(larger, ms, f)
    BY <1>1, DepthExists
  <1>3. PICK g : g = [n \in 0..size |-> f[n]]
    OBVIOUS
  <1>4. \A i \in 1..size : ns[i].parent \in 0..size
    <2>1. \A i \in 1..size : ns[i].parent \in Nat /\ ns[i].parent < i
      BY <1>1, ParentsBefore
    <2> QED BY <1>1, <2>1
  <1>5. 0..size \subseteq 0..larger /\ 1..size \subseteq 1..larger
    BY <1>1
  <1>6. f \in [0..larger -> Nat] /\ f[0] = 0 /\ \A i \in 1..larger : f[i] = 1 + f[ms[i].parent]
    BY <1>2 DEF DepthsTo
  <1>7. g \in [0..size -> Nat] /\ g[0] = 0
    BY <1>1, <1>3, <1>5, <1>6
  <1>8. \A i \in 1..size : g[i] = 1 + g[ns[i].parent]
    <2> TAKE i \in 1..size
    <2>1. i \in 0..size /\ i \in 1..larger /\ ms[i] = ns[i]
      BY <1>1, <1>5
    <2>2. g[i] = f[i] /\ g[ns[i].parent] = f[ns[i].parent]
      BY <1>3, <1>4, <2>1
    <2> QED BY <1>6, <2>1, <2>2
  <1>9. DepthsTo(size, ns, g)
    BY <1>7, <1>8 DEF DepthsTo
  <1>10. \A i : DepthIn(ms, i) = f[i] /\ DepthIn(ns, i) = g[i]
    BY <1>1, <1>2, <1>9, DepthIsIts
  <1>11. \A i \in 0..size : g[i] = f[i] /\ g[i] \in Nat
    BY <1>3, <1>7
  <1> QED BY <1>1, <1>6, <1>7, <1>10, <1>11
-----------------------------------------------------------------------------
(* A number for each open table                                                *)

Extended(t, s, e) == Len(t) = Len(s) + 1 /\ t[Len(s) + 1] = e /\ \A i \in 1..Len(s) : t[i] = s[i]

LEMMA AppendExtends ==
    ASSUME NEW s, IsSeq(s), NEW e
    PROVE  Extended(Append(s, e), s, e)
  BY Appended DEF Extended

OneMore(V, U, last) ==
    /\ IsFiniteSet(V) /\ V \in SUBSET Nat /\ Cardinality(V) = Cardinality(U) + 1
    /\ \A k \in U : Rank(V, k) = Rank(U, k) /\ Rank(U, k) \in 1..Cardinality(U)
    /\ Rank(V, last) = Cardinality(U) + 1

LEMMA NewLast ==
    ASSUME NEW size \in Nat, NEW U \in SUBSET Nat, IsFiniteSet(U), \A k \in U : k <= size, NEW V, V = U \cup {size + 1}
    PROVE  Cardinality(U) \in Nat /\ OneMore(V, U, size + 1)
  <1>3. Cardinality(U) \in Nat
    BY FS_CardinalityType
  <1>4. size + 1 \notin U
    OBVIOUS
  <1>5. IsFiniteSet(V) /\ Cardinality(V) = Cardinality(U) + 1
    BY <1>4, FS_AddElement
  <1>6. \A k \in U : {y \in V : y <= k} = {y \in U : y <= k}
    OBVIOUS
  <1>7. {y \in V : y <= size + 1} = V
    <2>1. \A y \in V : y <= size + 1
      OBVIOUS
    <2> QED BY <2>1
  <1>8. \A k \in U : Rank(U, k) \in 1..Cardinality(U)
    BY NthOfRank
  <1>9. V \in SUBSET Nat
    OBVIOUS
  <1> QED BY <1>3, <1>5, <1>6, <1>7, <1>8, <1>9 DEF Rank, OneMore

LEMMA LargestIsLast ==
    ASSUME NEW U \in SUBSET Nat, IsFiniteSet(U), NEW k \in U, \A j \in U : j <= k
    PROVE  /\ Rank(U, k) = Cardinality(U) /\ Cardinality(U) \in Nat \ {0}
           /\ \A j \in U : Rank(U, j) \in 1..Cardinality(U) /\ (j # k => Rank(U, j) # Cardinality(U))
  <1>1. {y \in U : y <= k} = U
    OBVIOUS
  <1>2. Rank(U, k) = Cardinality(U)
    BY <1>1 DEF Rank
  <1>3. \A j \in U : Rank(U, j) \in 1..Cardinality(U)
    BY NthOfRank
  <1>4. \A j \in U : j # k => Rank(U, j) # Cardinality(U)
    <2> SUFFICES ASSUME NEW j \in U, j # k PROVE Rank(U, j) # Cardinality(U)
      OBVIOUS
    <2>1. j < k
      OBVIOUS
    <2>2. Rank(U, j) < Rank(U, k)
      BY <2>1, NthOfRank
    <2>3. Rank(U, j) \in Nat /\ Rank(U, k) \in Nat
      BY <1>3
    <2> QED BY <1>2, <2>2, <2>3
  <1> QED BY <1>2, <1>3, <1>4, FS_CardinalityType

LEMMA PushStack ==
    ASSUME NEW size \in Nat, NEW U \in SUBSET Nat, IsFiniteSet(U), \A k \in U : k <= size,
           NEW s \in Seq(Nat), NEW v \in Nat, NEW w, Stacked(U, s, w),
           NEW V, V = U \cup {size + 1}, NEW x, x[size + 1] = v, \A k \in U : x[k] = w[k]
    PROVE  Stacked(V, Append(s, v), x)
  <1>1. PICK n \in Nat : n = Len(s) /\ n = Cardinality(U)
    BY LenProperties DEF Stacked
  <1>2. /\ Len(Append(s, v)) = n + 1 /\ Append(s, v)[n + 1] = v
        /\ \A i \in 1..n : Append(s, v)[i] = s[i]
    <2>1. IsSeq(s)
      BY DEF IsSeq
    <2>2. Extended(Append(s, v), s, v)
      BY <2>1, AppendExtends
    <2> QED BY <1>1, <2>2 DEF Extended
  <1>3. /\ Cardinality(V) = n + 1 /\ Rank(V, size + 1) = n + 1
        /\ \A k \in U : Rank(V, k) = Rank(U, k) /\ Rank(U, k) \in 1..n
    <2>1. OneMore(V, U, size + 1)
      BY NewLast
    <2> QED BY <1>1, <2>1 DEF OneMore
  <1>4. ASSUME NEW k \in U PROVE Append(s, v)[Rank(V, k)] = x[k]
    <2>1. s[Rank(U, k)] = w[k]
      BY DEF Stacked
    <2> QED BY <1>2, <1>3, <2>1
  <1>5. Append(s, v)[Rank(V, size + 1)] = x[size + 1]
    BY <1>2, <1>3
  <1> QED BY <1>2, <1>3, <1>4, <1>5 DEF Stacked

LEMMA PopStack ==
    ASSUME NEW size \in Nat \ {0}, NEW U \in SUBSET Nat, IsFiniteSet(U), \A k \in U : k <= size, size \in U, NEW s \in Seq(Nat), NEW w, Stacked(U, s, w),
           NEW V, V = U \ {size}, NEW x, \A k \in V : x[k] = w[k]
    PROVE  s # <<>> /\ Front(s) \in Seq(Nat) /\ Stacked(V, Front(s), x)
  <1>1. PICK less \in Nat : size = less + 1
    <2>1. size - 1 \in Nat /\ size = (size - 1) + 1
      OBVIOUS
    <2> QED BY <2>1
  <1>2. V \in SUBSET Nat /\ IsFiniteSet(V) /\ (\A k \in V : k <= less) /\ U = V \cup {less + 1}
    <2>1. IsFiniteSet(V)
      BY FS_Subset
    <2> QED BY <1>1, <2>1
  <1>3. PICK n \in Nat : n = Cardinality(V)
    BY <1>2, NewLast
  <1>4. Cardinality(U) = n + 1 /\ \A k \in V : Rank(U, k) = Rank(V, k) /\ Rank(V, k) \in 1..n
    <2>1. OneMore(U, V, less + 1)
      BY <1>2, NewLast
    <2> QED BY <1>3, <2>1 DEF OneMore
  <1>5. Len(s) = n + 1 /\ s # <<>>
    <2>1. Len(s) = n + 1
      BY <1>4 DEF Stacked
    <2> QED BY <2>1
  <1>6. PICK t : t = Front(s)
    OBVIOUS
  <1>7. t \in Seq(Nat) /\ Len(t) = n /\ \A i \in 1..n : t[i] = s[i]
    <2>1. \A i \in 1..n + 1 : s[i] \in Nat
      BY <1>5, ElementOfSeq
    <2>2. t = SubSeq(s, 1, n)
      BY <1>5, <1>6 DEF Front
    <2>3. t = [i \in 1..n |-> s[i]]
      BY <1>5, <2>2
    <2>4. t \in [1..n -> Nat]
      BY <2>1, <2>3
    <2> QED BY <2>3, <2>4, FunctionIsSeq
  <1>8. ASSUME NEW k \in V PROVE t[Rank(V, k)] = x[k]
    <2>1. s[Rank(U, k)] = w[k]
      BY <1>2 DEF Stacked
    <2> QED BY <1>4, <1>7, <2>1
  <1> QED BY <1>3, <1>5, <1>6, <1>7, <1>8 DEF Stacked

LEMMA SetStack ==
    ASSUME NEW U \in SUBSET Nat, IsFiniteSet(U), NEW k \in U, \A j \in U : j <= k,
           NEW s \in Seq(Nat), NEW w, Stacked(U, s, w), NEW v \in Nat, NEW x, x[k] = v, \A j \in U \ {k} : x[j] = w[j]
    PROVE  /\ s # <<>> /\ Last(s) = w[k]
           /\ SetLast(s, v) \in Seq(Nat) /\ SetLast(s, v) # <<>> /\ Last(SetLast(s, v)) = v
           /\ Stacked(U, SetLast(s, v), x)
  <1>1. PICK n \in Nat \ {0} : n = Cardinality(U) /\ n = Rank(U, k)
    BY LargestIsLast
  <1>2. Len(s) = n /\ DOMAIN s = 1..n /\ \A i \in 1..n : s[i] \in Nat
    BY <1>1, LenProperties, ElementOfSeq DEF Stacked
  <1>3. s # <<>> /\ Last(s) = w[k]
    BY <1>1, <1>2 DEF Last, Stacked
  <1>4. PICK t : t = SetLast(s, v)
    OBVIOUS
  <1>5. t = [i \in 1..n |-> IF i = n THEN v ELSE s[i]]
    BY <1>2, <1>4 DEF SetLast
  <1>6. t \in Seq(Nat) /\ Len(t) = n /\ t[n] = v /\ t # <<>> /\ \A i \in 1..n : i # n => t[i] = s[i]
    BY <1>2, <1>5
  <1>7. Last(t) = v
    BY <1>6 DEF Last
  <1>8. ASSUME NEW j \in U, j # k PROVE t[Rank(U, j)] = x[j]
    <2>1. Rank(U, j) \in 1..n /\ Rank(U, j) # n
      BY <1>1, <1>8, LargestIsLast
    <2>2. s[Rank(U, j)] = w[j]
      BY DEF Stacked
    <2> QED BY <1>6, <1>8, <2>1, <2>2
  <1>9. t[Rank(U, k)] = x[k]
    BY <1>1, <1>6
  <1>10. Stacked(U, t, x)
    BY <1>1, <1>6, <1>8, <1>9 DEF Stacked
  <1> QED BY <1>3, <1>4, <1>6, <1>7, <1>10
-----------------------------------------------------------------------------
(* An element starts                                                           *)

Shape ==
    /\ IsSeq(nodes) /\ Len(nodes) \in Nat /\ DOMAIN nodes = 1..Len(nodes)
    /\ \A i \in 1..Len(nodes) : nodes[i].parent \in Nat /\ nodes[i].value \in Nat /\ nodes[i].parent < i
    /\ IsSeq(open) /\ Len(open) \in Nat /\ DOMAIN open = 1..Len(open)
    /\ \A k \in 1..Len(open) : open[k] \in 1..Len(nodes)
    /\ \A j, k \in 1..Len(open) : j < k => open[j] < open[k]

LEMMA ShapeHolds ==
    ASSUME XmlTypes, IsTree, IsPath
    PROVE  Shape /\ Numbered(nodes)
  <1>1. Len(nodes) \in Nat /\ DOMAIN nodes = 1..Len(nodes) /\ Len(open) \in Nat /\ DOMAIN open = 1..Len(open)
    BY LenProperties DEF XmlTypes
  <1>2. \A i \in 1..Len(nodes) : nodes[i] \in [tag : Tags, value : Nat, column : Nat, parent : Nat]
    BY ElementOfSeq DEF XmlTypes
  <1>3. \A i \in 1..Len(nodes) : nodes[i].parent \in Nat /\ nodes[i].value \in Nat /\ nodes[i].parent < i
    BY <1>1, <1>2 DEF IsTree
  <1>4. IsSeq(nodes) /\ IsSeq(open)
    BY DEF XmlTypes, IsSeq
  <1>5. \A k \in 1..Len(open) : open[k] \in 1..Len(nodes)
    BY <1>1 DEF IsPath
  <1>6. \A j, k \in 1..Len(open) : j < k => open[j] < open[k]
    <2> SUFFICES ASSUME NEW j \in 1..Len(open), NEW k \in 1..Len(open), j < k PROVE open[j] < open[k]
      OBVIOUS
    <2>1. j \in 1..k - 1
      BY <1>1
    <2> QED BY <1>1, <2>1 DEF IsPath
  <1>7. Numbered(nodes)
    BY <1>1, <1>3 DEF Numbered, XmlTypes
  <1> QED BY <1>1, <1>3, <1>4, <1>5, <1>6, <1>7 DEF Shape

Grows(node) == nodes' = Append(nodes, node) /\ open' = Append(open, Len(nodes) + 1)

\* What was read stays, and a new element is the last one.
Grown(node) ==
    /\ DOMAIN nodes' = 1..Len(nodes) + 1 /\ Len(nodes)' = Len(nodes) + 1 /\ nodes'[Len(nodes) + 1] = node
    /\ \A i \in 1..Len(nodes) : nodes'[i] = nodes[i]
    /\ DOMAIN open' = 1..Len(open) + 1 /\ Len(open)' = Len(open) + 1 /\ open'[Len(open) + 1] = Len(nodes) + 1
    /\ \A k \in 1..Len(open) : open'[k] = open[k]
    /\ Range(open)' = Range(open) \cup {Len(nodes) + 1}
    /\ Range(open) \subseteq 1..Len(nodes)

LEMMA TreeGrows ==
    ASSUME Shape, NEW node, Grows(node)
    PROVE  Grown(node)
  <1>1. Extended(nodes', nodes, node) /\ Extended(open', open, Len(nodes) + 1)
    BY AppendExtends DEF Shape, Grows
  <1>2. DOMAIN nodes' = 1..Len(nodes) + 1 /\ DOMAIN open' = 1..Len(open) + 1
    BY Appended DEF Shape, Grows
  <1>3. PICK n \in Nat, m \in Nat : n = Len(nodes) /\ m = Len(open)
    BY DEF Shape
  <1>4. /\ DOMAIN nodes' = 1..n + 1 /\ Len(nodes)' = n + 1 /\ nodes'[n + 1] = node
        /\ \A i \in 1..n : nodes'[i] = nodes[i]
    BY <1>1, <1>2, <1>3 DEF Extended
  <1>5. /\ DOMAIN open' = 1..m + 1 /\ Len(open)' = m + 1 /\ open'[m + 1] = n + 1
        /\ \A k \in 1..m : open'[k] = open[k]
    BY <1>1, <1>2, <1>3 DEF Extended
  <1>6. DOMAIN open = 1..m /\ \A k \in 1..m : open[k] \in 1..n
    BY <1>3 DEF Shape
  <1>7. Range(open) \subseteq 1..n
    BY <1>6 DEF Range
  <1>8. 1..m + 1 = (1..m) \cup {m + 1}
    OBVIOUS
  <1>9. Range(open)' = Range(open) \cup {n + 1}
    <2>1. {open'[k] : k \in 1..m + 1} = {open'[k] : k \in 1..m} \cup {open'[m + 1]}
      BY <1>8
    <2>2. {open'[k] : k \in 1..m} = {open[k] : k \in 1..m}
      BY <1>5
    <2> QED BY <1>5, <1>6, <2>1, <2>2 DEF Range
  <1> QED BY <1>3, <1>4, <1>5, <1>7, <1>9 DEF Grown

GrownSets(node) ==
    /\ \A t : Tagged(t)' = IF node.tag = t THEN Tagged(t) \cup {Len(nodes) + 1} ELSE Tagged(t)
    /\ \A p, t : Under(p, t)' = IF node.tag = t /\ node.parent = p THEN Under(p, t) \cup {Len(nodes) + 1} ELSE Under(p, t)
    /\ Ended(DOMAIN nodes)' = Ended(DOMAIN nodes)
    /\ \A t : Ended(Tagged(t))' = Ended(Tagged(t))
    /\ \A p, t : Ended(Under(p, t))' = Ended(Under(p, t))

LEMMA SetsGrow ==
    ASSUME Shape, NEW node, Grown(node)
    PROVE  GrownSets(node)
  <1>1. PICK n \in Nat : n = Len(nodes) /\ DOMAIN nodes = 1..n
    BY DEF Shape
  <1>2. /\ DOMAIN nodes' = 1..n + 1 /\ nodes'[n + 1] = node /\ \A i \in 1..n : nodes'[i] = nodes[i]
        /\ Range(open)' = Range(open) \cup {n + 1}
    BY <1>1 DEF Grown
  <1>3. 1..n + 1 = (1..n) \cup {n + 1} /\ n + 1 \notin 1..n
    OBVIOUS
  <1>4. \A t : Tagged(t)' = IF node.tag = t THEN Tagged(t) \cup {n + 1} ELSE Tagged(t)
    <2> TAKE t
    <2>1. Tagged(t)' = {i \in 1..n + 1 : nodes'[i].tag = t}
      BY <1>2 DEF Tagged
    <2>2. Tagged(t) = {i \in 1..n : nodes[i].tag = t}
      BY <1>1 DEF Tagged
    <2> QED BY <1>2, <1>3, <2>1, <2>2
  <1>5. \A p, t : Under(p, t)' = IF node.tag = t /\ node.parent = p THEN Under(p, t) \cup {n + 1} ELSE Under(p, t)
    <2> TAKE p, t
    <2>1. Under(p, t)' = {i \in 1..n + 1 : nodes'[i].tag = t /\ nodes'[i].parent = p}
      BY <1>2 DEF Under, Tagged
    <2>2. Under(p, t) = {i \in 1..n : nodes[i].tag = t /\ nodes[i].parent = p}
      BY <1>1 DEF Under, Tagged
    <2> QED BY <1>2, <1>3, <2>1, <2>2
  <1>6. \A t : Tagged(t) \subseteq 1..n
    BY <1>1 DEF Tagged
  <1>7. \A p, t : Under(p, t) \subseteq 1..n
    BY <1>6 DEF Under
  <1>8. Ended(DOMAIN nodes)' = Ended(DOMAIN nodes)
    BY <1>1, <1>2, <1>3 DEF Ended
  <1>9. \A t : Ended(Tagged(t))' = Ended(Tagged(t))
    <2> TAKE t
    <2>1. Ended(Tagged(t))' = Tagged(t)' \ (Range(open) \cup {n + 1})
      BY <1>2 DEF Ended
    <2> QED BY <1>3, <1>4, <1>6, <2>1 DEF Ended
  <1>10. \A p, t : Ended(Under(p, t))' = Ended(Under(p, t))
    <2> TAKE p, t
    <2>1. Ended(Under(p, t))' = Under(p, t)' \ (Range(open) \cup {n + 1})
      BY <1>2 DEF Ended
    <2> QED BY <1>3, <1>5, <1>7, <2>1 DEF Ended
  <1> QED BY <1>1, <1>4, <1>5, <1>8, <1>9, <1>10 DEF GrownSets

\* Sets of elements, and what they add up to.
LEMMA NodeSets ==
    ASSUME Shape
    PROVE  /\ IsFiniteSet(DOMAIN nodes)
           /\ \A S \in SUBSET DOMAIN nodes : IsFiniteSet(S) /\ IsFiniteSet(Ended(S)) /\ Cardinality(S) \in Nat
           /\ \A t : Tagged(t) \in SUBSET DOMAIN nodes
           /\ \A p, t : Under(p, t) \in SUBSET DOMAIN nodes
           /\ \A S \in SUBSET DOMAIN nodes : TotalValue(S) \in Nat /\ TotalValue(Ended(S)) \in Nat
           /\ \A c : CellWidth(c) \in Nat
           /\ \A r : RowWidth(r) \in Nat
  <1>1. PICK D : D = DOMAIN nodes
    OBVIOUS
  <1>2. IsFiniteSet(D)
    <2>1. PICK n \in Nat : D = 1..n
      BY <1>1 DEF Shape
    <2> QED BY <2>1, FS_Interval
  <1>3. \A i \in D : nodes[i].value \in Nat
    BY <1>1 DEF Shape
  <1>4. \A S \in SUBSET D : IsFiniteSet(S) /\ Cardinality(S) \in Nat
    BY <1>2, FS_Subset, FS_CardinalityType
  <1>5. \A S \in SUBSET D : Ended(S) \in SUBSET D
    BY DEF Ended
  <1>6. \A S \in SUBSET D : TotalValue(S) \in Nat
    <2> TAKE S \in SUBSET D
    <2>1. [i \in S |-> nodes[i].value] \in [S -> Nat]
      BY <1>3
    <2> QED BY <1>4, <2>1, SumFunctionIsNumber DEF TotalValue
  <1>7. \A t : Tagged(t) \in SUBSET D
    BY <1>1 DEF Tagged
  <1>8. \A p, t : Under(p, t) \in SUBSET D
    BY <1>7 DEF Under
  <1>9. \A c : CellWidth(c) \in Nat
    BY <1>5, <1>6, <1>8 DEF CellWidth
  <1>10. \A r : RowWidth(r) \in Nat
    <2> TAKE r
    <2>1. [c \in Under(r, "tc") |-> CellWidth(c)] \in [Under(r, "tc") -> Nat]
      BY <1>9
    <2>2. IsFiniteSet(Under(r, "tc"))
      BY <1>4, <1>8
    <2> QED BY <2>1, <2>2, SumFunctionIsNumber DEF RowWidth
  <1> QED BY <1>1, <1>2, <1>4, <1>5, <1>6, <1>7, <1>8, <1>9, <1>10

\* A new cell takes one column of its row; nothing else changes a row.
LEMMA WidthsGrow ==
    ASSUME Shape, NEW node, Grown(node)
    PROVE  /\ \A c : CellWidth(c)' = CellWidth(c)
           /\ \A r : RowWidth(r)' = IF node.tag = "tc" /\ node.parent = r THEN RowWidth(r) + 1 ELSE RowWidth(r)
           /\ \A S \in SUBSET DOMAIN nodes : TotalValue(S)' = TotalValue(S)
  <1>1. PICK n \in Nat : n = Len(nodes) /\ DOMAIN nodes = 1..n
    BY DEF Shape
  <1>2. \A i \in 1..n : nodes'[i] = nodes[i]
    BY <1>1 DEF Grown
  <1>3. GrownSets(node)
    BY SetsGrow
  <1>4. \A S \in SUBSET (1..n) : TotalValue(S)' = TotalValue(S)
    <2> TAKE S \in SUBSET (1..n)
    <2>1. [i \in S |-> nodes'[i].value] = [i \in S |-> nodes[i].value]
      BY <1>2
    <2> QED BY <2>1 DEF TotalValue
  <1>5. \A c : CellWidth(c)' = CellWidth(c)
    <2> TAKE c
    <2>1. PICK S : S = Ended(Under(c, "gridSpan")) /\ S \in SUBSET (1..n)
      BY <1>1, NodeSets DEF Ended
    <2>2. Ended(Under(c, "gridSpan"))' = S
      BY <1>3, <2>1 DEF GrownSets
    <2>3. CellWidth(c) = IF S = {} THEN 1 ELSE TotalValue(S)
      BY <2>1 DEF CellWidth
    <2>4. CellWidth(c)' = IF S = {} THEN 1 ELSE SumFunction([i \in S |-> nodes'[i].value])
      BY <2>2 DEF CellWidth, TotalValue
    <2>5. [i \in S |-> nodes'[i].value] = [i \in S |-> nodes[i].value]
      BY <1>2, <2>1
    <2> QED BY <2>3, <2>4, <2>5 DEF TotalValue
  <1>6. ASSUME NEW r
        PROVE  RowWidth(r)' = IF node.tag = "tc" /\ node.parent = r THEN RowWidth(r) + 1 ELSE RowWidth(r)
    <2>1. PICK S : S = Under(r, "tc") /\ IsFiniteSet(S) /\ S \in SUBSET (1..n)
      BY <1>1, NodeSets
    <2>2. PICK u : u = [c \in S |-> CellWidth(c)]
      OBVIOUS
    <2>3. u \in [S -> Nat] /\ RowWidth(r) = SumFunction(u)
      BY <2>1, <2>2, NodeSets DEF RowWidth
    <2>4. RowWidth(r)' = SumFunction([c \in Under(r, "tc")' |-> CellWidth(c)])
      BY <1>5 DEF RowWidth
    <2>5. CASE node.tag = "tc" /\ node.parent = r
      <3>1. PICK x : x = n + 1
        OBVIOUS
      <3>2. Under(r, "tc")' = S \cup {x} /\ x \notin S
        BY <1>1, <1>3, <2>1, <2>5, <3>1 DEF GrownSets
      <3>3. CellWidth(x) = 1
        <4>1. Under(x, "gridSpan") = {}
          <5>1. \A i \in 1..n : nodes[i].parent # x
            BY <1>1, <3>1 DEF Shape
          <5> QED BY <1>1, <5>1 DEF Under, Tagged
        <4> QED BY <4>1 DEF CellWidth, Ended
      <3>4. PICK D, w : D = S \cup {x} /\ w = [c \in D |-> CellWidth(c)]
        OBVIOUS
      <3>5. w \in [D -> Nat] /\ (\A y \in S : w[y] = u[y]) /\ w[x] = 1
        BY <2>2, <3>3, <3>4, NodeSets
      <3>6. SumFunction(w) = SumFunction(u) + w[x]
        <4>1. IsFiniteSet(S) /\ x \notin S /\ D = S \cup {x} /\ u \in [S -> Nat] /\ w \in [D -> Nat]
          BY <2>1, <2>3, <3>2, <3>4, <3>5
        <4>2. \A y \in S : w[y] = u[y]
          BY <3>5
        <4> QED BY ONLY <4>1, <4>2, SumOfExtended
      <3> QED BY <2>3, <2>4, <2>5, <3>2, <3>4, <3>5, <3>6
    <2>6. CASE ~(node.tag = "tc" /\ node.parent = r)
      <3>1. Under(r, "tc")' = S
        BY <1>3, <2>1, <2>6 DEF GrownSets
      <3> QED BY <2>1, <2>2, <2>3, <2>4, <2>6, <3>1
    <2> QED BY <2>5, <2>6
  <1> QED BY <1>1, <1>4, <1>5, <1>6
-----------------------------------------------------------------------------
(* An element ends                                                             *)

Shrunk(e) ==
    /\ Len(open) \in Nat \ {0} /\ e = Last(open) /\ e = open[Len(open)] /\ e \in DOMAIN nodes
    /\ nodes' = nodes
    /\ DOMAIN open' = 1..Len(open) - 1 /\ Len(open)' = Len(open) - 1
    /\ \A k \in 1..Len(open) - 1 : open'[k] = open[k]
    /\ e \in Range(open) /\ Range(open)' = Range(open) \ {e}

LEMMA PathShrinks ==
    ASSUME Shape, open # <<>>, open' = Front(open), nodes' = nodes
    PROVE  Shrunk(Last(open))
  <1>1. PICK n \in Nat, m \in Nat : n = Len(nodes) /\ m = Len(open)
    BY DEF Shape
  <1>2. PICK S : open \in Seq(S)
    BY DEF Shape, IsSeq
  <1>3. m # 0 /\ DOMAIN open = 1..m
    BY <1>1, <1>2 DEF Shape
  <1>4. Last(open) = open[m] /\ open[m] \in DOMAIN nodes /\ m \in 1..m
    BY <1>1, <1>3 DEF Last, Shape
  <1>5. open' = [k \in 1..m - 1 |-> open[k]] /\ m - 1 \in Nat
    <2>1. open' = SubSeq(open, 1, m - 1)
      BY <1>1 DEF Front
    <2> QED BY <1>2, <1>3, <2>1
  <1>6. Len(open)' = m - 1
    <2>1. \A k \in 1..m - 1 : open[k] \in S
      BY <1>1, <1>2, <1>3, ElementOfSeq
    <2>2. open' \in [1..m - 1 -> S]
      BY <1>5, <2>1
    <2> QED BY <1>5, <2>2, FunctionIsSeq
  <1>7. \A k \in 1..m - 1 : open[k] # open[m]
    <2> TAKE k \in 1..m - 1
    <2>1. open[k] < open[m] /\ open[m] \in Nat
      BY <1>1, <1>3 DEF Shape
    <2> QED BY <2>1
  <1>8. Range(open)' = Range(open) \ {open[m]} /\ open[m] \in Range(open)
    <2>1. 1..m = (1..m - 1) \cup {m}
      BY <1>3
    <2>2. Range(open)' = {open[k] : k \in 1..m - 1}
      BY <1>5 DEF Range
    <2>3. Range(open) = {open[k] : k \in 1..m}
      BY <1>3 DEF Range
    <2> QED BY <1>7, <2>1, <2>2, <2>3
  <1> QED BY <1>1, <1>3, <1>4, <1>5, <1>6, <1>8 DEF Shrunk

LEMMA EndedGrows ==
    ASSUME NEW e, Shrunk(e)
    PROVE  /\ \A S : /\ Ended(S)' = IF e \in S THEN Ended(S) \cup {e} ELSE Ended(S)
                     /\ e \notin Ended(S)
           /\ \A t : Tagged(t)' = Tagged(t)
           /\ \A p, t : Under(p, t)' = Under(p, t)
           /\ DOMAIN nodes' = DOMAIN nodes
  BY DEF Shrunk, Ended, Tagged, Under

\* A span that ends takes the place of the one column its cell has counted.
SpanEnds(e, c) == nodes[e].tag = "gridSpan" /\ nodes[e].parent = c

LEMMA WidthOfSpanned ==
    ASSUME Shape, OneSpan, NEW e, Shrunk(e), NEW c
    PROVE  /\ CellWidth(c)' = IF SpanEnds(e, c) THEN nodes[e].value ELSE CellWidth(c)
           /\ SpanEnds(e, c) => CellWidth(c) = 1
  <1>1. PICK S : S = Under(c, "gridSpan") /\ S \in SUBSET DOMAIN nodes
    BY NodeSets
  <1>2. /\ Under(c, "gridSpan")' = S
        /\ Ended(S)' = IF e \in S THEN Ended(S) \cup {e} ELSE Ended(S)
    BY <1>1, EndedGrows
  <1>3. e \in S <=> SpanEnds(e, c)
    BY <1>1 DEF Under, Tagged, Shrunk, SpanEnds
  <1>4. PICK U : U = Ended(S)'
    OBVIOUS
  <1>5. CellWidth(c) = IF Ended(S) = {} THEN 1 ELSE TotalValue(Ended(S))
    BY <1>1 DEF CellWidth
  <1>6. CellWidth(c)' = IF U = {} THEN 1 ELSE TotalValue(U)
    <2>1. Ended(Under(c, "gridSpan"))' = U
      BY <1>2, <1>4 DEF Ended
    <2>2. CellWidth(c)' = IF U = {} THEN 1 ELSE SumFunction([i \in U |-> nodes'[i].value])
      BY <2>1 DEF CellWidth, TotalValue
    <2> QED BY <2>2 DEF Shrunk, TotalValue
  <1>7. CASE SpanEnds(e, c)
    <2>1. S = {e}
      BY <1>1, <1>3, <1>7 DEF Under, OneSpan, SpanEnds
    <2>2. Ended(S) = {} /\ U = {e}
      BY <1>2, <1>4, <2>1 DEF Shrunk, Ended
    <2>3. TotalValue({e}) = nodes[e].value
      <3>1. PICK u : u = [i \in {e} |-> nodes[i].value]
        OBVIOUS
      <3>2. nodes[e].value \in Nat
        BY DEF Shape, Shrunk
      <3>3. u \in [{e} -> Nat] /\ u[e] = nodes[e].value
        BY <3>1, <3>2
      <3>4. SumFunction(u) = u[e]
        BY <3>3, SumOfOne
      <3> QED BY <3>1, <3>3, <3>4 DEF TotalValue
    <2> QED BY <1>5, <1>6, <1>7, <2>2, <2>3
  <1>8. CASE ~SpanEnds(e, c)
    <2>1. U = Ended(S)
      BY <1>2, <1>3, <1>4, <1>8
    <2> QED BY <1>5, <1>6, <1>8, <2>1
  <1> QED BY <1>7, <1>8

LEMMA RowOfSpanned ==
    ASSUME Shape, OneSpan, NEW e, Shrunk(e), NEW r
    PROVE  /\ RowWidth(r)' \in Nat
           /\ IF nodes[e].tag = "gridSpan" /\ nodes[e].parent \in Under(r, "tc")
              THEN RowWidth(r)' + 1 = RowWidth(r) + nodes[e].value
              ELSE RowWidth(r)' = RowWidth(r)
  <1>1. PICK S : S = Under(r, "tc") /\ IsFiniteSet(S) /\ S \in SUBSET DOMAIN nodes
    BY NodeSets
  <1>2. Under(r, "tc")' = S
    BY <1>1, EndedGrows
  <1>3. PICK u : u = [c \in S |-> CellWidth(c)]
    OBVIOUS
  <1>4. PICK w : w = [c \in S |-> IF SpanEnds(e, c) THEN nodes[e].value ELSE CellWidth(c)]
    OBVIOUS
  <1>5. nodes[e].value \in Nat
    BY DEF Shape, Shrunk
  <1>6. u \in [S -> Nat] /\ w \in [S -> Nat]
    BY <1>3, <1>4, <1>5, NodeSets
  <1>7. RowWidth(r) = SumFunction(u)
    BY <1>1, <1>3 DEF RowWidth
  <1>8. RowWidth(r)' = SumFunction(w)
    <2>1. \A c : CellWidth(c)' = IF SpanEnds(e, c) THEN nodes[e].value ELSE CellWidth(c)
      BY WidthOfSpanned
    <2>2. RowWidth(r)' = SumFunction([c \in S |-> IF SpanEnds(e, c) THEN nodes[e].value ELSE CellWidth(c)])
      BY <1>2, <2>1 DEF RowWidth
    <2> QED BY <1>4, <2>2
  <1>9. RowWidth(r)' \in Nat
    BY <1>1, <1>6, <1>8, SumFunctionIsNumber
  <1>10. CASE nodes[e].tag = "gridSpan" /\ nodes[e].parent \in S
    <2>1. PICK p \in S : p = nodes[e].parent
      BY <1>10
    <2>2. u[p] = 1 /\ w[p] = nodes[e].value /\ \A c \in S \ {p} : u[c] = w[c]
      BY <1>3, <1>4, <1>10, <2>1, WidthOfSpanned DEF SpanEnds
    <2>3. SumFunction(w) + u[p] = SumFunction(u) + w[p]
      BY <1>1, <1>6, <2>2, SumOfChanged
    <2> QED BY <1>1, <1>7, <1>8, <1>9, <1>10, <2>2, <2>3
  <1>11. CASE ~(nodes[e].tag = "gridSpan" /\ nodes[e].parent \in S)
    <2>1. \A c \in S : ~SpanEnds(e, c)
      BY <1>11 DEF SpanEnds
    <2>2. u = w
      BY <1>3, <1>4, <2>1
    <2> QED BY <1>1, <1>7, <1>8, <1>9, <1>11, <2>2
  <1> QED BY <1>10, <1>11
-----------------------------------------------------------------------------
(* The counters                                                                *)

StartKinds == {"elements", "attributes", "styles", "sharedStrings", "relationships"}
EndKinds == {"text", "tables", "cells", "paragraphs", "sheets", "mergedCells", "materialized", "nonempty"}
One(t, tag) == IF t = tag THEN 1 ELSE 0

LEMMA KindsSplit == Kinds = StartKinds \cup EndKinds /\ StartKinds \cap EndKinds = {}
  BY DEF Kinds, StartKinds, EndKinds

LEMMA StartAdds ==
    /\ \A t : \A k \in EndKinds : AddedAtStart(t)[k] = 0
    /\ \A t : /\ AddedAtStart(t)["elements"] = 1
              /\ AddedAtStart(t)["attributes"] = Attributes(t)
              /\ AddedAtStart(t)["styles"] = One(t, "xf")
              /\ AddedAtStart(t)["sharedStrings"] = One(t, "si")
              /\ AddedAtStart(t)["relationships"] = One(t, "Relationship")
    /\ \A t : \A k \in Kinds : AddedAtStart(t)[k] \in Nat
  <1>1. \A t : \A k \in EndKinds : AddedAtStart(t)[k] = 0
    BY DEF AddedAtStart, Kinds, EndKinds
  <1>2. \A t : /\ AddedAtStart(t)["elements"] = 1
               /\ AddedAtStart(t)["attributes"] = Attributes(t)
               /\ AddedAtStart(t)["styles"] = One(t, "xf")
               /\ AddedAtStart(t)["sharedStrings"] = One(t, "si")
               /\ AddedAtStart(t)["relationships"] = One(t, "Relationship")
    BY DEF AddedAtStart, Kinds, One
  <1>3. \A t : Attributes(t) \in Nat /\ \A tag : One(t, tag) \in Nat
    BY DEF Attributes, One
  <1>4. \A k \in Kinds : k \in EndKinds \/ k \in StartKinds
    BY KindsSplit
  <1> QED BY <1>1, <1>2, <1>3, <1>4 DEF StartKinds

LEMMA EndAdds ==
    /\ \A t, v : \A k \in StartKinds : AddedAtEnd(t, v)[k] = 0
    /\ \A t, v : /\ AddedAtEnd(t, v)["text"] = Text(t)
                 /\ AddedAtEnd(t, v)["tables"] = One(t, "tbl")
                 /\ AddedAtEnd(t, v)["cells"] = One(t, "tc")
                 /\ AddedAtEnd(t, v)["paragraphs"] = One(t, "p")
                 /\ AddedAtEnd(t, v)["sheets"] = One(t, "sheet")
                 /\ AddedAtEnd(t, v)["mergedCells"] = IF t = "mergeCell" THEN v ELSE 0
                 /\ AddedAtEnd(t, v)["materialized"] = One(t, "c")
                 /\ AddedAtEnd(t, v)["nonempty"] = IF t = "c" THEN v ELSE 0
    /\ \A t : \A v \in Nat : \A k \in Kinds : AddedAtEnd(t, v)[k] \in Nat
  <1>1. \A t, v : \A k \in StartKinds : AddedAtEnd(t, v)[k] = 0
    BY DEF AddedAtEnd, Kinds, StartKinds
  <1>2. \A t, v : /\ AddedAtEnd(t, v)["text"] = Text(t)
                  /\ AddedAtEnd(t, v)["tables"] = One(t, "tbl")
                  /\ AddedAtEnd(t, v)["cells"] = One(t, "tc")
                  /\ AddedAtEnd(t, v)["paragraphs"] = One(t, "p")
                  /\ AddedAtEnd(t, v)["sheets"] = One(t, "sheet")
                  /\ AddedAtEnd(t, v)["mergedCells"] = IF t = "mergeCell" THEN v ELSE 0
                  /\ AddedAtEnd(t, v)["materialized"] = One(t, "c")
                  /\ AddedAtEnd(t, v)["nonempty"] = IF t = "c" THEN v ELSE 0
    BY DEF AddedAtEnd, Kinds, One
  <1>3. \A t : Text(t) \in Nat /\ \A tag : One(t, tag) \in Nat
    BY DEF Text, One
  <1>4. \A k \in Kinds : k \in EndKinds \/ k \in StartKinds
    BY KindsSplit
  <1> QED BY <1>1, <1>2, <1>3, <1>4 DEF EndKinds

\* The start of an element adds to the sums what it adds to the counters, ...
LEMMA StartsAddUp ==
    ASSUME Shape, NEW node, Grown(node), NEW k \in Kinds
    PROVE  StartSum(k)' = StartSum(k) + AddedAtStart(node.tag)[k] /\ EndSum(k)' = EndSum(k)
  <1>1. PICK n \in Nat : n = Len(nodes) /\ DOMAIN nodes = 1..n
    BY DEF Shape
  <1>2. DOMAIN nodes' = 1..n + 1 /\ nodes'[n + 1] = node /\ \A i \in 1..n : nodes'[i] = nodes[i]
    BY <1>1 DEF Grown
  <1>3. PICK D, S, x : D = 1..n + 1 /\ S = 1..n /\ x = n + 1
    OBVIOUS
  <1>4. D = S \cup {x} /\ x \notin S
    BY <1>3
  <1>5. IsFiniteSet(S)
    BY <1>3, FS_Interval
  <1>6. PICK u, w : /\ u = [i \in S |-> AddedAtStart(nodes[i].tag)[k]]
                    /\ w = [i \in D |-> AddedAtStart(nodes'[i].tag)[k]]
    OBVIOUS
  <1>7. u \in [S -> Nat] /\ w \in [D -> Nat] /\ w[x] = AddedAtStart(node.tag)[k]
    BY <1>2, <1>3, <1>4, <1>6, StartAdds
  <1>8. \A i \in S : w[i] = u[i]
    BY <1>2, <1>3, <1>4, <1>6
  <1>9. SumFunction(w) = SumFunction(u) + w[x]
    BY <1>4, <1>5, <1>7, <1>8, SumOfExtended
  <1>10. StartSum(k) = SumFunction(u) /\ StartSum(k)' = SumFunction(w)
    BY <1>1, <1>2, <1>3, <1>6 DEF StartSum
  <1>11. EndSum(k)' = EndSum(k)
    <2>1. PICK E : E = Ended(DOMAIN nodes) /\ E \in SUBSET S
      BY <1>1, <1>3 DEF Ended
    <2>2. Ended(DOMAIN nodes)' = E
      BY <2>1, SetsGrow DEF GrownSets
    <2>3. [i \in E |-> AddedAtEnd(nodes'[i].tag, nodes'[i].value)[k]] = [i \in E |-> AddedAtEnd(nodes[i].tag, nodes[i].value)[k]]
      BY <1>2, <1>3, <2>1
    <2>4. EndSum(k)' = SumFunction([i \in E |-> AddedAtEnd(nodes'[i].tag, nodes'[i].value)[k]])
      BY <2>2 DEF EndSum
    <2> QED BY <2>1, <2>3, <2>4 DEF EndSum
  <1> QED BY <1>7, <1>9, <1>10, <1>11

\* ... and so does its end.
LEMMA EndsAddUp ==
    ASSUME Shape, NEW e, Shrunk(e), NEW k \in Kinds
    PROVE  StartSum(k)' = StartSum(k) /\ EndSum(k)' = EndSum(k) + AddedAtEnd(nodes[e].tag, nodes[e].value)[k]
  <1>1. PICK D : D = DOMAIN nodes /\ IsFiniteSet(D) /\ DOMAIN nodes' = D
    BY NodeSets, EndedGrows
  <1>2. nodes' = nodes /\ e \in D
    BY <1>1 DEF Shrunk
  <1>3. PICK S, T : S = Ended(D) /\ T = S \cup {e}
    OBVIOUS
  <1>4. S \in SUBSET D /\ IsFiniteSet(S) /\ e \notin S /\ T \in SUBSET D
    BY <1>1, <1>2, <1>3, NodeSets, EndedGrows DEF Ended
  <1>5. Ended(DOMAIN nodes)' = T
    <2>1. Ended(D)' = T
      BY <1>2, <1>3, EndedGrows
    <2> QED BY <1>1, <2>1 DEF Ended
  <1>6. \A i \in D : AddedAtEnd(nodes[i].tag, nodes[i].value)[k] \in Nat
    BY <1>1, EndAdds DEF Shape
  <1>7. PICK u, w : /\ u = [i \in S |-> AddedAtEnd(nodes[i].tag, nodes[i].value)[k]]
                    /\ w = [i \in T |-> AddedAtEnd(nodes[i].tag, nodes[i].value)[k]]
    OBVIOUS
  <1>8. u \in [S -> Nat] /\ w \in [T -> Nat] /\ w[e] = AddedAtEnd(nodes[e].tag, nodes[e].value)[k] /\ \A i \in S : w[i] = u[i]
    BY <1>3, <1>4, <1>6, <1>7
  <1>9. SumFunction(w) = SumFunction(u) + w[e]
    BY <1>3, <1>4, <1>8, SumOfExtended
  <1>10. EndSum(k) = SumFunction(u)
    BY <1>1, <1>3, <1>7 DEF EndSum
  <1>11. EndSum(k)' = SumFunction(w)
    BY <1>2, <1>5, <1>7 DEF EndSum
  <1>12. StartSum(k)' = StartSum(k)
    BY <1>1, <1>2 DEF StartSum
  <1> QED BY <1>8, <1>9, <1>10, <1>11, <1>12

LEMMA SumsAreNumbers ==
    ASSUME Shape, NEW k \in Kinds
    PROVE  StartSum(k) \in Nat /\ EndSum(k) \in Nat
  <1>1. PICK D : D = DOMAIN nodes /\ IsFiniteSet(D) /\ IsFiniteSet(Ended(D)) /\ Ended(D) \in SUBSET D
    BY NodeSets DEF Ended
  <1>2. [i \in D |-> AddedAtStart(nodes[i].tag)[k]] \in [D -> Nat]
    BY StartAdds
  <1>3. [i \in Ended(D) |-> AddedAtEnd(nodes[i].tag, nodes[i].value)[k]] \in [Ended(D) -> Nat]
    BY <1>1, EndAdds DEF Shape
  <1> QED BY <1>1, <1>2, <1>3, SumFunctionIsNumber DEF StartSum, EndSum
-----------------------------------------------------------------------------
(* What the counters stand for                                                 *)

Total(k) == StartSum(k) + EndSum(k)

LEMMA NothingStarts ==
    ASSUME Shape, NEW k \in EndKinds
    PROVE  StartSum(k) = 0
  <1>1. PICK D : D = DOMAIN nodes /\ IsFiniteSet(D)
    BY NodeSets
  <1>2. PICK u : u = [i \in D |-> AddedAtStart(nodes[i].tag)[k]]
    OBVIOUS
  <1>3. u \in [D -> Nat] /\ \A i \in D : u[i] = IF i \in {} THEN 1 ELSE 0
    BY <1>2, StartAdds
  <1>4. SumFunction(u) = Cardinality({})
    BY <1>1, <1>3, SumOfMarks
  <1> QED BY <1>1, <1>2, <1>4, FS_EmptySet DEF StartSum

LEMMA NothingEnds ==
    ASSUME Shape, NEW k \in StartKinds
    PROVE  EndSum(k) = 0
  <1>1. PICK D : D = Ended(DOMAIN nodes) /\ IsFiniteSet(D)
    BY NodeSets
  <1>2. PICK u : u = [i \in D |-> AddedAtEnd(nodes[i].tag, nodes[i].value)[k]]
    OBVIOUS
  <1>3. u \in [D -> Nat] /\ \A i \in D : u[i] = IF i \in {} THEN 1 ELSE 0
    BY <1>2, EndAdds
  <1>4. SumFunction(u) = Cardinality({})
    BY <1>1, <1>3, SumOfMarks
  <1> QED BY <1>1, <1>2, <1>4, FS_EmptySet DEF EndSum

LEMMA StartsOf ==
    ASSUME Shape, NEW k, NEW t, \A s : AddedAtStart(s)[k] = One(s, t)
    PROVE  StartSum(k) = Cardinality(Tagged(t))
  <1>1. PICK D : D = DOMAIN nodes /\ IsFiniteSet(D)
    BY NodeSets
  <1>2. PICK u : u = [i \in D |-> AddedAtStart(nodes[i].tag)[k]]
    OBVIOUS
  <1>3. PICK R \in SUBSET D : R = Tagged(t)
    BY <1>1, NodeSets
  <1>4. \A i \in D : u[i] = IF i \in R THEN 1 ELSE 0
    BY <1>1, <1>2, <1>3 DEF Tagged, One
  <1>5. u \in [D -> Nat]
    BY <1>2, <1>4
  <1>6. SumFunction(u) = Cardinality(R)
    BY <1>1, <1>4, <1>5, SumOfMarks
  <1> QED BY <1>1, <1>2, <1>3, <1>6 DEF StartSum

LEMMA EndsOf ==
    ASSUME Shape, NEW k, NEW t, \A s, v : AddedAtEnd(s, v)[k] = One(s, t)
    PROVE  EndSum(k) = Cardinality(Ended(Tagged(t)))
  <1>1. PICK D : D = Ended(DOMAIN nodes) /\ IsFiniteSet(D)
    BY NodeSets
  <1>2. PICK u : u = [i \in D |-> AddedAtEnd(nodes[i].tag, nodes[i].value)[k]]
    OBVIOUS
  <1>3. PICK R : R = Ended(Tagged(t))
    OBVIOUS
  <1>4. R \in SUBSET D /\ \A i \in D : u[i] = IF i \in R THEN 1 ELSE 0
    BY <1>1, <1>2, <1>3 DEF Tagged, One, Ended
  <1>5. u \in [D -> Nat]
    BY <1>2, <1>4
  <1>6. SumFunction(u) = Cardinality(R)
    BY <1>1, <1>4, <1>5, SumOfMarks
  <1> QED BY <1>1, <1>2, <1>3, <1>6 DEF EndSum

LEMMA ValuesOf ==
    ASSUME Shape, NEW k, NEW t, \A s, v : AddedAtEnd(s, v)[k] = IF s = t THEN v ELSE 0
    PROVE  EndSum(k) = TotalValue(Ended(Tagged(t)))
  <1>1. PICK D : D = Ended(DOMAIN nodes) /\ IsFiniteSet(D)
    BY NodeSets
  <1>2. PICK u : u = [i \in D |-> AddedAtEnd(nodes[i].tag, nodes[i].value)[k]]
    OBVIOUS
  <1>3. PICK R : R = Ended(Tagged(t))
    OBVIOUS
  <1>4. PICK w : w = [i \in R |-> nodes[i].value]
    OBVIOUS
  <1>5. R \in SUBSET D /\ (\A i \in D \ R : u[i] = 0) /\ \A i \in R : u[i] = nodes[i].value
    BY <1>1, <1>2, <1>3 DEF Tagged, Ended
  <1>6. \A i \in D : nodes[i].value \in Nat
    BY <1>1 DEF Ended, Shape
  <1>7. \A i \in R : u[i] = w[i] /\ w[i] \in Nat
    BY <1>4, <1>5, <1>6
  <1>8. u \in [D -> Nat] /\ w \in [R -> Nat]
    <2>1. \A i \in D : u[i] \in Nat
      BY <1>5, <1>7
    <2> QED BY <1>2, <1>4, <1>7, <2>1
  <1>9. SumFunction(u) = SumFunction(w)
    BY <1>1, <1>5, <1>7, <1>8, SumOfChosen
  <1> QED BY <1>1, <1>2, <1>3, <1>4, <1>9 DEF EndSum, TotalValue

CountsElements ==
    /\ Total("elements") = Len(nodes)
    /\ Total("attributes") = SumFunction([i \in DOMAIN nodes |-> Attributes(nodes[i].tag)])
    /\ Total("text") = SumFunction([i \in Ended(DOMAIN nodes) |-> Text(nodes[i].tag)])
    /\ Total("styles") = Cardinality(Tagged("xf"))
    /\ Total("sharedStrings") = Cardinality(Tagged("si"))
    /\ Total("relationships") = Cardinality(Tagged("Relationship"))
    /\ Total("tables") = Cardinality(Ended(Tagged("tbl")))
    /\ Total("cells") = Cardinality(Ended(Tagged("tc")))
    /\ Total("paragraphs") = Cardinality(Ended(Tagged("p")))
    /\ Total("sheets") = Cardinality(Ended(Tagged("sheet")))
    /\ Total("materialized") = Cardinality(Ended(Tagged("c")))
    /\ Total("nonempty") = TotalValue(Ended(Tagged("c")))
    /\ Total("mergedCells") = TotalValue(Ended(Tagged("mergeCell")))

LEMMA CountersCount ==
    ASSUME Shape
    PROVE  CountsElements
  <1>1. \A k \in StartKinds : Total(k) = StartSum(k)
    <2> TAKE k \in StartKinds
    <2>1. StartSum(k) \in Nat /\ EndSum(k) = 0
      BY SumsAreNumbers, KindsSplit, NothingEnds
    <2> QED BY <2>1 DEF Total
  <1>2. \A k \in EndKinds : Total(k) = EndSum(k)
    <2> TAKE k \in EndKinds
    <2>1. StartSum(k) = 0 /\ EndSum(k) \in Nat
      BY SumsAreNumbers, KindsSplit, NothingStarts
    <2> QED BY <2>1 DEF Total
  <1>3. StartSum("elements") = Len(nodes)
    <2>1. PICK D : D = DOMAIN nodes /\ IsFiniteSet(D) /\ D = 1..Len(nodes)
      BY NodeSets DEF Shape
    <2>2. PICK u : u = [i \in D |-> AddedAtStart(nodes[i].tag)["elements"]]
      OBVIOUS
    <2>3. u \in [D -> Nat] /\ \A i \in D : u[i] = IF i \in D THEN 1 ELSE 0
      BY <2>2, StartAdds
    <2>4. SumFunction(u) = Cardinality(D)
      BY <2>1, <2>3, SumOfMarks
    <2>5. Cardinality(D) = Len(nodes)
      <3>1. PICK n \in Nat : n = Len(nodes)
        BY DEF Shape
      <3>2. Cardinality(1..n) = IF 1 > n THEN 0 ELSE n - 1 + 1
        BY FS_Interval
      <3> QED BY <2>1, <3>1, <3>2
    <2> QED BY <2>1, <2>2, <2>4, <2>5 DEF StartSum
  <1>4. StartSum("attributes") = SumFunction([i \in DOMAIN nodes |-> Attributes(nodes[i].tag)])
    BY StartAdds DEF StartSum
  <1>5. EndSum("text") = SumFunction([i \in Ended(DOMAIN nodes) |-> Text(nodes[i].tag)])
    BY EndAdds DEF EndSum
  <1>6. /\ StartSum("styles") = Cardinality(Tagged("xf"))
        /\ StartSum("sharedStrings") = Cardinality(Tagged("si"))
        /\ StartSum("relationships") = Cardinality(Tagged("Relationship"))
    BY StartAdds, StartsOf
  <1>7. /\ EndSum("tables") = Cardinality(Ended(Tagged("tbl")))
        /\ EndSum("cells") = Cardinality(Ended(Tagged("tc")))
        /\ EndSum("paragraphs") = Cardinality(Ended(Tagged("p")))
        /\ EndSum("sheets") = Cardinality(Ended(Tagged("sheet")))
        /\ EndSum("materialized") = Cardinality(Ended(Tagged("c")))
    BY EndAdds, EndsOf
  <1>8. /\ EndSum("nonempty") = TotalValue(Ended(Tagged("c")))
        /\ EndSum("mergedCells") = TotalValue(Ended(Tagged("mergeCell")))
    BY EndAdds, ValuesOf
  <1> QED BY <1>1, <1>2, <1>3, <1>4, <1>5, <1>6, <1>7, <1>8 DEF CountsElements, StartKinds, EndKinds

WideTable == \E t \in Tagged("tbl") : Cardinality(Under(t, "gridCol")) > MaxColumns
WideRow == \E r \in Tagged("tr") : RowWidth(r) > MaxColumns
TooDeep == \E i \in DOMAIN nodes : Depth(i) > MaxDepth
WideRange == \E i \in Ended(Tagged("mergeCell")) : nodes[i].column > MaxColumns
OverLimit == \E k \in Kinds : Total(k) > Limit[k]

\* What is excessive about a package, said of the sums.
LEMMA ExcessiveIs ==
    ASSUME Shape
    PROVE  Excessive <=> OverLimit \/ TooDeep \/ WideRange \/ WideTable \/ WideRow
  <1>1. OverLimit <=>
          \/ Total("elements") > Limit["elements"]
          \/ Total("attributes") > Limit["attributes"]
          \/ Total("text") > Limit["text"]
          \/ \E p \in {<<"xf", "styles">>, <<"si", "sharedStrings">>, <<"Relationship", "relationships">>} :
               Total(p[2]) > Limit[p[2]]
          \/ \E p \in {<<"tbl", "tables">>, <<"tc", "cells">>, <<"p", "paragraphs">>,
                       <<"sheet", "sheets">>, <<"c", "materialized">>} : Total(p[2]) > Limit[p[2]]
          \/ \E p \in {<<"c", "nonempty">>, <<"mergeCell", "mergedCells">>} : Total(p[2]) > Limit[p[2]]
    BY DEF OverLimit, Kinds
  <1>2. \A p \in {<<"xf", "styles">>, <<"si", "sharedStrings">>, <<"Relationship", "relationships">>} :
          Total(p[2]) = Cardinality(Tagged(p[1]))
    BY CountersCount DEF CountsElements
  <1>3. \A p \in {<<"tbl", "tables">>, <<"tc", "cells">>, <<"p", "paragraphs">>,
                  <<"sheet", "sheets">>, <<"c", "materialized">>} : Total(p[2]) = Cardinality(Ended(Tagged(p[1])))
    BY CountersCount DEF CountsElements
  <1>4. \A p \in {<<"c", "nonempty">>, <<"mergeCell", "mergedCells">>} :
          Total(p[2]) = TotalValue(Ended(Tagged(p[1])))
    BY CountersCount DEF CountsElements
  <1> QED BY <1>1, <1>2, <1>3, <1>4, CountersCount DEF CountsElements, Excessive, TooDeep, WideRange, WideTable, WideRow
-----------------------------------------------------------------------------
(* The path to an element                                                      *)

LEMMA PartsAre == Parts = {"document", "workbook", "worksheet", "styles", "strings", "rels"}
  <1>1. PICK o : o = PartOrder
    OBVIOUS
  <1>2. DOMAIN o = 1..6
    BY <1>1 DEF PartOrder
  <1>3. /\ o[1] = "document" /\ o[2] = "workbook" /\ o[3] = "worksheet"
        /\ o[4] = "styles" /\ o[5] = "strings" /\ o[6] = "rels"
    BY <1>1 DEF PartOrder
  <1>4. 1..6 = {1, 2, 3, 4, 5, 6}
    OBVIOUS
  <1>5. Range(o) = {o[1], o[2], o[3], o[4], o[5], o[6]}
    BY <1>2, <1>4 DEF Range
  <1> QED BY <1>1, <1>3, <1>5 DEF Parts

LEMMA ChildOf ==
    /\ \A t : "gridSpan" \in Children(t) => t = "tc"
    /\ \A t : "tc" \in Children(t) => t = "tr"
    /\ \A t : "tr" \in Children(t) => t = "tbl"
    /\ \A t : "gridCol" \in Children(t) => t = "tbl"
    /\ {"gridSpan", "tc", "tr", "gridCol", "tbl"} \cap Parts = {}
  BY PartsAre DEF Children

LEMMA ValuesAreNumbers == \A t : Values(t) \subseteq Nat /\ \A v \in Values(t) : v <= 2
  BY DEF Values

\* The element around the one that starts.
Around == IF open = <<>> THEN 0 ELSE Last(open)
NewNode(tag, value, column) == [tag |-> tag, value |-> value, column |-> column, parent |-> Around]

LEMMA AroundIs ==
    ASSUME Shape
    PROVE  /\ open = <<>> <=> Len(open) = 0
           /\ Around = IF Len(open) = 0 THEN 0 ELSE open[Len(open)]
           /\ Around \in 0..Len(nodes)
  <1>1. PICK n \in Nat, m \in Nat : n = Len(nodes) /\ m = Len(open)
    BY DEF Shape
  <1>2. PICK S : open \in Seq(S)
    BY DEF Shape, IsSeq
  <1>3. open = <<>> <=> m = 0
    BY <1>1, <1>2
  <1>4. m # 0 => open[m] \in 1..n
    BY <1>1 DEF Shape
  <1> QED BY <1>1, <1>3, <1>4 DEF Around, Last

Rooted(tag) ==
    IF open = <<>> THEN tag \in Parts
    ELSE tag \in Children(nodes[Last(open)].tag) /\ (tag = "gridSpan" => \A i \in DOMAIN nodes : nodes[i].parent # Last(open))

LEMMA StartedIs ==
    ASSUME NEW tag, Started(tag)
    PROVE  Rooted(tag)
  <1>1. CASE open = <<>>
    <2>1. PICK k \in DOMAIN PartOrder : PartOrder[k] = tag
      BY <1>1 DEF Started
    <2>2. tag \in Parts
      BY <2>1 DEF Parts, Range
    <2> QED BY <1>1, <2>2 DEF Rooted
  <1>2. CASE open # <<>>
    BY <1>2 DEF Started, Rooted
  <1> QED BY <1>1, <1>2

LEMMA TreeStaysTree ==
    ASSUME XmlTypes, IsTree, Shape, Len(nodes) < MaxNodes, MaxNodes \in Nat,
           NEW tag \in Tags, NEW value \in Values(tag), NEW column \in Nat, Rooted(tag), Grows(NewNode(tag, value, column))
    PROVE  /\ nodes' \in Seq([tag : Tags, value : Nat, column : Nat, parent : Nat])
           /\ open' \in Seq(Nat)
           /\ IsTree'
  <1>1. PICK n \in Nat : n = Len(nodes) /\ DOMAIN nodes = 1..n
    BY DEF Shape
  <1>2. PICK node : node = NewNode(tag, value, column)
    OBVIOUS
  <1>3. node.tag = tag /\ node.value = value /\ node.parent = Around /\ node \in [tag : Tags, value : Nat, column : Nat, parent : Nat]
    <2>1. Around \in Nat
      BY <1>1, AroundIs
    <2>2. value \in Nat
      BY ValuesAreNumbers
    <2> QED BY <1>2, <2>1, <2>2 DEF NewNode
  <1>4. nodes' \in Seq([tag : Tags, value : Nat, column : Nat, parent : Nat])
    BY <1>2, <1>3 DEF XmlTypes, Grows
  <1>5. open' \in Seq(Nat)
    BY <1>1 DEF XmlTypes, Grows
  <1>6. /\ DOMAIN nodes' = 1..n + 1 /\ Len(nodes') = n + 1 /\ nodes'[n + 1] = node /\ \A i \in 1..n : nodes'[i] = nodes[i]
    BY <1>1, <1>2, TreeGrows DEF Grown
  <1>7. n + 1 <= MaxNodes
    BY <1>1
  <1>8. ASSUME NEW i \in 1..n + 1
        PROVE  /\ nodes'[i].value \in Values(nodes'[i].tag)
               /\ nodes'[i].parent < i
               /\ IF nodes'[i].parent = 0 THEN nodes'[i].tag \in Parts
                  ELSE nodes'[i].tag \in Children(nodes'[nodes'[i].parent].tag)
    <2>1. CASE i = n + 1
      <3>1. Around \in 0..n
        BY <1>1, AroundIs
      <3>2. Around = 0 => open = <<>>
        BY <1>1, AroundIs DEF Shape
      <3>3. IF Around = 0 THEN tag \in Parts ELSE tag \in Children(nodes[Around].tag)
        <4>1. CASE open = <<>>
          BY <4>1 DEF Rooted, Around
        <4>2. CASE open # <<>>
          BY <3>2, <4>2 DEF Rooted, Around
        <4> QED BY <4>1, <4>2
      <3>4. Around # 0 => nodes'[Around] = nodes[Around]
        BY <1>6, <3>1
      <3> QED BY <1>3, <1>6, <2>1, <3>1, <3>3, <3>4
    <2>2. CASE i # n + 1
      <3>1. i \in 1..n /\ nodes'[i] = nodes[i]
        BY <1>6, <2>2
      <3>2. /\ nodes[i].value \in Values(nodes[i].tag)
            /\ nodes[i].parent < i /\ nodes[i].parent \in Nat
            /\ IF nodes[i].parent = 0 THEN nodes[i].tag \in Parts
               ELSE nodes[i].tag \in Children(nodes[nodes[i].parent].tag)
        BY <1>1, <3>1 DEF IsTree, Shape
      <3>3. nodes[i].parent # 0 => nodes'[nodes[i].parent] = nodes[nodes[i].parent]
        BY <1>6, <3>1, <3>2
      <3> QED BY <3>1, <3>2, <3>3
    <2> QED BY <2>1, <2>2
  <1>9. IsTree'
    BY <1>6, <1>7, <1>8 DEF IsTree
  <1> QED BY <1>4, <1>5, <1>9

\* The depth of a new element is the length of the path to it.
LEMMA PathStaysPath ==
    ASSUME XmlTypes, IsTree, IsPath, Shape, Numbered(nodes), Len(nodes) < MaxNodes, MaxNodes \in Nat,
           NEW tag \in Tags, NEW value \in Values(tag), NEW column \in Nat, Rooted(tag), Grows(NewNode(tag, value, column))
    PROVE  /\ IsPath'
           /\ \A i \in 1..Len(nodes) : Depth(i)' = Depth(i)
           /\ \A i : i = Len(nodes) + 1 => Depth(i)' = Len(open) + 1
  <1>1. PICK n \in Nat, m \in Nat : n = Len(nodes) /\ DOMAIN nodes = 1..n /\ m = Len(open) /\ DOMAIN open = 1..m
    BY DEF Shape
  <1>2. PICK node : node = NewNode(tag, value, column) /\ node.parent = Around
    BY DEF NewNode
  <1>3. PICK ms : ms = nodes'
    OBVIOUS
  <1>4. /\ DOMAIN nodes' = 1..n + 1 /\ Len(nodes') = n + 1 /\ nodes'[n + 1] = node /\ \A i \in 1..n : nodes'[i] = nodes[i]
        /\ DOMAIN open' = 1..m + 1 /\ Len(open') = m + 1 /\ open'[m + 1] = n + 1 /\ \A k \in 1..m : open'[k] = open[k]
    BY <1>1, <1>2, TreeGrows DEF Grown
  <1>5. Numbered(ms)
    <2>1. ms \in Seq([tag : Tags, value : Nat, column : Nat, parent : Nat]) /\ \A i \in DOMAIN ms : ms[i].parent < i
      BY <1>3, TreeStaysTree DEF IsTree
    <2> QED BY <2>1 DEF Numbered
  <1>6. /\ \A i \in 0..n : DepthIn(ms, i) = DepthIn(nodes, i) /\ DepthIn(nodes, i) \in Nat
        /\ DepthIn(nodes, 0) = 0
        /\ \A i \in 1..n + 1 : DepthIn(ms, i) = 1 + DepthIn(ms, ms[i].parent)
    <2>1. Len(nodes) <= Len(ms) /\ \A i \in 1..Len(nodes) : ms[i] = nodes[i]
      BY <1>1, <1>3, <1>4
    <2>2. Len(ms) = n + 1
      BY <1>3, <1>4
    <2> QED BY <1>1, <1>5, <2>1, <2>2, DepthsStay
  <1>7. \A i : Depth(i) = DepthIn(nodes, i) /\ Depth(i)' = DepthIn(ms, i)
    BY <1>3 DEF Depth, DepthIn
  <1>8. Around \in 0..n /\ Around = IF m = 0 THEN 0 ELSE open[m]
    BY <1>1, AroundIs
  <1>9. \A i : i = n + 1 => Depth(i)' = m + 1
    <2>1. DepthIn(ms, n + 1) = 1 + DepthIn(nodes, Around)
      BY <1>2, <1>3, <1>4, <1>6, <1>8
    <2>2. DepthIn(nodes, Around) = m
      <3>1. CASE m = 0
        BY <1>6, <1>8, <3>1
      <3>2. CASE m # 0
        <4>1. Depth(open[m]) = m
          BY <1>1, <3>2 DEF IsPath
        <4> QED BY <1>7, <1>8, <3>2, <4>1
      <3> QED BY <3>1, <3>2
    <2> QED BY <1>7, <2>1, <2>2
  <1>10. \A i \in 1..n : Depth(i)' = Depth(i)
    BY <1>6, <1>7
  <1>11. ASSUME NEW k \in 1..m + 1
         PROVE  /\ open'[k] \in 1..n + 1
                /\ nodes'[open'[k]].parent = IF k = 1 THEN 0 ELSE open'[k - 1]
                /\ \A j \in 1..k - 1 : open'[j] < open'[k]
                /\ DepthIn(ms, open'[k]) = k
    <2>1. \A j \in 1..m : open[j] \in 1..n
      BY <1>1 DEF Shape
    <2>2. CASE k = m + 1
      <3>1. open'[k] = n + 1 /\ nodes'[n + 1].parent = Around
        BY <1>2, <1>4, <2>2
      <3>2. IF k = 1 THEN Around = 0 ELSE Around = open'[k - 1]
        BY <1>4, <1>8, <2>2
      <3>3. \A j \in 1..k - 1 : open'[j] < n + 1
        BY <1>4, <2>1, <2>2
      <3>4. DepthIn(ms, n + 1) = k
        BY <1>7, <1>9, <2>2
      <3> QED BY <3>1, <3>2, <3>3, <3>4
    <2>3. CASE k # m + 1
      <3>1. k \in 1..m /\ open'[k] = open[k] /\ open[k] \in 1..n /\ nodes'[open[k]] = nodes[open[k]]
        <4>1. k \in 1..m
          BY <2>3
        <4>2. open'[k] = open[k]
          BY <1>4, <4>1
        <4>3. open[k] \in 1..n
          BY <2>1, <4>1
        <4>4. nodes'[open[k]] = nodes[open[k]]
          BY <1>4, <4>3
        <4> QED BY <4>1, <4>2, <4>3, <4>4
      <3>2. \A j \in 1..k - 1 : open'[j] = open[j]
        BY <1>4, <3>1
      <3>3. k # 1 => k - 1 \in 1..k - 1
        OBVIOUS
      <3>4. /\ nodes[open[k]].parent = IF k = 1 THEN 0 ELSE open[k - 1]
            /\ \A j \in 1..k - 1 : open[j] < open[k]
            /\ Depth(open[k]) = k
        BY <1>1, <3>1 DEF IsPath
      <3>5. DepthIn(ms, open[k]) = k
        BY <1>6, <1>7, <3>1, <3>4
      <3> QED BY <3>1, <3>2, <3>3, <3>4, <3>5
    <2> QED BY <2>2, <2>3
  <1>12. IsPath'
    <2>1. \A k \in 1..m + 1 : Depth(open[k])' = DepthIn(ms, open'[k])
      BY <1>3 DEF Depth, DepthIn
    <2> QED BY <1>4, <1>11, <2>1 DEF IsPath
  <1> QED BY <1>1, <1>9, <1>10, <1>12
-----------------------------------------------------------------------------
(* The open tables when an element starts                                      *)

LEMMA SpansStaySingle ==
    ASSUME Shape, OneSpan, NEW tag \in Tags, NEW value \in Values(tag), NEW column \in Nat, Rooted(tag), Grows(NewNode(tag, value, column))
    PROVE  OneSpan'
  <1>1. PICK n \in Nat : n = Len(nodes) /\ DOMAIN nodes = 1..n
    BY DEF Shape
  <1>2. PICK node : node = NewNode(tag, value, column) /\ node.parent = Around /\ node.tag = tag
    BY DEF NewNode
  <1>3. /\ DOMAIN nodes' = 1..n + 1 /\ nodes'[n + 1] = node /\ \A i \in 1..n : nodes'[i] = nodes[i]
    BY <1>1, <1>2, TreeGrows DEF Grown
  <1>4. tag = "gridSpan" => \A i \in 1..n : nodes[i].parent # Around
    <2>1. tag = "gridSpan" => open # <<>>
      BY ChildOf DEF Rooted
    <2> QED BY <1>1, <2>1 DEF Rooted, Around
  <1>5. ASSUME NEW i \in 1..n + 1, NEW j \in 1..n + 1,
               nodes'[i].tag = "gridSpan", nodes'[j].tag = "gridSpan", nodes'[i].parent = nodes'[j].parent
        PROVE  i = j
    <2>1. i # n + 1 => i \in 1..n
      OBVIOUS
    <2>2. j # n + 1 => j \in 1..n
      OBVIOUS
    <2>3. CASE i # n + 1 /\ j # n + 1
      BY <1>1, <1>3, <1>5, <2>1, <2>2, <2>3 DEF OneSpan, Tagged
    <2>4. CASE i = n + 1 /\ j # n + 1
      BY <1>2, <1>3, <1>4, <1>5, <2>2, <2>4
    <2>5. CASE i # n + 1 /\ j = n + 1
      BY <1>2, <1>3, <1>4, <1>5, <2>1, <2>5
    <2> QED BY <2>3, <2>4, <2>5
  <1> QED BY <1>3, <1>5 DEF OneSpan, Tagged

TablesAmong ==
    /\ OpenTables = {k \in 1..Len(open) : nodes[open[k]].tag = "tbl"}
    /\ OpenTables \in SUBSET Nat /\ OpenTables \subseteq 1..Len(open) /\ IsFiniteSet(OpenTables)
    /\ \A k \in OpenTables : k <= Len(open)

LEMMA TablesAreOpen ==
    ASSUME Shape
    PROVE  TablesAmong
  <1>1. PICK m \in Nat : m = Len(open) /\ DOMAIN open = 1..m
    BY DEF Shape
  <1>2. OpenTables = {k \in 1..m : nodes[open[k]].tag = "tbl"}
    BY <1>1 DEF OpenTables
  <1>3. OpenTables \subseteq 1..m /\ IsFiniteSet(1..m)
    BY <1>2, FS_Interval
  <1>4. IsFiniteSet(OpenTables)
    BY <1>3, FS_Subset
  <1> QED BY <1>1, <1>2, <1>3, <1>4 DEF TablesAmong

PathKin(k) ==
    /\ nodes[open[k]].tag \in {"gridSpan", "tc", "tr", "gridCol"} => k - 1 \in 1..Len(open)
    /\ nodes[open[k]].tag = "gridSpan" => nodes[open[k - 1]].tag = "tc"
    /\ nodes[open[k]].tag = "tc" => nodes[open[k - 1]].tag = "tr"
    /\ nodes[open[k]].tag = "tr" => nodes[open[k - 1]].tag = "tbl"
    /\ nodes[open[k]].tag = "gridCol" => nodes[open[k - 1]].tag = "tbl"

LEMMA PathHasKin ==
    ASSUME Shape, IsTree, IsPath, NEW k \in 1..Len(open)
    PROVE  PathKin(k)
  <1>1. PICK n \in Nat, m \in Nat : n = Len(nodes) /\ DOMAIN nodes = 1..n /\ m = Len(open) /\ DOMAIN open = 1..m
    BY DEF Shape
  <1>2. /\ open[k] \in 1..n
        /\ nodes[open[k]].parent = IF k = 1 THEN 0 ELSE open[k - 1]
    BY <1>1 DEF IsPath
  <1>3. IF nodes[open[k]].parent = 0 THEN nodes[open[k]].tag \in Parts
        ELSE nodes[open[k]].tag \in Children(nodes[nodes[open[k]].parent].tag)
    BY <1>1, <1>2 DEF IsTree
  <1>4. k # 1 => k - 1 \in 1..m /\ open[k - 1] \in 1..n
    BY <1>1 DEF Shape
  <1>5. CASE k = 1
    BY <1>2, <1>3, <1>5, ChildOf DEF PathKin
  <1>6. CASE k # 1
    <2>1. nodes[open[k]].tag \in Children(nodes[open[k - 1]].tag)
      BY <1>2, <1>3, <1>4, <1>6
    <2> QED BY <1>1, <1>4, <1>6, <2>1, ChildOf DEF PathKin
  <1> QED BY <1>5, <1>6

\* Nothing is in an element that has not started.
LEMMA NothingYet ==
    ASSUME Shape, NEW p, p = Len(nodes) + 1
    PROVE  (\A t : Under(p, t) = {}) /\ RowWidth(p) = 0
  <1>1. PICK n \in Nat : n = Len(nodes) /\ DOMAIN nodes = 1..n
    BY DEF Shape
  <1>2. \A i \in 1..n : nodes[i].parent # p
    BY <1>1 DEF Shape
  <1>3. \A t : Under(p, t) = {}
    BY <1>1, <1>2 DEF Under, Tagged
  <1>4. RowWidth(p) = 0
    <2>1. PICK u : u = [c \in {} |-> CellWidth(c)]
      OBVIOUS
    <2>2. IsFiniteSet({}) /\ {} \in SUBSET {} /\ u \in [{} -> Nat] /\ \A x \in {} : u[x] = IF x \in {} THEN 1 ELSE 0
      BY <2>1, FS_EmptySet
    <2>3. SumFunction(u) = Cardinality({})
      BY <2>2, SumOfMarks
    <2> QED BY <1>3, <2>1, <2>3, FS_EmptySet DEF RowWidth
  <1> QED BY <1>3, <1>4

TablesAfterStart(tag) ==
    /\ OpenTables' = IF tag = "tbl" THEN OpenTables \cup {Len(open) + 1} ELSE OpenTables
    /\ \A k \in 1..Len(open) : GridOf(k)' = IF tag = "gridCol" /\ k = Len(open) THEN GridOf(k) + 1 ELSE GridOf(k)
    /\ \A k \in 1..Len(open) :
         RowOf(k)' = IF tag = "tr" /\ k = Len(open) THEN 0
                     ELSE IF tag = "tc" /\ k + 1 = Len(open) /\ nodes[open[k + 1]].tag = "tr" THEN RowOf(k) + 1
                     ELSE RowOf(k)
    /\ \A k : k = Len(open) + 1 => GridOf(k)' = 0 /\ RowOf(k)' = NoRow

LEMMA TablesWhenStarted ==
    ASSUME Shape, NEW tag, NEW value, NEW column, Grows(NewNode(tag, value, column))
    PROVE  TablesAfterStart(tag)
  <1>1. PICK n \in Nat, m \in Nat : n = Len(nodes) /\ DOMAIN nodes = 1..n /\ m = Len(open) /\ DOMAIN open = 1..m
    BY DEF Shape
  <1>2. PICK node : node = NewNode(tag, value, column) /\ node.parent = Around /\ node.tag = tag
    BY DEF NewNode
  <1>3. Grown(node)
    BY <1>2, TreeGrows
  <1>4. /\ DOMAIN nodes' = 1..n + 1 /\ nodes'[n + 1] = node /\ \A i \in 1..n : nodes'[i] = nodes[i]
        /\ DOMAIN open' = 1..m + 1 /\ open'[m + 1] = n + 1 /\ \A k \in 1..m : open'[k] = open[k]
    BY <1>1, <1>3 DEF Grown
  <1>5. \A k \in 1..m : open[k] \in 1..n /\ nodes'[open'[k]] = nodes[open[k]]
    BY <1>1, <1>4 DEF Shape
  <1>6. /\ \A p, t : Under(p, t)' = IF tag = t /\ Around = p THEN Under(p, t) \cup {n + 1} ELSE Under(p, t)
        /\ \A p, t : IsFiniteSet(Under(p, t)) /\ Under(p, t) \in SUBSET (1..n) /\ Cardinality(Under(p, t)) \in Nat
        /\ \A r : RowWidth(r)' = IF tag = "tc" /\ Around = r THEN RowWidth(r) + 1 ELSE RowWidth(r)
    BY <1>1, <1>2, <1>3, SetsGrow, WidthsGrow, NodeSets DEF GrownSets
  <1>7. Around \in 0..n /\ Around = IF m = 0 THEN 0 ELSE open[m]
    BY <1>1, AroundIs
  <1>8. \A k \in 1..m : Around = open[k] <=> k = m
    <2>1. \A k \in 1..m : k # m => open[k] < open[m]
      <3> SUFFICES ASSUME NEW k \in 1..m, k # m PROVE open[k] < open[m]
        OBVIOUS
      <3>1. m \in 1..m /\ k < m
        OBVIOUS
      <3> QED BY <1>1, <3>1 DEF Shape
    <2> QED BY <1>1, <1>5, <1>7, <2>1
  <1>9. OpenTables' = IF tag = "tbl" THEN OpenTables \cup {m + 1} ELSE OpenTables
    <2>1. 1..m + 1 = (1..m) \cup {m + 1}
      OBVIOUS
    <2>2. OpenTables' = {k \in 1..m + 1 : nodes'[open'[k]].tag = "tbl"}
      BY <1>4 DEF OpenTables
    <2>3. OpenTables = {k \in 1..m : nodes[open[k]].tag = "tbl"}
      BY <1>1 DEF OpenTables
    <2> QED BY <1>2, <1>4, <1>5, <2>1, <2>2, <2>3
  <1>10. ASSUME NEW k \in 1..m
         PROVE  GridOf(k)' = IF tag = "gridCol" /\ k = m THEN GridOf(k) + 1 ELSE GridOf(k)
    <2>1. PICK p : p = open[k] /\ p = open'[k] /\ (Around = p <=> k = m)
      BY <1>4, <1>8
    <2>2. GridOf(k)' = Cardinality(Under(p, "gridCol")') /\ GridOf(k) = Cardinality(Under(p, "gridCol"))
      BY <2>1 DEF GridOf
    <2>3. PICK U : U = Under(p, "gridCol") /\ IsFiniteSet(U) /\ U \in SUBSET (1..n)
      BY <1>6
    <2>4. Cardinality(U \cup {n + 1}) = Cardinality(U) + 1
      <3>1. n + 1 \notin U
        BY <2>3
      <3> QED BY <2>3, <3>1, FS_AddElement
    <2> QED BY <1>6, <2>1, <2>2, <2>3, <2>4
  <1>11. ASSUME NEW k \in 1..m
         PROVE  RowOf(k)' = IF tag = "tr" /\ k = m THEN 0
                            ELSE IF tag = "tc" /\ k + 1 = m /\ nodes[open[k + 1]].tag = "tr" THEN RowOf(k) + 1
                            ELSE RowOf(k)
    <2>1. RowOf(k)' = IF nodes'[open'[k + 1]].tag = "tr" THEN RowWidth(open[k + 1])' ELSE NoRow
      <3>1. k + 1 \in DOMAIN open'
        BY <1>4
      <3> QED BY <3>1 DEF RowOf, NoRow
    <2>2. CASE k = m
      <3>1. k + 1 \notin 1..m
        BY <2>2
      <3>2. RowOf(k) = NoRow
        BY <1>1, <3>1 DEF RowOf
      <3>3. open'[k + 1] = n + 1 /\ nodes'[n + 1].tag = tag
        BY <1>2, <1>4, <2>2
      <3>4. tag = "tr" => RowWidth(open[k + 1])' = 0
        <4>1. PICK r : r = n + 1
          OBVIOUS
        <4>2. RowWidth(r) = 0
          BY <1>1, <4>1, NothingYet
        <4>3. tag = "tr" => RowWidth(r)' = 0
          BY <1>6, <4>2
        <4>4. RowWidth(open[k + 1])' = RowWidth(r)'
          BY <3>3, <4>1
        <4> QED BY <4>3, <4>4
      <3> QED BY <2>1, <2>2, <3>2, <3>3, <3>4
    <2>3. CASE k # m
      <3>1. k + 1 \in 1..m
        BY <2>3
      <3>2. PICK r : r = open[k + 1] /\ r = open'[k + 1] /\ nodes'[r].tag = nodes[r].tag /\ (Around = r <=> k + 1 = m)
        BY <1>4, <1>5, <1>8, <3>1
      <3>3. RowOf(k) = IF nodes[r].tag = "tr" THEN RowWidth(r) ELSE NoRow
        BY <1>1, <3>1, <3>2 DEF RowOf
      <3>4. RowOf(k)' = IF nodes[r].tag = "tr" THEN RowWidth(r)' ELSE NoRow
        BY <2>1, <3>2
      <3>5. RowWidth(r)' = IF tag = "tc" /\ k + 1 = m THEN RowWidth(r) + 1 ELSE RowWidth(r)
        BY <1>6, <3>2
      <3> QED BY <2>3, <3>2, <3>3, <3>4, <3>5
    <2> QED BY <2>2, <2>3
  <1>12. ASSUME NEW k, k = m + 1 PROVE GridOf(k)' = 0 /\ RowOf(k)' = NoRow
    <2>1. PICK p : p = n + 1 /\ p = open'[k]
      BY <1>4, <1>12
    <2>2. GridOf(k)' = Cardinality(Under(p, "gridCol")')
      BY <2>1 DEF GridOf
    <2>3. Under(p, "gridCol")' = {}
      <3>1. Around # p
        BY <1>7, <2>1
      <3>2. Under(p, "gridCol") = {}
        BY <1>1, <2>1, NothingYet
      <3> QED BY <1>6, <3>1, <3>2
    <2>4. RowOf(k)' = NoRow
      <3>1. k + 1 \notin DOMAIN open'
        BY <1>4, <1>12
      <3> QED BY <3>1 DEF RowOf, NoRow
    <2> QED BY <2>2, <2>3, <2>4, FS_EmptySet
  <1> QED BY <1>1, <1>9, <1>10, <1>11, <1>12 DEF TablesAfterStart

\* The number of no table changed.
LEMMA StackedSame ==
    ASSUME NEW U, NEW s, NEW w, NEW x, Stacked(U, s, w), \A k \in U : x[k] = w[k]
    PROVE  Stacked(U, s, x)
  BY DEF Stacked

AroundKin(tag) ==
    /\ tag \in {"gridSpan", "tc", "tr", "gridCol"} => Len(open) \in 1..Len(open)
    /\ tag = "gridSpan" => nodes[open[Len(open)]].tag = "tc"
    /\ tag = "tc" => nodes[open[Len(open)]].tag = "tr"
    /\ tag = "tr" => nodes[open[Len(open)]].tag = "tbl"
    /\ tag = "gridCol" => nodes[open[Len(open)]].tag = "tbl"

LEMMA KinAround ==
    ASSUME Shape, NEW tag, Rooted(tag)
    PROVE  AroundKin(tag)
  <1>1. PICK m \in Nat : m = Len(open)
    BY DEF Shape
  <1>2. Last(open) = open[m] /\ (open = <<>> <=> m = 0)
    BY <1>1, AroundIs DEF Last
  <1>3. CASE m = 0
    BY <1>2, <1>3, ChildOf DEF Rooted, AroundKin
  <1>4. CASE m # 0
    <2>1. tag \in Children(nodes[open[m]].tag) /\ m \in 1..m
      BY <1>2, <1>4 DEF Rooted
    <2> QED BY <1>1, <2>1, ChildOf DEF AroundKin
  <1> QED BY <1>3, <1>4

LEMMA TablesAreNumbers ==
    ASSUME Shape, {MaxColumns, MaxNodes} \subseteq Nat
    PROVE  NoRow \in Nat /\ \A k : GridOf(k) \in Nat /\ RowOf(k) \in Nat
  <1>1. NoRow \in Nat
    BY DEF NoRow
  <1>2. \A p, t : Cardinality(Under(p, t)) \in Nat
    BY NodeSets
  <1>3. \A r : RowWidth(r) \in Nat
    BY NodeSets
  <1> QED BY <1>1, <1>2, <1>3 DEF GridOf, RowOf

\* The open row of the innermost table is no wider than allowed.
LEMMA RowsAreNarrow ==
    ASSUME Shape, ~WideRow, ~WideTable, {MaxColumns, MaxNodes} \subseteq Nat
    PROVE  /\ \A k \in 1..Len(open) : nodes[open[k]].tag = "tr" => RowWidth(open[k]) <= MaxColumns
           /\ \A k \in OpenTables : GridOf(k) <= MaxColumns /\ (RowOf(k) = NoRow \/ RowOf(k) <= MaxColumns)
           /\ \A c \in Nat : c <= MaxColumns => c # NoRow
  <1>1. PICK n \in Nat, m \in Nat : n = Len(nodes) /\ DOMAIN nodes = 1..n /\ m = Len(open) /\ DOMAIN open = 1..m
    BY DEF Shape
  <1>2. \A k \in 1..m : open[k] \in 1..n
    BY <1>1 DEF Shape
  <1>3. \A r : RowWidth(r) \in Nat /\ Cardinality(Under(r, "gridCol")) \in Nat
    BY NodeSets
  <1>4. \A k \in 1..m : nodes[open[k]].tag = "tr" => RowWidth(open[k]) <= MaxColumns
    <2> SUFFICES ASSUME NEW k \in 1..m, nodes[open[k]].tag = "tr" PROVE RowWidth(open[k]) <= MaxColumns
      OBVIOUS
    <2>1. open[k] \in Tagged("tr")
      BY <1>1, <1>2 DEF Tagged
    <2>2. ~(RowWidth(open[k]) > MaxColumns)
      BY <2>1 DEF WideRow
    <2> QED BY <1>3, <2>2
  <1>5. \A k \in OpenTables : GridOf(k) <= MaxColumns
    <2> SUFFICES ASSUME NEW k \in OpenTables PROVE GridOf(k) <= MaxColumns
      OBVIOUS
    <2>1. k \in 1..m /\ nodes[open[k]].tag = "tbl"
      BY <1>1 DEF OpenTables
    <2>2. open[k] \in Tagged("tbl")
      BY <1>1, <1>2, <2>1 DEF Tagged
    <2>3. ~(Cardinality(Under(open[k], "gridCol")) > MaxColumns)
      BY <2>2 DEF WideTable
    <2> QED BY <1>3, <2>3 DEF GridOf
  <1>6. \A k : RowOf(k) = NoRow \/ RowOf(k) <= MaxColumns
    BY <1>1, <1>4 DEF RowOf
  <1>7. \A c \in Nat : c <= MaxColumns => c # NoRow
    BY DEF NoRow
  <1> QED BY <1>1, <1>4, <1>5, <1>6, <1>7

LEMMA StacksWhenStarted ==
    ASSUME XmlTypes, IsTree, IsPath, Shape, TablesOpen, ~WideTable, ~WideRow, {MaxColumns, MaxNodes} \subseteq Nat,
           NEW tag, Rooted(tag), TablesAfterStart(tag),
           grids' = GridsAfterStart(tag), cellsIn' = CellsAfterStart(tag)
    PROVE  TablesOpen' /\ grids' \in Seq(Nat) /\ cellsIn' \in Seq(Nat)
  <1>1. PICK m \in Nat : m = Len(open) /\ DOMAIN open = 1..m
    BY DEF Shape
  <1>2. PICK U : /\ U = OpenTables /\ U \in SUBSET Nat /\ U \subseteq 1..m /\ IsFiniteSet(U)
                 /\ U = {k \in 1..m : nodes[open[k]].tag = "tbl"} /\ \A k \in U : k <= m
    BY <1>1, TablesAreOpen DEF TablesAmong
  <1>3. PICK g, r : g = [k \in U |-> GridOf(k)] /\ r = [k \in U |-> RowOf(k)]
    OBVIOUS
  <1>4. Stacked(U, grids, g) /\ Stacked(U, cellsIn, r) /\ grids \in Seq(Nat) /\ cellsIn \in Seq(Nat)
    BY <1>2, <1>3 DEF TablesOpen, XmlTypes
  <1>5. PICK V : V = OpenTables' /\ V = IF tag = "tbl" THEN U \cup {m + 1} ELSE U
    BY <1>1, <1>2 DEF TablesAfterStart
  <1>6. PICK h, q : h = [k \in V |-> GridOf(k)'] /\ q = [k \in V |-> RowOf(k)']
    OBVIOUS
  <1>7. ASSUME Stacked(V, grids', h), Stacked(V, cellsIn', q)
        PROVE  TablesOpen'
    BY <1>5, <1>6, <1>7 DEF TablesOpen, Stacked
  <1>8. NoRow \in Nat /\ \A k : GridOf(k) \in Nat /\ RowOf(k) \in Nat
    BY TablesAreNumbers
  <1>9. \A k \in U : h[k] = (IF tag = "gridCol" /\ k = m THEN g[k] + 1 ELSE g[k])
    BY <1>1, <1>2, <1>3, <1>5, <1>6 DEF TablesAfterStart
  <1>10. \A k \in U : q[k] = (IF tag = "tr" /\ k = m THEN 0
                              ELSE IF tag = "tc" /\ k + 1 = m /\ nodes[open[k + 1]].tag = "tr" THEN r[k] + 1
                              ELSE r[k])
    BY <1>1, <1>2, <1>3, <1>5, <1>6 DEF TablesAfterStart
  <1>11. AroundKin(tag)
    BY KinAround
  <1>12. CASE tag = "tbl"
    <2>1. grids' = Append(grids, 0) /\ cellsIn' = Append(cellsIn, NoRow)
      BY <1>12 DEF GridsAfterStart, CellsAfterStart
    <2>2. V = U \cup {m + 1} /\ m + 1 \in V
      BY <1>5, <1>12
    <2>3. h[m + 1] = 0 /\ q[m + 1] = NoRow
      BY <1>1, <1>6, <2>2 DEF TablesAfterStart
    <2>4. (\A k \in U : h[k] = g[k]) /\ (\A k \in U : q[k] = r[k])
      BY <1>9, <1>10, <1>12
    <2>5. Stacked(V, Append(grids, 0), h)
      BY <1>2, <1>4, <2>2, <2>3, <2>4, PushStack
    <2>6. Stacked(V, Append(cellsIn, NoRow), q)
      BY <1>2, <1>4, <1>8, <2>2, <2>3, <2>4, PushStack
    <2> QED BY <1>4, <1>7, <1>8, <2>1, <2>5, <2>6
  <1>13. CASE tag = "tr"
    <2>1. m \in U
      BY <1>1, <1>2, <1>11, <1>13 DEF AroundKin
    <2>2. V = U /\ (\A k \in U : h[k] = g[k]) /\ q[m] = 0 /\ \A k \in U \ {m} : q[k] = r[k]
      BY <1>5, <1>9, <1>10, <1>13, <2>1
    <2>3. cellsIn # <<>> /\ SetLast(cellsIn, 0) \in Seq(Nat) /\ Stacked(U, SetLast(cellsIn, 0), q)
      <3>1. /\ U \in SUBSET Nat /\ IsFiniteSet(U) /\ m \in U /\ (\A j \in U : j <= m) /\ cellsIn \in Seq(Nat) /\ Stacked(U, cellsIn, r)
            /\ 0 \in Nat /\ q[m] = 0 /\ \A j \in U \ {m} : q[j] = r[j]
        BY <1>2, <1>4, <2>1, <2>2
      <3> QED BY ONLY <3>1, SetStack
    <2>4. grids' = grids /\ cellsIn' = SetLast(cellsIn, 0)
      BY <1>13, <2>3 DEF GridsAfterStart, CellsAfterStart
    <2>5. Stacked(U, grids, h)
      BY <1>4, <2>2, StackedSame
    <2> QED BY <1>4, <1>7, <2>2, <2>3, <2>4, <2>5
  <1>14. CASE tag = "tc"
    <2>1. m \in 1..m /\ nodes[open[m]].tag = "tr"
      BY <1>1, <1>11, <1>14 DEF AroundKin
    <2>2. PathKin(m)
      BY <1>1, <2>1, PathHasKin
    <2>3. PICK k \in 1..m : k = m - 1 /\ k \in U /\ k + 1 = m
      BY <1>1, <1>2, <2>1, <2>2 DEF PathKin
    <2>4. m \notin U
      BY <1>2, <2>1
    <2>5. \A j \in U : j <= k
      BY <1>2, <2>3, <2>4
    <2>6. r[k] = RowWidth(open[m]) /\ RowWidth(open[m]) <= MaxColumns /\ r[k] \in Nat
      <3>1. RowOf(k) = RowWidth(open[m])
        BY <1>1, <2>1, <2>3 DEF RowOf
      <3> QED BY <1>1, <1>3, <1>8, <2>1, <2>3, <3>1, RowsAreNarrow
    <2>7. r[k] # NoRow
      BY <2>6, RowsAreNarrow
    <2>8. V = U /\ (\A j \in U : h[j] = g[j]) /\ q[k] = r[k] + 1 /\ \A j \in U \ {k} : q[j] = r[j]
      BY <1>5, <1>9, <1>10, <1>14, <2>1, <2>3
    <2>9. r[k] + 1 \in Nat
      BY <2>6
    <2>10. /\ cellsIn # <<>> /\ Last(cellsIn) = r[k]
           /\ SetLast(cellsIn, r[k] + 1) \in Seq(Nat) /\ Stacked(U, SetLast(cellsIn, r[k] + 1), q)
      <3>1. /\ U \in SUBSET Nat /\ IsFiniteSet(U) /\ k \in U /\ (\A j \in U : j <= k) /\ cellsIn \in Seq(Nat) /\ Stacked(U, cellsIn, r)
            /\ r[k] + 1 \in Nat /\ q[k] = r[k] + 1 /\ \A j \in U \ {k} : q[j] = r[j]
        BY <1>2, <1>4, <2>3, <2>5, <2>8, <2>9
      <3> QED BY ONLY <3>1, SetStack
    <2>11. grids' = grids /\ cellsIn' = SetLast(cellsIn, r[k] + 1)
      BY <1>14, <2>7, <2>10 DEF GridsAfterStart, CellsAfterStart
    <2>12. Stacked(U, grids, h)
      BY <1>4, <2>8, StackedSame
    <2> QED BY <1>4, <1>7, <2>8, <2>10, <2>11, <2>12
  <1>15. CASE tag = "gridCol"
    <2>1. m \in U
      BY <1>1, <1>2, <1>11, <1>15 DEF AroundKin
    <2>2. V = U /\ (\A k \in U : q[k] = r[k]) /\ h[m] = g[m] + 1 /\ \A k \in U \ {m} : h[k] = g[k]
      BY <1>5, <1>9, <1>10, <1>15, <2>1
    <2>3. g[m] + 1 \in Nat
      BY <1>3, <1>8, <2>1
    <2>4. /\ grids # <<>> /\ Last(grids) = g[m]
          /\ SetLast(grids, g[m] + 1) \in Seq(Nat) /\ Stacked(U, SetLast(grids, g[m] + 1), h)
      <3>1. /\ U \in SUBSET Nat /\ IsFiniteSet(U) /\ m \in U /\ (\A j \in U : j <= m) /\ grids \in Seq(Nat) /\ Stacked(U, grids, g)
            /\ g[m] + 1 \in Nat /\ h[m] = g[m] + 1 /\ \A j \in U \ {m} : h[j] = g[j]
        BY <1>2, <1>4, <2>1, <2>2, <2>3
      <3> QED BY ONLY <3>1, SetStack
    <2>5. grids' = SetLast(grids, g[m] + 1) /\ cellsIn' = cellsIn
      BY <1>15, <2>4 DEF GridsAfterStart, CellsAfterStart
    <2>6. Stacked(U, cellsIn, q)
      BY <1>4, <2>2, StackedSame
    <2> QED BY <1>4, <1>7, <2>2, <2>4, <2>5, <2>6
  <1>16. CASE tag \notin {"tbl", "tr", "tc", "gridCol"}
    <2>1. V = U /\ (\A k \in U : h[k] = g[k]) /\ \A k \in U : q[k] = r[k]
      BY <1>5, <1>9, <1>10, <1>16
    <2>2. grids' = grids /\ cellsIn' = cellsIn
      BY <1>16 DEF GridsAfterStart, CellsAfterStart
    <2>3. Stacked(U, grids, h) /\ Stacked(U, cellsIn, q)
      BY <1>4, <2>1, StackedSame
    <2> QED BY <1>4, <1>7, <2>1, <2>2, <2>3
  <1> QED BY <1>12, <1>13, <1>14, <1>15, <1>16
-----------------------------------------------------------------------------
(* The verdict when an element starts                                          *)

LEMMA WideStack ==
    ASSUME NEW U \in SUBSET Nat, IsFiniteSet(U), NEW s \in Seq(Nat), NEW w, Stacked(U, s, w)
    PROVE  /\ TooWide(s) => \E k \in U : w[k] # NoRow /\ w[k] > MaxColumns
           /\ \A k \in U : (\A j \in U : j <= k) => (TooWide(s) <=> w[k] # NoRow /\ w[k] > MaxColumns)
  <1>1. PICK n \in Nat : n = Cardinality(U) /\ n = Len(s)
    BY LenProperties DEF Stacked
  <1>2. s # <<>> <=> n # 0
    BY <1>1
  <1>3. \A k \in U : s[Rank(U, k)] = w[k]
    BY DEF Stacked
  <1>4. ASSUME TooWide(s)
        PROVE  \E k \in U : w[k] # NoRow /\ w[k] > MaxColumns
    <2>1. n \in 1..n /\ s[n] # NoRow /\ s[n] > MaxColumns
      BY <1>1, <1>2, <1>4 DEF TooWide, Last
    <2>2. Nth(U, n) \in U /\ Rank(U, Nth(U, n)) = n
      BY <1>1, <2>1, NthOfRank
    <2>3. s[n] = w[Nth(U, n)]
      BY <1>3, <2>2
    <2> QED BY <2>1, <2>2, <2>3
  <1>5. ASSUME NEW k \in U, \A j \in U : j <= k
        PROVE  TooWide(s) <=> w[k] # NoRow /\ w[k] > MaxColumns
    <2>1. Rank(U, k) = n /\ n # 0
      BY <1>1, <1>5, LargestIsLast
    <2> QED BY <1>1, <1>2, <1>3, <2>1 DEF TooWide, Last
  <1> QED BY <1>4, <1>5

Innermost(k) == k \in OpenTables /\ \A j \in OpenTables : j <= k

StackTypes == grids \in Seq(Nat) /\ cellsIn \in Seq(Nat)

WidthsSeen ==
    /\ TooWide(grids) => WideTable
    /\ TooWide(cellsIn) => WideRow
    /\ \A k : Innermost(k) => /\ TooWide(grids) <=> GridOf(k) # NoRow /\ GridOf(k) > MaxColumns
                              /\ TooWide(cellsIn) <=> RowOf(k) # NoRow /\ RowOf(k) > MaxColumns

LEMMA WideNow ==
    ASSUME Shape, TablesOpen, StackTypes
    PROVE  WidthsSeen
  <1>1. PICK n \in Nat, m \in Nat : n = Len(nodes) /\ DOMAIN nodes = 1..n /\ m = Len(open) /\ DOMAIN open = 1..m
    BY DEF Shape
  <1>2. PICK U : /\ U = OpenTables /\ U \in SUBSET Nat /\ U \subseteq 1..m /\ IsFiniteSet(U)
                 /\ U = {k \in 1..m : nodes[open[k]].tag = "tbl"}
    BY <1>1, TablesAreOpen DEF TablesAmong
  <1>3. PICK g, r : g = [k \in U |-> GridOf(k)] /\ r = [k \in U |-> RowOf(k)]
    OBVIOUS
  <1>4. Stacked(U, grids, g) /\ Stacked(U, cellsIn, r) /\ grids \in Seq(Nat) /\ cellsIn \in Seq(Nat)
    BY <1>2, <1>3 DEF TablesOpen, StackTypes
  <1>5. \A k \in 1..m : open[k] \in 1..n
    BY <1>1 DEF Shape
  <1>6. ASSUME TooWide(grids) PROVE WideTable
    <2>1. PICK k \in U : g[k] > MaxColumns
      BY <1>2, <1>4, <1>6, WideStack
    <2>2. open[k] \in Tagged("tbl")
      BY <1>1, <1>2, <1>5 DEF Tagged
    <2> QED BY <1>3, <2>1, <2>2 DEF GridOf, WideTable
  <1>7. ASSUME TooWide(cellsIn) PROVE WideRow
    <2>1. PICK k \in U : r[k] # NoRow /\ r[k] > MaxColumns
      BY <1>2, <1>4, <1>7, WideStack
    <2>2. k + 1 \in 1..m /\ nodes[open[k + 1]].tag = "tr" /\ r[k] = RowWidth(open[k + 1])
      BY <1>1, <1>3, <2>1 DEF RowOf
    <2>3. open[k + 1] \in Tagged("tr")
      BY <1>1, <1>5, <2>2 DEF Tagged
    <2> QED BY <2>1, <2>2, <2>3 DEF WideRow
  <1>8. ASSUME NEW k, Innermost(k)
        PROVE  /\ TooWide(grids) <=> GridOf(k) # NoRow /\ GridOf(k) > MaxColumns
               /\ TooWide(cellsIn) <=> RowOf(k) # NoRow /\ RowOf(k) > MaxColumns
    <2>1. k \in U /\ \A j \in U : j <= k
      BY <1>2, <1>8 DEF Innermost
    <2>2. g[k] = GridOf(k) /\ r[k] = RowOf(k)
      BY <1>3, <2>1
    <2>3. TooWide(grids) <=> g[k] # NoRow /\ g[k] > MaxColumns
      BY <1>2, <1>4, <2>1, WideStack
    <2>4. TooWide(cellsIn) <=> r[k] # NoRow /\ r[k] > MaxColumns
      BY <1>2, <1>4, <2>1, WideStack
    <2> QED BY <2>2, <2>3, <2>4
  <1> QED BY <1>6, <1>7, <1>8 DEF WidthsSeen

LEMMA WidthsWhenStarted ==
    ASSUME Shape, IsTree, IsPath, ~WideTable, ~WideRow, {MaxColumns, MaxNodes} \subseteq Nat, Len(nodes) < MaxNodes,
           Shape', TablesOpen', StackTypes',
           NEW tag, NEW value, NEW column, Rooted(tag), Grows(NewNode(tag, value, column)), TablesAfterStart(tag)
    PROVE  (WideTable' <=> TooWide(grids')) /\ (WideRow' <=> TooWide(cellsIn'))
  <1>1. PICK n \in Nat, m \in Nat : n = Len(nodes) /\ DOMAIN nodes = 1..n /\ m = Len(open) /\ DOMAIN open = 1..m
    BY DEF Shape
  <1>2. PICK node : node = NewNode(tag, value, column) /\ node.parent = Around /\ node.tag = tag
    BY DEF NewNode
  <1>3. Grown(node)
    BY <1>2, TreeGrows
  <1>4. /\ \A t : Tagged(t)' = IF tag = t THEN Tagged(t) \cup {n + 1} ELSE Tagged(t)
        /\ \A p, t : Under(p, t)' = IF tag = t /\ Around = p THEN Under(p, t) \cup {n + 1} ELSE Under(p, t)
        /\ \A p, t : Cardinality(Under(p, t)) \in Nat
        /\ \A r : RowWidth(r)' = IF tag = "tc" /\ Around = r THEN RowWidth(r) + 1 ELSE RowWidth(r)
        /\ \A r : RowWidth(r) \in Nat
    BY <1>1, <1>2, <1>3, SetsGrow, WidthsGrow, NodeSets DEF GrownSets
  <1>5. \A p : p = n + 1 => (\A t : Cardinality(Under(p, t)) = 0) /\ RowWidth(p) = 0
    BY <1>1, NothingYet, FS_EmptySet
  <1>6. /\ TooWide(grids') => WideTable'
        /\ TooWide(cellsIn') => WideRow'
        /\ \A k : Innermost(k)' => /\ TooWide(grids') <=> GridOf(k)' # NoRow /\ GridOf(k)' > MaxColumns
                                   /\ TooWide(cellsIn') <=> RowOf(k)' # NoRow /\ RowOf(k)' > MaxColumns
    <2>1. WidthsSeen'
      BY WideNow, PTL
    <2> QED BY <2>1 DEF WidthsSeen, TooWide, NoRow
  <1>7. Around \in 0..n /\ Around = IF m = 0 THEN 0 ELSE open[m]
    BY <1>1, AroundIs
  <1>8. AroundKin(tag)
    BY KinAround
  <1>9. \A k : k \in OpenTables <=> k \in 1..m /\ nodes[open[k]].tag = "tbl"
    BY <1>1 DEF OpenTables
  <1>10. \A c \in Nat : c <= MaxColumns => c + 1 # NoRow
    BY DEF NoRow
  <1>11. ASSUME WideTable' PROVE TooWide(grids')
    <2>1. PICK t \in Tagged("tbl")' : Cardinality(Under(t, "gridCol")') > MaxColumns
      BY <1>11 DEF WideTable
    <2>2. ASSUME ~(tag = "gridCol" /\ Around = t) PROVE FALSE
      <3>1. Cardinality(Under(t, "gridCol")) > MaxColumns
        BY <1>4, <2>1, <2>2
      <3>2. t # n + 1
        BY <1>5, <3>1
      <3>3. t \in Tagged("tbl")
        BY <1>4, <2>1, <3>2
      <3> QED BY <3>1, <3>3 DEF WideTable
    <2>3. tag = "gridCol" /\ Around = t
      BY <2>2
    <2>4. m \in 1..m /\ t = open[m] /\ nodes[open[m]].tag = "tbl"
      BY <1>1, <1>7, <1>8, <2>3 DEF AroundKin
    <2>5. m \in OpenTables /\ OpenTables' = OpenTables /\ GridOf(m)' = GridOf(m) + 1
      <3>1. OpenTables' = OpenTables /\ \A k \in 1..m : k = m => GridOf(k)' = GridOf(k) + 1
        BY <1>1, <2>3 DEF TablesAfterStart
      <3> QED BY <1>9, <2>4, <3>1
    <2>6. Innermost(m)'
      BY <1>9, <2>5 DEF Innermost
    <2>7. GridOf(m)' > MaxColumns
      <3>1. open'[m] = t
        BY <1>1, <1>3, <2>4 DEF Grown
      <3> QED BY <2>1, <3>1 DEF GridOf
    <2>8. GridOf(m) <= MaxColumns /\ GridOf(m) \in Nat
      BY <2>5, RowsAreNarrow, TablesAreNumbers
    <2> QED BY <1>6, <1>10, <2>5, <2>6, <2>7, <2>8
  <1>12. ASSUME WideRow' PROVE TooWide(cellsIn')
    <2>1. PICK r \in Tagged("tr")' : RowWidth(r)' > MaxColumns
      BY <1>12 DEF WideRow
    <2>2. ASSUME ~(tag = "tc" /\ Around = r) PROVE FALSE
      <3>1. RowWidth(r) > MaxColumns
        BY <1>4, <2>1, <2>2
      <3>2. r # n + 1
        BY <1>5, <3>1
      <3>3. r \in Tagged("tr")
        BY <1>4, <2>1, <3>2
      <3> QED BY <3>1, <3>3 DEF WideRow
    <2>3. tag = "tc" /\ Around = r
      BY <2>2
    <2>4. m \in 1..m /\ r = open[m] /\ nodes[open[m]].tag = "tr"
      BY <1>1, <1>7, <1>8, <2>3 DEF AroundKin
    <2>5. PICK k \in 1..m : k + 1 = m /\ k \in OpenTables
      <3>1. PathKin(m)
        BY <1>1, <2>4, PathHasKin
      <3>2. m - 1 \in 1..m /\ nodes[open[m - 1]].tag = "tbl" /\ (m - 1) + 1 = m
        BY <1>1, <2>4, <3>1 DEF PathKin
      <3> QED BY <1>9, <3>2
    <2>6. OpenTables' = OpenTables /\ RowOf(k)' = RowOf(k) + 1
      BY <1>1, <2>3, <2>4, <2>5 DEF TablesAfterStart
    <2>7. Innermost(k)'
      <3>1. m \notin OpenTables
        BY <1>9, <2>4
      <3>2. \A j \in OpenTables : j <= k
        BY <1>9, <2>5, <3>1
      <3> QED BY <2>5, <2>6, <3>2 DEF Innermost
    <2>8. RowOf(k) = RowWidth(r) /\ RowWidth(r) <= MaxColumns /\ RowWidth(r) \in Nat
      <3>1. RowOf(k) = RowWidth(r)
        BY <1>1, <2>4, <2>5 DEF RowOf
      <3>2. RowWidth(r) <= MaxColumns
        BY <1>1, <2>4, RowsAreNarrow
      <3> QED BY <1>4, <3>1, <3>2
    <2>9. RowWidth(r)' = RowWidth(r) + 1
      BY <1>4, <2>3
    <2> QED BY <1>6, <1>10, <2>1, <2>6, <2>7, <2>8, <2>9
  <1> QED BY <1>6, <1>11, <1>12

\* The clock is looked at when the number of elements leaves no remainder.
LEMMA Remainder ==
    ASSUME NEW a \in Nat, NEW c \in Nat \ {0}
    PROVE  a % c \in 0..c - 1 /\ (a \div c) \in Nat /\ a = ((a \div c) * c) + (a % c)
  OBVIOUS

\* One more is one more in the remainder too, if it is not 0.
LEMMA NextRemainder ==
    ASSUME NEW n \in Nat, NEW c \in Nat \ {0}, (n + 1) % c # 0
    PROVE  (n + 1) % c = (n % c) + 1
  <1>1. PICK p \in Nat, q \in Nat, r \in 0..c - 1, s \in 0..c - 1 :
          /\ p = n \div c /\ r = n % c /\ n = p * c + r
          /\ q = (n + 1) \div c /\ s = (n + 1) % c /\ n + 1 = q * c + s
    <2>1. n % c \in 0..c - 1 /\ (n \div c) \in Nat /\ n = ((n \div c) * c) + (n % c)
      BY Remainder
    <2>2. PICK k \in Nat : k = n + 1
      OBVIOUS
    <2>3. k % c \in 0..c - 1 /\ (k \div c) \in Nat /\ k = ((k \div c) * c) + (k % c)
      BY Remainder
    <2> QED BY <2>1, <2>2, <2>3
  <1>2. s # 0
    BY <1>1
  <1>3. p * c \in Nat /\ q * c \in Nat
    OBVIOUS
  <1>4. q * c + s = p * c + r + 1
    BY <1>1
  <1>5. ASSUME q < p PROVE FALSE
    <2>1. q * c + c <= p * c
      <3>1. PICK d \in Nat : p = q + 1 + d
        <4>1. p - q - 1 \in Nat /\ p = q + 1 + (p - q - 1)
          BY <1>5
        <4> QED BY <4>1
      <3>2. p * c = q * c + c + d * c /\ d * c \in Nat
        BY <3>1
      <3> QED BY <1>3, <3>2
    <2> QED BY <1>3, <1>4, <2>1
  <1>6. ASSUME p < q PROVE FALSE
    <2>1. p * c + c <= q * c
      <3>1. PICK d \in Nat : q = p + 1 + d
        <4>1. q - p - 1 \in Nat /\ q = p + 1 + (q - p - 1)
          BY <1>6
        <4> QED BY <4>1
      <3>2. q * c = p * c + c + d * c /\ d * c \in Nat
        BY <3>1
      <3> QED BY <1>3, <3>2
    <2> QED BY <1>2, <1>3, <1>4, <2>1
  <1>7. p = q
    BY <1>5, <1>6
  <1> QED BY <1>1, <1>3, <1>4, <1>7

LEMMA ExceededIs ==
    ASSUME Counted
    PROVE  Exceeded(count) <=> OverLimit
  BY DEF Counted, Exceeded, OverLimit, Total

LEMMA CountsAdd ==
    ASSUME Counted, count \in [Kinds -> Nat], NEW a, \A k \in Kinds : a[k] \in Nat,
           count' = Plus(count, a), \A k \in Kinds : Total(k)' = Total(k) + a[k]
    PROVE  Counted' /\ count' \in [Kinds -> Nat]
  <1>1. \A k \in Kinds : count'[k] = count[k] + a[k]
    BY DEF Plus
  <1>2. \A k \in Kinds : count[k] = Total(k)
    BY DEF Counted, Total
  <1>3. Counted'
    BY <1>1, <1>2 DEF Counted, Total
  <1> QED BY <1>3 DEF Plus

LEMMA ConstantsAre == {MaxColumns, MaxNodes, MaxDepth} \subseteq Nat /\ CheckEvery \in Nat \ {0}
  BY XmlAssumption DEF XmlAssumption

LEMMA DepthsWhenStarted ==
    ASSUME Shape, NEW node, Grown(node), ~TooDeep,
           \A i \in 1..Len(nodes) : Depth(i)' = Depth(i),
           \A i : i = Len(nodes) + 1 => Depth(i)' = Len(open) + 1
    PROVE  TooDeep' <=> Len(open') > MaxDepth
  <1>1. PICK n \in Nat, m \in Nat : n = Len(nodes) /\ DOMAIN nodes = 1..n /\ m = Len(open)
    BY DEF Shape
  <1>2. DOMAIN nodes' = 1..n + 1 /\ Len(open') = m + 1
    BY <1>1 DEF Grown
  <1>3. \A i \in 1..n : ~(Depth(i)' > MaxDepth)
    BY <1>1 DEF TooDeep
  <1>4. \A i \in 1..n + 1 : i # n + 1 => i \in 1..n
    OBVIOUS
  <1>5. n + 1 \in 1..n + 1 /\ \A i : i = n + 1 => Depth(i)' = m + 1
    BY <1>1
  <1> QED BY <1>2, <1>3, <1>4, <1>5 DEF TooDeep

LEMMA RangesWhenStarted ==
    ASSUME Shape, NEW node, Grown(node)
    PROVE  WideRange' <=> WideRange
  <1>1. Ended(Tagged("mergeCell"))' = Ended(Tagged("mergeCell"))
    BY SetsGrow DEF GrownSets
  <1>2. \A i \in Ended(Tagged("mergeCell")) : nodes'[i] = nodes[i]
    BY DEF Ended, Tagged, Grown, Shape
  <1> QED BY <1>1, <1>2 DEF WideRange

LEMMA RangesWhenEnded ==
    ASSUME Shape, NEW e, Shrunk(e)
    PROVE  WideRange' <=> WideRange \/ Beyond(nodes[e])
  <1>1. nodes' = nodes /\ e \in DOMAIN nodes /\ Tagged("mergeCell")' = Tagged("mergeCell")
    BY DEF Shrunk, Tagged
  <1>2. Ended(Tagged("mergeCell"))' =
          IF nodes[e].tag = "mergeCell" THEN Ended(Tagged("mergeCell")) \cup {e} ELSE Ended(Tagged("mergeCell"))
    BY <1>1 DEF Shrunk, Ended, Tagged
  <1> QED BY <1>1, <1>2 DEF WideRange, Beyond

LEMMA XmlStart ==
    ASSUME XmlInv, NEW tag \in Tags, NEW value \in Values(tag),
           NEW column \in LastColumns(tag), StartElement(tag, value, column)
    PROVE  XmlInv'
  <1>1. /\ XmlTypes /\ IsTree /\ IsPath /\ OneSpan /\ Counted /\ TablesOpen /\ ClockSeen
        /\ scan = "reading" /\ ~Excessive
    BY DEF StartElement, XmlInv, Reading, VerdictMatchesTree
  <1>2. Shape /\ Numbered(nodes)
    BY <1>1, ShapeHolds
  <1>3. ~OverLimit /\ ~TooDeep /\ ~WideRange /\ ~WideTable /\ ~WideRow
    BY <1>1, <1>2, ExcessiveIs
  <1>4. PICK n \in Nat : n = Len(nodes) /\ n < MaxNodes
    BY <1>2 DEF StartElement, Shape
  <1>5. /\ Rooted(tag) /\ Grows(NewNode(tag, value, column))
        /\ count' = Plus(count, AddedAtStart(tag))
        /\ grids' = GridsAfterStart(tag) /\ cellsIn' = CellsAfterStart(tag) /\ late' = late
        /\ scan' = IF Exceeded(count') \/ Len(open') > MaxDepth THEN "tooComplex"
                   ELSE IF ClockDue(count') /\ late # NotLate THEN "timeout"
                   ELSE IF TooWide(grids') \/ TooWide(cellsIn') THEN "tooComplex"
                   ELSE "reading"
    BY StartedIs DEF StartElement, Grows, NewNode, Around
  <1>5a. column \in Nat
    BY ConstantsAre DEF LastColumns
  <1>6. PICK node : node = NewNode(tag, value, column) /\ node.tag = tag /\ Grown(node)
    BY <1>2, <1>5, TreeGrows DEF NewNode
  <1>7. nodes' \in Seq([tag : Tags, value : Nat, column : Nat, parent : Nat]) /\ open' \in Seq(Nat) /\ IsTree'
    BY <1>1, <1>2, <1>4, <1>5, <1>5a, ConstantsAre, TreeStaysTree
  <1>8. /\ IsPath'
        /\ \A i \in 1..Len(nodes) : Depth(i)' = Depth(i)
        /\ \A i : i = Len(nodes) + 1 => Depth(i)' = Len(open) + 1
    BY <1>1, <1>2, <1>4, <1>5, <1>5a, ConstantsAre, PathStaysPath
  <1>9. OneSpan'
    BY <1>1, <1>2, <1>5, <1>5a, SpansStaySingle
  <1>10. Counted' /\ count' \in [Kinds -> Nat]
    <2>1. \A k \in Kinds : Total(k)' = Total(k) + AddedAtStart(tag)[k] /\ AddedAtStart(tag)[k] \in Nat
      <3> TAKE k \in Kinds
      <3>1. StartSum(k)' = StartSum(k) + AddedAtStart(tag)[k] /\ EndSum(k)' = EndSum(k)
        BY <1>2, <1>6, StartsAddUp
      <3>2. StartSum(k) \in Nat /\ EndSum(k) \in Nat /\ AddedAtStart(tag)[k] \in Nat
        BY <1>2, SumsAreNumbers, StartAdds
      <3> QED BY <3>1, <3>2 DEF Total
    <2> QED BY <1>1, <1>5, <2>1, CountsAdd DEF XmlTypes
  <1>11. TablesAfterStart(tag)
    BY <1>2, <1>5, TablesWhenStarted
  <1>12. TablesOpen' /\ StackTypes'
    BY <1>1, <1>2, <1>3, <1>5, <1>11, ConstantsAre, StacksWhenStarted DEF StackTypes
  <1>13. XmlTypes'
    BY <1>1, <1>5, <1>7, <1>10, <1>12 DEF XmlTypes, StackTypes
  <1>14. Shape'
    BY <1>7, <1>8, <1>13, ShapeHolds, PTL
  <1>15. Excessive' <=> Exceeded(count') \/ Len(open') > MaxDepth \/ TooWide(grids') \/ TooWide(cellsIn')
    <2>1. (Excessive <=> OverLimit \/ TooDeep \/ WideRange \/ WideTable \/ WideRow)'
      BY <1>14, ExcessiveIs, PTL
    <2>2. OverLimit' <=> Exceeded(count')
      <3>1. (Exceeded(count) <=> OverLimit)'
        BY <1>10, ExceededIs, PTL
      <3> QED BY <3>1 DEF Exceeded
    <2>3. TooDeep' <=> Len(open') > MaxDepth
      BY <1>2, <1>3, <1>6, <1>8, DepthsWhenStarted
    <2>4. (WideTable' <=> TooWide(grids')) /\ (WideRow' <=> TooWide(cellsIn'))
      BY <1>1, <1>2, <1>3, <1>4, <1>5, <1>11, <1>12, <1>14, ConstantsAre, WidthsWhenStarted
    <2>5. ~WideRange'
      BY <1>2, <1>3, <1>6, RangesWhenStarted
    <2> QED BY <2>1, <2>2, <2>3, <2>4, <2>5
  <1>16. ASSUME scan' = "reading" PROVE ClockSeen'
    <2>1. Len(nodes') = n + 1 /\ NotLate' = NotLate
      BY <1>4, <1>6 DEF Grown, NotLate
    <2>2. count'["elements"] = n + 1
      <3>1. CountsElements'
        BY <1>14, CountersCount, PTL
      <3>2. Total("elements")' = n + 1
        BY <2>1, <3>1 DEF CountsElements
      <3>3. "elements" \in Kinds
        BY DEF Kinds
      <3>4. count'["elements"] = Total("elements")'
        BY <1>10, <3>3 DEF Counted, Total
      <3> QED BY <3>2, <3>4
    <2>3. ASSUME late # NotLate
          PROVE  late <= n + 1 /\ (n + 1) - late <= (n + 1) % CheckEvery
      <3>1. late <= n /\ n - late <= n % CheckEvery /\ late \in Nat
        BY <1>1, <1>4, <2>3 DEF ClockSeen, XmlTypes
      <3>2. (n + 1) % CheckEvery # 0
        BY <1>5, <1>16, <2>2, <2>3 DEF ClockDue
      <3>3. (n + 1) % CheckEvery = (n % CheckEvery) + 1 /\ n % CheckEvery \in Nat
        <4>1. PICK c \in Nat \ {0} : c = CheckEvery
          BY ConstantsAre
        <4>2. (n + 1) % c = (n % c) + 1
          BY <3>2, <4>1, NextRemainder
        <4>3. n % c \in Nat
          BY <4>1, Remainder
        <4> QED BY <4>1, <4>2, <4>3
      <3> QED BY <3>1, <3>3
    <2>4. late' = late
      BY <1>5
    <2> QED BY <2>1, <2>3, <2>4 DEF ClockSeen, NotLate
  <1>17. scan' = "reading" => Reading'
    BY <1>7, <1>8, <1>9, <1>10, <1>12, <1>13, <1>16 DEF Reading
  <1>18. VerdictMatchesTree'
    BY <1>5, <1>15 DEF VerdictMatchesTree
  <1> QED BY <1>17, <1>18 DEF XmlInv
-----------------------------------------------------------------------------
(* The open tables when an element ends                                        *)

LEMMA PathTop ==
    ASSUME Shape, open # <<>>
    PROVE  \E m \in Nat \ {0} : m = Len(open) /\ DOMAIN open = 1..m /\ m \in 1..m
  <1>1. Len(open) \in Nat \ {0} /\ DOMAIN open = 1..Len(open)
    BY AroundIs DEF Shape
  <1>2. \A m \in Nat \ {0} : m \in 1..m
    OBVIOUS
  <1> QED BY <1>1, <1>2

\* The row of a span that ends is that of the table three steps up the path.
SpanKin ==
    Len(open) - 3 \in 1..Len(open) /\ nodes[open[Len(open) - 3]].tag = "tbl"
    /\ nodes[open[Len(open) - 2]].tag = "tr" /\ nodes[open[Len(open) - 1]].tag = "tc"

LEMMA SpanHasKin ==
    ASSUME Shape, IsTree, IsPath, open # <<>>, nodes[open[Len(open)]].tag = "gridSpan"
    PROVE  SpanKin
  <1>1. PICK m \in Nat \ {0} : m = Len(open) /\ DOMAIN open = 1..m /\ m \in 1..m
    BY PathTop
  <1>2. m - 1 \in 1..m /\ nodes[open[m - 1]].tag = "tc"
    BY <1>1, PathHasKin DEF PathKin
  <1>3. (m - 1) - 1 \in 1..m /\ nodes[open[(m - 1) - 1]].tag = "tr"
    BY <1>1, <1>2, PathHasKin DEF PathKin
  <1>4. ((m - 1) - 1) - 1 \in 1..m /\ nodes[open[((m - 1) - 1) - 1]].tag = "tbl"
    BY <1>1, <1>3, PathHasKin DEF PathKin
  <1>5. (m - 1) - 1 = m - 2 /\ ((m - 1) - 1) - 1 = m - 3
    OBVIOUS
  <1> QED BY <1>1, <1>2, <1>3, <1>4, <1>5 DEF SpanKin

TablesAfterEnd(e) ==
    /\ OpenTables' = OpenTables \ {Len(open)}
    /\ \A k \in 1..Len(open) - 1 : GridOf(k)' = GridOf(k)
    /\ \A k \in 1..Len(open) - 1 :
         IF nodes[e].tag = "tr" /\ k + 1 = Len(open) THEN RowOf(k)' = NoRow
         ELSE IF nodes[e].tag = "gridSpan" /\ k + 3 = Len(open) THEN RowOf(k)' \in Nat /\ RowOf(k)' + 1 = RowOf(k) + nodes[e].value
         ELSE RowOf(k)' = RowOf(k)

LEMMA TablesWhenEnded ==
    ASSUME Shape, IsTree, IsPath, OneSpan, open # <<>>, NEW e, Shrunk(e)
    PROVE  TablesAfterEnd(e)
  <1>1. PICK n \in Nat, m \in Nat \ {0} : n = Len(nodes) /\ DOMAIN nodes = 1..n /\ m = Len(open) /\ DOMAIN open = 1..m /\ m \in 1..m
    <2>1. PICK m \in Nat \ {0} : m = Len(open) /\ DOMAIN open = 1..m /\ m \in 1..m
      BY PathTop
    <2> QED BY <2>1 DEF Shape
  <1>2. /\ nodes' = nodes /\ e = open[m] /\ e \in 1..n
        /\ DOMAIN open' = 1..m - 1 /\ \A k \in 1..m - 1 : open'[k] = open[k]
    BY <1>1 DEF Shrunk
  <1>3. OpenTables' = OpenTables \ {m}
    <2>1. OpenTables' = {k \in 1..m - 1 : nodes[open[k]].tag = "tbl"}
      BY <1>2 DEF OpenTables
    <2>2. OpenTables = {k \in 1..m : nodes[open[k]].tag = "tbl"}
      BY <1>1 DEF OpenTables
    <2> QED BY <2>1, <2>2
  <1>4. ASSUME NEW k \in 1..m - 1 PROVE GridOf(k)' = GridOf(k)
    <2>1. \A p : Under(p, "gridCol")' = Under(p, "gridCol")
      BY EndedGrows
    <2> QED BY <1>2, <2>1 DEF GridOf
  <1>5. ASSUME NEW k \in 1..m - 1
        PROVE  IF nodes[e].tag = "tr" /\ k + 1 = m THEN RowOf(k)' = NoRow
               ELSE IF nodes[e].tag = "gridSpan" /\ k + 3 = m THEN RowOf(k)' \in Nat /\ RowOf(k)' + 1 = RowOf(k) + nodes[e].value
               ELSE RowOf(k)' = RowOf(k)
    <2>1. CASE k + 1 = m
      <3>1. RowOf(k)' = NoRow
        BY <1>2, <2>1 DEF RowOf, NoRow
      <3>2. RowOf(k) = IF nodes[e].tag = "tr" THEN RowWidth(e) ELSE NoRow
        BY <1>1, <1>2, <2>1 DEF RowOf
      <3> QED BY <2>1, <3>1, <3>2
    <2>2. CASE k + 1 # m
      <3>1. k + 1 \in 1..m - 1
        BY <2>2
      <3>2. PICK r : r = open[k + 1] /\ r = open'[k + 1] /\ r \in 1..n
        BY <1>1, <1>2, <3>1 DEF Shape
      <3>3. RowOf(k) = IF nodes[r].tag = "tr" THEN RowWidth(r) ELSE NoRow
        BY <1>1, <3>1, <3>2 DEF RowOf
      <3>4. RowOf(k)' = IF nodes[r].tag = "tr" THEN RowWidth(r)' ELSE NoRow
        BY <1>2, <3>1, <3>2 DEF RowOf, NoRow
      <3>5. /\ RowWidth(r)' \in Nat
            /\ IF nodes[e].tag = "gridSpan" /\ nodes[e].parent \in Under(r, "tc")
               THEN RowWidth(r)' + 1 = RowWidth(r) + nodes[e].value
               ELSE RowWidth(r)' = RowWidth(r)
        BY RowOfSpanned
      <3>6. ASSUME nodes[e].tag = "gridSpan"
            PROVE  /\ nodes[e].parent \in Under(r, "tc") <=> k + 3 = m
                   /\ k + 3 = m => nodes[r].tag = "tr"
        <4>1. SpanKin
          BY <1>1, <1>2, <3>6, AroundIs, SpanHasKin
        <4>2. m - 2 \in 1..m /\ m - 1 \in 1..m /\ m - 3 \in 1..m
          BY <1>1, <4>1 DEF SpanKin
        <4>3. nodes[e].parent = open[m - 1] /\ nodes[open[m - 1]].parent = open[m - 2]
          <5>1. \A j \in 1..m : nodes[open[j]].parent = IF j = 1 THEN 0 ELSE open[j - 1]
            BY <1>1 DEF IsPath
          <5>2. (m - 1) - 1 = m - 2 /\ m # 1 /\ m - 1 # 1
            BY <4>2
          <5>3. nodes[open[m]].parent = open[m - 1] /\ nodes[open[m - 1]].parent = open[(m - 1) - 1]
            BY <1>1, <4>2, <5>1, <5>2
          <5> QED BY <1>2, <5>2, <5>3
        <4>4. open[m - 1] \in 1..n /\ nodes[open[m - 1]].tag = "tc"
          BY <1>1, <4>1, <4>2 DEF SpanKin, Shape
        <4>5. nodes[e].parent \in Under(r, "tc") <=> open[m - 2] = r
          BY <1>1, <4>3, <4>4 DEF Under, Tagged
        <4>6. open[m - 2] = open[k + 1] <=> k + 1 = m - 2
          <5>1. \A i, j \in 1..m : i < j => open[i] < open[j]
            BY <1>1 DEF Shape
          <5>2. open[m - 2] \in Nat /\ open[k + 1] \in Nat
            <6>1. \A j \in 1..m : open[j] \in 1..n
              BY <1>1 DEF Shape
            <6>2. open[m - 2] \in 1..n /\ open[k + 1] \in 1..n
              BY <3>2, <4>2, <6>1
            <6> QED BY <6>2
          <5>3. k + 1 \in 1..m
            BY <3>1
          <5>4. k + 1 < m - 2 => open[k + 1] < open[m - 2]
            BY <4>2, <5>1, <5>3
          <5>5. m - 2 < k + 1 => open[m - 2] < open[k + 1]
            BY <4>2, <5>1, <5>3
          <5> QED BY <4>2, <5>2, <5>3, <5>4, <5>5
        <4>7. k + 1 = m - 2 <=> k + 3 = m
          OBVIOUS
        <4> QED BY <1>1, <3>2, <4>1, <4>5, <4>6, <4>7 DEF SpanKin
      <3> QED BY <2>2, <3>3, <3>4, <3>5, <3>6
    <2> QED BY <2>1, <2>2
  <1> QED BY <1>1, <1>3, <1>4, <1>5 DEF TablesAfterEnd

\* Of the tables in the path the last is the largest.
LEMMA InnermostTable ==
    ASSUME Shape, IsTree, IsPath, open # <<>>
    PROVE  /\ nodes[open[Len(open)]].tag = "tr" => Innermost(Len(open) - 1)
           /\ nodes[open[Len(open)]].tag = "gridSpan" => Innermost(Len(open) - 3)
           /\ nodes[open[Len(open)]].tag \in {"tr", "gridSpan"} => Len(open) \notin OpenTables
  <1>1. PICK m \in Nat \ {0} : m = Len(open) /\ DOMAIN open = 1..m /\ m \in 1..m
    BY PathTop
  <1>2. \A k : k \in OpenTables <=> k \in 1..m /\ nodes[open[k]].tag = "tbl"
    BY <1>1, TablesAreOpen DEF TablesAmong
  <1>3. ASSUME nodes[open[m]].tag = "tr" PROVE Innermost(m - 1)
    <2>1. m - 1 \in 1..m /\ nodes[open[m - 1]].tag = "tbl"
      BY <1>1, <1>3, PathHasKin DEF PathKin
    <2>2. \A j \in OpenTables : j <= m - 1
      BY <1>2, <1>3
    <2> QED BY <1>2, <2>1, <2>2 DEF Innermost
  <1>4. ASSUME nodes[open[m]].tag = "gridSpan" PROVE Innermost(m - 3)
    <2>1. SpanKin
      BY <1>1, <1>4, SpanHasKin
    <2>2. \A j \in OpenTables : j \in 1..m /\ j # m /\ j # m - 1 /\ j # m - 2
      BY <1>1, <1>2, <1>4, <2>1 DEF SpanKin
    <2>3. \A j \in OpenTables : j <= m - 3
      BY <2>2
    <2> QED BY <1>1, <1>2, <2>1, <2>3 DEF Innermost, SpanKin
  <1> QED BY <1>1, <1>2, <1>3, <1>4

LEMMA StacksWhenEnded ==
    ASSUME XmlTypes, IsTree, IsPath, Shape, TablesOpen, ~WideTable, ~WideRow, {MaxColumns, MaxNodes} \subseteq Nat,
           NEW e, Shrunk(e), open # <<>>, TablesAfterEnd(e), nodes[e].tag = "gridSpan" => nodes[e].value # 0,
           grids' = IF nodes[e].tag = "tbl" /\ grids # <<>> THEN Front(grids) ELSE grids,
           cellsIn' = CellsAfterEnd(nodes[e].tag, nodes[e].value)
    PROVE  TablesOpen' /\ StackTypes'
  <1>1. PICK m \in Nat \ {0} : m = Len(open) /\ DOMAIN open = 1..m /\ m \in 1..m
    BY PathTop
  <1>2. PICK U : /\ U = OpenTables /\ U \in SUBSET Nat /\ U \subseteq 1..m /\ IsFiniteSet(U)
                 /\ U = {k \in 1..m : nodes[open[k]].tag = "tbl"} /\ \A k \in U : k <= m
    BY <1>1, TablesAreOpen DEF TablesAmong
  <1>3. PICK g, r : g = [k \in U |-> GridOf(k)] /\ r = [k \in U |-> RowOf(k)]
    OBVIOUS
  <1>4. Stacked(U, grids, g) /\ Stacked(U, cellsIn, r) /\ grids \in Seq(Nat) /\ cellsIn \in Seq(Nat)
    BY <1>2, <1>3 DEF TablesOpen, XmlTypes
  <1>5. PICK V : V = OpenTables' /\ V = U \ {m}
    BY <1>1, <1>2 DEF TablesAfterEnd
  <1>6. PICK h, q : h = [k \in V |-> GridOf(k)'] /\ q = [k \in V |-> RowOf(k)']
    OBVIOUS
  <1>7. ASSUME Stacked(V, grids', h), Stacked(V, cellsIn', q), grids' \in Seq(Nat), cellsIn' \in Seq(Nat)
        PROVE  TablesOpen' /\ StackTypes'
    BY <1>5, <1>6, <1>7 DEF TablesOpen, Stacked, StackTypes
  <1>8. NoRow \in Nat /\ \A k : GridOf(k) \in Nat /\ RowOf(k) \in Nat
    BY TablesAreNumbers
  <1>9. PICK tag, value : tag = nodes[e].tag /\ value = nodes[e].value /\ e = open[m] /\ value \in Nat
    BY <1>1 DEF Shrunk, Shape
  <1>10. \A k \in V : k \in U /\ k \in 1..m - 1 /\ k # m
    BY <1>2, <1>5
  <1>11. \A k \in V : h[k] = g[k]
    BY <1>1, <1>3, <1>6, <1>10 DEF TablesAfterEnd
  <1>12. \A k \in V : IF tag = "tr" /\ k + 1 = m THEN q[k] = NoRow
                      ELSE IF tag = "gridSpan" /\ k + 3 = m THEN q[k] \in Nat /\ q[k] + 1 = r[k] + value
                      ELSE q[k] = r[k]
    <2> TAKE k \in V
    <2>1. k \in 1..m - 1 /\ q[k] = RowOf(k)' /\ r[k] = RowOf(k)
      BY <1>3, <1>6, <1>10
    <2> QED BY <1>1, <1>9, <2>1 DEF TablesAfterEnd
  <1>13. CASE tag = "tbl"
    <2>1. m \in U /\ \A k \in V : q[k] = r[k]
      BY <1>1, <1>2, <1>9, <1>12, <1>13
    <2>2. grids # <<>> /\ Front(grids) \in Seq(Nat) /\ Stacked(V, Front(grids), h)
      <3>1. /\ U \in SUBSET Nat /\ IsFiniteSet(U) /\ (\A k \in U : k <= m) /\ m \in U /\ grids \in Seq(Nat)
            /\ Stacked(U, grids, g) /\ V = U \ {m} /\ \A k \in V : h[k] = g[k]
        BY <1>2, <1>4, <1>5, <1>11, <2>1
      <3> QED BY ONLY <3>1, m \in Nat \ {0}, PopStack
    <2>3. cellsIn # <<>> /\ Front(cellsIn) \in Seq(Nat) /\ Stacked(V, Front(cellsIn), q)
      <3>1. /\ U \in SUBSET Nat /\ IsFiniteSet(U) /\ (\A k \in U : k <= m) /\ m \in U /\ cellsIn \in Seq(Nat)
            /\ Stacked(U, cellsIn, r) /\ V = U \ {m} /\ \A k \in V : q[k] = r[k]
        BY <1>2, <1>4, <1>5, <2>1
      <3> QED BY ONLY <3>1, m \in Nat \ {0}, PopStack
    <2>4. grids' = Front(grids) /\ cellsIn' = Front(cellsIn)
      BY <1>9, <1>13, <2>2, <2>3 DEF CellsAfterEnd
    <2> QED BY <1>7, <2>2, <2>3, <2>4
  <1>14. CASE tag = "tr"
    <2>1. PICK k : k = m - 1 /\ k + 1 = m /\ k \in U /\ (\A j \in U : j <= k) /\ m \notin U
      <3>1. Innermost(m - 1) /\ m \notin U /\ (m - 1) + 1 = m
        BY <1>1, <1>2, <1>9, <1>14, InnermostTable
      <3> QED BY <1>2, <3>1 DEF Innermost
    <2>2. V = U /\ q[k] = NoRow /\ \A j \in U \ {k} : q[j] = r[j]
      <3>1. V = U
        BY <1>5, <2>1
      <3>2. \A j \in U \ {k} : j + 1 # m
        BY <1>2, <2>1
      <3> QED BY <1>12, <1>14, <2>1, <3>1, <3>2
    <2>3. cellsIn # <<>> /\ SetLast(cellsIn, NoRow) \in Seq(Nat) /\ Stacked(U, SetLast(cellsIn, NoRow), q)
      <3>1. /\ U \in SUBSET Nat /\ IsFiniteSet(U) /\ k \in U /\ (\A j \in U : j <= k) /\ cellsIn \in Seq(Nat) /\ Stacked(U, cellsIn, r)
            /\ NoRow \in Nat /\ q[k] = NoRow /\ \A j \in U \ {k} : q[j] = r[j]
        BY <1>2, <1>4, <1>8, <2>1, <2>2
      <3> QED BY ONLY <3>1, SetStack
    <2>4. grids' = grids /\ cellsIn' = SetLast(cellsIn, NoRow)
      BY <1>9, <1>14, <2>3 DEF CellsAfterEnd
    <2>5. Stacked(V, grids, h)
      BY <1>4, <1>11, <2>2, StackedSame
    <2> QED BY <1>4, <1>7, <2>2, <2>3, <2>4, <2>5
  <1>15. CASE tag = "gridSpan"
    <2>1. PICK k : k = m - 3 /\ k + 3 = m /\ k \in U /\ (\A j \in U : j <= k) /\ m \notin U
      <3>1. Innermost(m - 3) /\ m \notin U /\ (m - 3) + 3 = m
        BY <1>1, <1>2, <1>9, <1>15, InnermostTable
      <3> QED BY <1>2, <3>1 DEF Innermost
    <2>2. V = U /\ q[k] \in Nat /\ q[k] + 1 = r[k] + value /\ \A j \in U \ {k} : q[j] = r[j]
      <3>1. V = U
        BY <1>5, <2>1
      <3>2. \A j \in U \ {k} : j + 3 # m
        BY <1>2, <2>1
      <3> QED BY <1>12, <1>15, <2>1, <3>1, <3>2
    <2>3. r[k] \in Nat /\ r[k] # NoRow
      <3>1. SpanKin
        BY <1>1, <1>9, <1>15, SpanHasKin
      <3>2. PICK j : j = m - 2 /\ j = k + 1 /\ j \in 1..m /\ nodes[open[j]].tag = "tr"
        BY <1>1, <2>1, <3>1 DEF SpanKin
      <3>3. RowOf(k) = RowWidth(open[j]) /\ RowWidth(open[j]) <= MaxColumns
        BY <1>1, <3>2, RowsAreNarrow DEF RowOf
      <3>4. r[k] = RowOf(k) /\ r[k] \in Nat
        BY <1>3, <1>8, <2>1
      <3> QED BY <3>3, <3>4, RowsAreNarrow
    <2>4. r[k] + value - 1 \in Nat /\ q[k] = r[k] + value - 1
      <3>1. value # 0
        BY <1>9, <1>15
      <3> QED BY <1>9, <2>2, <2>3, <3>1
    <2>5. /\ cellsIn # <<>> /\ Last(cellsIn) = r[k]
          /\ SetLast(cellsIn, r[k] + value - 1) \in Seq(Nat) /\ Stacked(U, SetLast(cellsIn, r[k] + value - 1), q)
      <3>1. /\ U \in SUBSET Nat /\ IsFiniteSet(U) /\ k \in U /\ (\A j \in U : j <= k) /\ cellsIn \in Seq(Nat) /\ Stacked(U, cellsIn, r)
            /\ r[k] + value - 1 \in Nat /\ q[k] = r[k] + value - 1 /\ \A j \in U \ {k} : q[j] = r[j]
        BY <1>2, <1>4, <2>1, <2>2, <2>4
      <3> QED BY ONLY <3>1, SetStack
    <2>6. grids' = grids /\ cellsIn' = SetLast(cellsIn, r[k] + value - 1)
      BY <1>9, <1>15, <2>3, <2>5 DEF CellsAfterEnd
    <2>7. Stacked(V, grids, h)
      BY <1>4, <1>11, <2>2, StackedSame
    <2> QED BY <1>4, <1>7, <2>2, <2>5, <2>6, <2>7
  <1>16. CASE tag \notin {"tbl", "tr", "gridSpan"}
    <2>1. V = U /\ \A k \in V : q[k] = r[k]
      <3>1. m \notin U
        BY <1>2, <1>9, <1>16
      <3> QED BY <1>5, <1>12, <1>16, <3>1
    <2>2. grids' = grids /\ cellsIn' = cellsIn
      BY <1>9, <1>16 DEF CellsAfterEnd
    <2>3. Stacked(V, grids, h) /\ Stacked(V, cellsIn, q)
      BY <1>4, <1>11, <2>1, StackedSame
    <2> QED BY <1>4, <1>7, <2>2, <2>3
  <1> QED BY <1>13, <1>14, <1>15, <1>16
-----------------------------------------------------------------------------
(* The invariant of the pass                                                   *)

LEMMA PathStaysWhenEnded ==
    ASSUME XmlTypes, IsTree, IsPath, OneSpan, Shape, NEW e, Shrunk(e), open' = Front(open)
    PROVE  /\ open' \in Seq(Nat) /\ IsTree' /\ IsPath' /\ OneSpan'
           /\ \A t : Tagged(t)' = Tagged(t)
           /\ TooDeep' <=> TooDeep
           /\ WideTable' <=> WideTable
  <1>1. PICK m \in Nat \ {0} : m = Len(open) /\ DOMAIN open = 1..m
    BY DEF Shape, Shrunk
  <1>2. /\ nodes' = nodes /\ DOMAIN open' = 1..m - 1 /\ Len(open') = m - 1
        /\ \A k \in 1..m - 1 : open'[k] = open[k]
    BY <1>1 DEF Shrunk
  <1>3. open' \in Seq(Nat)
    <2>1. \A k \in 1..m : open[k] \in Nat
      BY <1>1, ElementOfSeq DEF XmlTypes
    <2>2. open' = SubSeq(open, 1, m - 1)
      BY <1>1 DEF Front
    <2>3. open' = [k \in 1..m - 1 |-> open[k]]
      BY <1>1, <2>2 DEF XmlTypes
    <2>4. open' \in [1..m - 1 -> Nat] /\ m - 1 \in Nat
      BY <2>1, <2>3
    <2> QED BY <2>4, FunctionIsSeq
  <1>4. IsTree'
    BY <1>2 DEF IsTree
  <1>5. /\ \A t : Tagged(t)' = Tagged(t)
        /\ \A p, t : Under(p, t)' = Under(p, t)
        /\ \A i : Depth(i)' = Depth(i)
    BY <1>2 DEF Tagged, Under, Depth
  <1>6. IsPath'
    <2> SUFFICES ASSUME NEW k \in 1..m - 1
                 PROVE  /\ open'[k] \in DOMAIN nodes
                        /\ nodes[open'[k]].parent = IF k = 1 THEN 0 ELSE open'[k - 1]
                        /\ \A j \in 1..k - 1 : open'[j] < open'[k]
                        /\ Depth(open[k])' = k
      BY <1>2 DEF IsPath
    <2>1. k \in 1..m /\ open'[k] = open[k] /\ (k # 1 => k - 1 \in 1..m - 1) /\ 1..k - 1 \subseteq 1..m - 1
      BY <1>2
    <2>2. /\ open[k] \in DOMAIN nodes
          /\ nodes[open[k]].parent = IF k = 1 THEN 0 ELSE open[k - 1]
          /\ \A j \in 1..k - 1 : open[j] < open[k]
          /\ Depth(open[k]) = k
      BY <1>1, <2>1 DEF IsPath
    <2>3. PICK i : i = open[k]
      OBVIOUS
    <2>4. Depth(open[k])' = Depth(i)'
      BY <2>1, <2>3
    <2> QED BY <1>2, <1>5, <2>1, <2>2, <2>3, <2>4
  <1>7. OneSpan'
    BY <1>2, <1>5 DEF OneSpan
  <1>8. (TooDeep' <=> TooDeep) /\ (WideTable' <=> WideTable)
    BY <1>2, <1>5 DEF TooDeep, WideTable
  <1> QED BY <1>3, <1>4, <1>5, <1>6, <1>7, <1>8

LEMMA WidthsWhenEnded ==
    ASSUME Shape, IsTree, IsPath, OneSpan, ~WideTable, ~WideRow, {MaxColumns, MaxNodes} \subseteq Nat, Len(nodes) <= MaxNodes,
           Shape', TablesOpen', StackTypes', open # <<>>,
           NEW e, Shrunk(e), TablesAfterEnd(e), nodes[e].value <= 2, \A t : Tagged(t)' = Tagged(t)
    PROVE  WideRow' <=> TooWide(cellsIn')
  <1>1. PICK n \in Nat, m \in Nat \ {0} : n = Len(nodes) /\ DOMAIN nodes = 1..n /\ m = Len(open) /\ DOMAIN open = 1..m /\ m \in 1..m
    <2>1. PICK m \in Nat \ {0} : m = Len(open) /\ DOMAIN open = 1..m /\ m \in 1..m
      BY PathTop
    <2> QED BY <2>1 DEF Shape
  <1>2. e = open[m] /\ e \in 1..n /\ DOMAIN open' = 1..m - 1 /\ nodes' = nodes /\ \A k \in 1..m - 1 : open'[k] = open[k]
    BY <1>1 DEF Shrunk
  <1>3. /\ TooWide(cellsIn') => WideRow'
        /\ \A k : Innermost(k)' => (TooWide(cellsIn') <=> RowOf(k)' # NoRow /\ RowOf(k)' > MaxColumns)
    <2>1. WidthsSeen'
      BY WideNow, PTL
    <2> QED BY <2>1 DEF WidthsSeen, TooWide, NoRow
  <1>4. ASSUME WideRow' PROVE TooWide(cellsIn')
    <2>1. PICK r \in Tagged("tr") : RowWidth(r)' > MaxColumns
      BY <1>4 DEF WideRow
    <2>2. RowWidth(r) \in Nat /\ RowWidth(r) <= MaxColumns
      <3>1. ~(RowWidth(r) > MaxColumns)
        BY DEF WideRow
      <3>2. RowWidth(r) \in Nat
        BY NodeSets
      <3> QED BY <3>1, <3>2
    <2>3. RowWidth(r)' # RowWidth(r)
      BY <2>1, <2>2
    <2>4. /\ nodes[e].tag = "gridSpan" /\ nodes[e].parent \in Under(r, "tc")
          /\ RowWidth(r)' + 1 = RowWidth(r) + nodes[e].value /\ RowWidth(r)' \in Nat
      BY <2>3, RowOfSpanned
    <2>5. SpanKin /\ Innermost(m - 3) /\ m \notin OpenTables
      BY <1>1, <1>2, <2>4, SpanHasKin, InnermostTable
    <2>6. m - 3 \in 1..m /\ m - 2 \in 1..m /\ m - 1 \in 1..m /\ m - 3 \in 1..m - 1 /\ m - 2 \in 1..m - 1
      BY <1>1, <2>5 DEF SpanKin
    <2>7. r = open[m - 2]
      <3>1. \A j \in 1..m : nodes[open[j]].parent = IF j = 1 THEN 0 ELSE open[j - 1]
        BY <1>1 DEF IsPath
      <3>2. (m - 1) - 1 = m - 2 /\ m # 1 /\ m - 1 # 1
        BY <2>6
      <3>3. nodes[open[m]].parent = open[m - 1] /\ nodes[open[m - 1]].parent = open[m - 2]
        BY <1>1, <2>6, <3>1, <3>2
      <3> QED BY <1>2, <2>4, <3>3 DEF Under
    <2>8. PICK k : k = m - 3 /\ k + 1 = m - 2 /\ k \in 1..m - 1 /\ k + 1 \in 1..m - 1
      BY <2>6
    <2>9. Innermost(k)'
      <3>1. OpenTables' = OpenTables
        BY <1>1, <2>5 DEF TablesAfterEnd
      <3> QED BY <2>5, <2>8, <3>1 DEF Innermost
    <2>10. RowOf(k)' = RowWidth(r)'
      <3>1. nodes[open[k + 1]].tag = "tr" /\ open'[k + 1] = r
        BY <1>1, <1>2, <2>5, <2>7, <2>8 DEF SpanKin
      <3> QED BY <1>2, <2>7, <2>8, <3>1 DEF RowOf
    <2>11. RowWidth(r)' # NoRow
      <3>1. nodes[e].value \in Nat /\ MaxNodes > 0
        BY <1>1, <1>2 DEF Shape
      <3>2. RowWidth(r)' <= MaxColumns + 1
        BY <2>2, <2>4, <3>1
      <3> QED BY <2>4, <3>1, <3>2 DEF NoRow
    <2> QED BY <1>3, <2>1, <2>9, <2>10, <2>11
  <1> QED BY <1>3, <1>4

LEMMA XmlEnd ==
    ASSUME XmlInv, EndElement
    PROVE  XmlInv'
  <1>1. /\ XmlTypes /\ IsTree /\ IsPath /\ OneSpan /\ Counted /\ TablesOpen /\ ClockSeen
        /\ scan = "reading" /\ ~Excessive
    BY DEF EndElement, XmlInv, Reading, VerdictMatchesTree
  <1>2. Shape /\ Numbered(nodes)
    BY <1>1, ShapeHolds
  <1>3. ~OverLimit /\ ~TooDeep /\ ~WideRange /\ ~WideTable /\ ~WideRow
    BY <1>1, <1>2, ExcessiveIs
  <1>4. PICK e : e = Last(open) /\ Shrunk(e)
    BY <1>2, PathShrinks DEF EndElement
  <1>5. /\ open # <<>> /\ open' = Front(open)
        /\ count' = Plus(count, AddedAtEnd(nodes[e].tag, nodes[e].value))
        /\ nodes' = nodes /\ late' = late
        /\ grids' = IF nodes[e].tag = "tbl" /\ grids # <<>> THEN Front(grids) ELSE grids
    BY <1>4 DEF EndElement
  <1>6. CASE nodes[e].tag \in {"gridSpan", "mergeCell"} /\ nodes[e].value = 0
    <2>1. scan' = "invalid"
      BY <1>4, <1>6 DEF EndElement
    <2> QED BY <2>1 DEF XmlInv, VerdictMatchesTree
  <1>7. CASE ~(nodes[e].tag \in {"gridSpan", "mergeCell"} /\ nodes[e].value = 0)
    <2>1. /\ cellsIn' = CellsAfterEnd(nodes[e].tag, nodes[e].value)
          /\ scan' = IF Exceeded(count') \/ TooWide(cellsIn') \/ Beyond(nodes[e]) THEN "tooComplex" ELSE "reading"
      BY <1>4, <1>7 DEF EndElement
    <2>2. /\ open' \in Seq(Nat) /\ IsTree' /\ IsPath' /\ OneSpan'
          /\ \A t : Tagged(t)' = Tagged(t)
          /\ ~TooDeep' /\ ~WideTable'
      BY <1>1, <1>2, <1>3, <1>4, <1>5, PathStaysWhenEnded
    <2>3. Counted' /\ count' \in [Kinds -> Nat]
      <3>1. PICK a : a = AddedAtEnd(nodes[e].tag, nodes[e].value)
        OBVIOUS
      <3>2. \A k \in Kinds : Total(k)' = Total(k) + a[k] /\ a[k] \in Nat
        <4> TAKE k \in Kinds
        <4>1. StartSum(k)' = StartSum(k) /\ EndSum(k)' = EndSum(k) + a[k]
          BY <1>2, <1>4, <3>1, EndsAddUp
        <4>2. nodes[e].value \in Nat
          BY <1>2, <1>4 DEF Shape, Shrunk
        <4>3. StartSum(k) \in Nat /\ EndSum(k) \in Nat /\ a[k] \in Nat
          BY <1>2, <3>1, <4>2, SumsAreNumbers, EndAdds
        <4> QED BY <4>1, <4>3 DEF Total
      <3> QED BY <1>1, <1>5, <3>1, <3>2, CountsAdd DEF XmlTypes
    <2>4. TablesAfterEnd(e)
      BY <1>1, <1>2, <1>4, <1>5, TablesWhenEnded
    <2>5. TablesOpen' /\ StackTypes'
      BY <1>1, <1>2, <1>3, <1>4, <1>5, <1>7, <2>1, <2>4, ConstantsAre, StacksWhenEnded
    <2>6. XmlTypes'
      BY <1>1, <1>5, <2>2, <2>3, <2>5 DEF XmlTypes, StackTypes
    <2>7. Shape'
      BY <2>2, <2>6, ShapeHolds, PTL
    <2>8. Excessive' <=> Exceeded(count') \/ TooWide(cellsIn') \/ Beyond(nodes[e])
      <3>1. (Excessive <=> OverLimit \/ TooDeep \/ WideRange \/ WideTable \/ WideRow)'
        BY <2>7, ExcessiveIs, PTL
      <3>2. OverLimit' <=> Exceeded(count')
        <4>1. (Exceeded(count) <=> OverLimit)'
          BY <2>3, ExceededIs, PTL
        <4> QED BY <4>1 DEF Exceeded
      <3>3. nodes[e].value <= 2 /\ Len(nodes) <= MaxNodes
        <4>1. nodes[e].value \in Values(nodes[e].tag)
          BY <1>1, <1>4 DEF IsTree, Shrunk
        <4> QED BY <1>1, <4>1, ValuesAreNumbers DEF IsTree
      <3>4. WideRow' <=> TooWide(cellsIn')
        BY <1>1, <1>2, <1>3, <1>4, <1>5, <2>2, <2>4, <2>5, <2>7, <3>3, ConstantsAre, WidthsWhenEnded
      <3>5. WideRange' <=> Beyond(nodes[e])
        BY <1>2, <1>3, <1>4, RangesWhenEnded
      <3> QED BY <2>2, <3>1, <3>2, <3>4, <3>5
    <2>9. ClockSeen'
      BY <1>1, <1>5 DEF ClockSeen, NotLate
    <2>10. Reading'
      BY <2>2, <2>3, <2>5, <2>6, <2>9 DEF Reading
    <2>11. VerdictMatchesTree'
      BY <2>1, <2>8 DEF VerdictMatchesTree
    <2> QED BY <2>10, <2>11 DEF XmlInv
  <1> QED BY <1>6, <1>7

\* What is read does not change when the scan stops or the deadline passes.
LEMMA SameTree ==
    ASSUME UNCHANGED <<nodes, open, count, grids, cellsIn>>
    PROVE  /\ Excessive' <=> Excessive
           /\ XmlTypes /\ late' \in Nat => XmlTypes'
           /\ IsTree' <=> IsTree
           /\ IsPath' <=> IsPath
           /\ OneSpan' <=> OneSpan
           /\ Counted' <=> Counted
           /\ TablesOpen' <=> TablesOpen
  <1>1. \A t : Tagged(t)' = Tagged(t)
    BY DEF Tagged
  <1>2. \A p, t : Under(p, t)' = Under(p, t)
    BY <1>1 DEF Under
  <1>3. \A S : Ended(S)' = Ended(S) /\ TotalValue(S)' = TotalValue(S)
    BY DEF Ended, TotalValue
  <1>4. \A i : Depth(i)' = Depth(i)
    BY DEF Depth
  <1>5. \A r : RowWidth(r)' = RowWidth(r)
    BY DEF RowWidth, CellWidth, TotalValue, Ended, Under, Tagged
  <1>6. Excessive' <=> Excessive
    BY DEF Excessive, Tagged, Under, Ended, TotalValue, Depth, RowWidth, CellWidth
  <1>7. XmlTypes /\ late' \in Nat => XmlTypes'
    BY DEF XmlTypes
  <1>8. (IsTree' <=> IsTree) /\ (IsPath' <=> IsPath) /\ (OneSpan' <=> OneSpan)
    BY <1>1, <1>4 DEF IsTree, IsPath, OneSpan
  <1>9. Counted' <=> Counted
    BY DEF Counted, StartSum, EndSum, Ended
  <1>10. TablesOpen' <=> TablesOpen
    <2>1. OpenTables' = OpenTables
      BY DEF OpenTables
    <2>2. \A k : GridOf(k)' = GridOf(k)
      BY <1>2 DEF GridOf
    <2>3. \A k : RowOf(k)' = RowOf(k)
      <3> TAKE k
      <3>1. PICK r : r = open[k + 1]
        OBVIOUS
      <3>2. RowWidth(open[k + 1])' = RowWidth(r)'
        BY <3>1
      <3> QED BY <1>5, <3>1, <3>2 DEF RowOf, NoRow
    <2>4. TablesOpen' <=> Stacked(OpenTables, grids, [k \in OpenTables |-> GridOf(k)']) /\ Stacked(OpenTables, cellsIn, [k \in OpenTables |-> RowOf(k)'])
      BY <2>1 DEF TablesOpen, Stacked
    <2> QED BY <2>2, <2>3, <2>4 DEF TablesOpen
  <1> QED BY <1>6, <1>7, <1>8, <1>9, <1>10

LEMMA XmlStep ==
    ASSUME XmlInv, [XmlNext]_xmlVars
    PROVE  XmlInv'
  <1>1. CASE \E tag \in Tags : \E value \in Values(tag), column \in LastColumns(tag) : StartElement(tag, value, column)
    BY <1>1, XmlStart
  <1>2. CASE EndElement
    BY <1>2, XmlEnd
  <1>3. CASE InvalidXml
    BY <1>3 DEF InvalidXml, XmlInv, VerdictMatchesTree
  <1>4. CASE Accept
    <2>1. UNCHANGED <<nodes, open, count, grids, cellsIn>> /\ scan = "reading" /\ scan' = "accepted"
      BY <1>4 DEF Accept
    <2>2. Excessive' <=> Excessive
      BY <2>1, SameTree
    <2> QED BY <2>1, <2>2 DEF XmlInv, VerdictMatchesTree
  <1>5. CASE DeadlinePasses
    <2>1. UNCHANGED <<nodes, open, count, grids, cellsIn>> /\ scan' = scan /\ scan = "reading" /\ late' = Len(nodes)
      BY <1>5 DEF DeadlinePasses
    <2>2. Reading
      BY <2>1 DEF XmlInv
    <2>3. Excessive' <=> Excessive
      BY <2>1, SameTree
    <2>4. Len(nodes) \in Nat
      BY <2>2, LenProperties DEF Reading, XmlTypes
    <2>5. ClockSeen'
      <3>1. Len(nodes) % CheckEvery \in Nat
        BY <2>4, ConstantsAre, Remainder
      <3>2. Len(nodes') = Len(nodes) /\ late' = Len(nodes)
        BY <2>1
      <3> QED BY <2>4, <3>1, <3>2 DEF ClockSeen
    <2>6. XmlTypes' /\ IsTree' /\ IsPath' /\ OneSpan' /\ Counted' /\ TablesOpen'
      BY <2>1, <2>2, <2>4, SameTree DEF Reading
    <2>7. Reading'
      BY <2>5, <2>6 DEF Reading
    <2> QED BY <2>1, <2>3, <2>7 DEF XmlInv, VerdictMatchesTree
  <1>6. CASE UNCHANGED xmlVars
    <2>1. UNCHANGED <<nodes, open, count, grids, cellsIn>> /\ scan' = scan /\ late' = late
      BY <1>6 DEF xmlVars
    <2>2. Excessive' <=> Excessive
      BY <2>1, SameTree
    <2>3. Reading => Reading'
      <3>1. ClockSeen => ClockSeen'
        BY <2>1 DEF ClockSeen, NotLate
      <3>2. XmlTypes => late' \in Nat
        BY <2>1 DEF XmlTypes
      <3> QED BY <2>1, <3>1, <3>2, SameTree DEF Reading
    <2> QED BY <2>1, <2>2, <2>3 DEF XmlInv, VerdictMatchesTree
  <1>7. CASE NextFile
    <2>1. /\ UNCHANGED <<nodes, open, count, grids, cellsIn>> /\ late' = late
          /\ scan = "reading" /\ scan' \in {"reading", "timeout"}
      BY <1>7 DEF NextFile
    <2>2. Excessive' <=> Excessive
      BY <2>1, SameTree
    <2>3. Reading'
      <3>1. Reading /\ late' \in Nat
        BY <2>1 DEF XmlInv, Reading, XmlTypes
      <3>2. ClockSeen'
        BY <2>1, <3>1 DEF Reading, ClockSeen, NotLate
      <3> QED BY <2>1, <3>1, <3>2, SameTree DEF Reading
    <2> QED BY <2>1, <2>2, <2>3 DEF XmlInv, VerdictMatchesTree
  <1> QED BY <1>1, <1>2, <1>3, <1>4, <1>5, <1>6, <1>7 DEF XmlNext, Tags

LEMMA XmlBegins == XmlInit => XmlInv
  <1> SUFFICES ASSUME XmlInit PROVE XmlInv
    OBVIOUS
  <1>1. /\ nodes = <<>> /\ open = <<>> /\ grids = <<>> /\ cellsIn = <<>>
        /\ count = [k \in Kinds |-> 0] /\ late = NotLate /\ scan = "reading"
    BY DEF XmlInit
  <1>2. DOMAIN nodes = {} /\ DOMAIN open = {} /\ Len(nodes) = 0
    BY <1>1
  <1>3. XmlTypes
    <2>1. NotLate \in Nat
      BY ConstantsAre DEF NotLate
    <2> QED BY <1>1, <2>1 DEF XmlTypes
  <1>4. IsTree /\ IsPath
    BY <1>2, ConstantsAre DEF IsTree, IsPath
  <1>5. (\A t : Tagged(t) = {}) /\ OpenTables = {}
    BY <1>2 DEF Tagged, OpenTables
  <1>6. OneSpan
    BY <1>5 DEF OneSpan
  <1>7. Shape
    BY <1>3, <1>4, ShapeHolds
  <1>8. \A k \in Kinds : Total(k) = 0
    <2>1. \A u \in [{} -> Nat] : SumFunction(u) = 0
      <3> TAKE u \in [{} -> Nat]
      <3>1. IsFiniteSet({}) /\ {} \in SUBSET {} /\ \A x \in {} : u[x] = IF x \in {} THEN 1 ELSE 0
        BY FS_EmptySet
      <3>2. SumFunction(u) = Cardinality({})
        BY <3>1, SumOfMarks
      <3> QED BY <3>2, FS_EmptySet
    <2> TAKE k \in Kinds
    <2>2. Ended(DOMAIN nodes) = {}
      BY <1>2 DEF Ended
    <2>3. StartSum(k) = 0
      BY <1>2, <2>1 DEF StartSum
    <2>4. EndSum(k) = 0
      BY <2>1, <2>2 DEF EndSum
    <2> QED BY <2>3, <2>4 DEF Total
  <1>9. Counted
    BY <1>1, <1>8 DEF Counted, Total
  <1>10. TablesOpen
    BY <1>1, <1>5, FS_EmptySet DEF TablesOpen, Stacked
  <1>11. ClockSeen
    BY <1>1 DEF ClockSeen
  <1>12. ~Excessive
    <2>1. ~OverLimit
      BY <1>8, XmlAssumption DEF OverLimit, XmlAssumption
    <2>2. ~TooDeep /\ ~WideRange /\ ~WideTable /\ ~WideRow
      BY <1>2, <1>5 DEF TooDeep, WideRange, WideTable, WideRow, Ended
    <2> QED BY <1>7, <2>1, <2>2, ExcessiveIs
  <1> QED BY <1>1, <1>3, <1>4, <1>6, <1>9, <1>10, <1>11, <1>12 DEF XmlInv, Reading, VerdictMatchesTree

LEMMA XmlInvHolds == XmlSpec => []XmlInv
  BY XmlBegins, XmlStep, PTL DEF XmlSpec

\* A package is refused as too complex exactly when what was read of it passes a
\* limit (of the elements and their depth, of text, attributes, styles, strings,
\* relationships, tables, cells, paragraphs, sheets and merged ranges, of the columns of
\* a table, a row or a merged range), for all limits and whatever its elements, tables
\* in tables included, and a scan past its deadline stops within CheckEvery elements
\* (_safe_xml_package).
THEOREM PackagesAreJudged == XmlSpec => []PackageIsJudged
  <1>1. XmlInv => PackageIsJudged
    <2> SUFFICES ASSUME XmlInv PROVE DeadlineNoticed
      BY DEF XmlInv, PackageIsJudged
    <2> SUFFICES ASSUME scan = "reading", late # NotLate PROVE Len(nodes) - late < CheckEvery
      BY DEF DeadlineNoticed
    <2>1. XmlTypes /\ ClockSeen
      BY DEF XmlInv, Reading
    <2>2. PICK n \in Nat, c \in Nat \ {0} : n = Len(nodes) /\ c = CheckEvery
      BY <2>1, ConstantsAre, LenProperties DEF XmlTypes
    <2>3. n - late <= n % c /\ late \in Nat
      BY <2>1, <2>2 DEF ClockSeen, XmlTypes
    <2>4. n % c \in 0..c - 1
      BY <2>2, Remainder
    <2> QED BY <2>2, <2>3, <2>4
  <1> QED BY <1>1, XmlInvHolds, PTL
===============================================================================
