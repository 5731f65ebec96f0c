--------------------------- MODULE SymMatrixProofs ---------------------------
(***************************************************************************)
(* The vector of a SymMatrix holds every cell of the triangle once: the two *)
(* index computations are inverse to each other, so that what is read is    *)
(* what was written at the same pair of rows, in either order, and removing *)
(* an element moves all others together.                                    *)
(***************************************************************************)
EXTENDS SymMatrix, FiniteRecursion

Rows(n)  == 0..(n - 1)
Cells(n) == (n * (n + 1)) \div 2

\* Dividing a double.
LEMMA Half == ASSUME NEW x \in Int PROVE (2 * x) \div 2 = x
OBVIOUS

\* A natural number is even or odd.
LEMMA Parity ==
  ASSUME NEW x \in Nat
  PROVE  \E k \in Nat : x = 2 * k \/ x = 2 * k + 1
<1>1. x \div 2 \in Nat /\ (x = 2 * (x \div 2) \/ x = 2 * (x \div 2) + 1)
  OBVIOUS
<1> QED
  BY <1>1

\* One of r and 2n - r + 1 is even.
LEMMA Offset ==
  ASSUME NEW n \in Nat, NEW r \in 0..n
  PROVE  /\ RowOffset(r, n) \in Nat
         /\ 2 * RowOffset(r, n) = r * (n + (n - r + 1))
<1> DEFINE y == n + (n - r + 1)
<1>1. PICK k \in Nat : r = 2 * k \/ r = 2 * k + 1
  BY Parity
<1>2. CASE r = 2 * k
  <2>1. r * y = 2 * (k * y) /\ k * y \in Nat
    BY <1>2
  <2> QED
    BY <2>1, Half DEF RowOffset
<1>3. CASE r = 2 * k + 1
  <2>1. y = 2 * (n - k) /\ n - k \in Nat
    BY <1>3
  <2>2. r * y = 2 * (r * (n - k)) /\ r * (n - k) \in Nat
    <3> HIDE DEF y
    <3> QED
      BY <2>1
  <2>3. RowOffset(r, n) = (r * y) \div 2
    BY DEF RowOffset
  <2>4. RowOffset(r, n) = r * (n - k)
    <3> HIDE DEF y
    <3> QED
      BY <2>2, <2>3, Half
  <2> QED
    BY <2>2, <2>4
<1> QED
  BY <1>1, <1>2, <1>3

\* Row r has n - r cells.
LEMMA OffsetStep ==
  ASSUME NEW n \in Nat, NEW r \in 0..(n - 1)
  PROVE  RowOffset(r + 1, n) = RowOffset(r, n) + (n - r)
<1>1. 2 * RowOffset(r, n) = r * (n + (n - r + 1)) /\ RowOffset(r, n) \in Nat
  BY Offset
<1>2. 2 * RowOffset(r + 1, n) = (r + 1) * (n + (n - (r + 1) + 1)) /\ RowOffset(r + 1, n) \in Nat
  BY Offset
<1>3. (r + 1) * (n + (n - (r + 1) + 1)) = r * (n + (n - r + 1)) + 2 * (n - r)
  OBVIOUS
<1> QED
  BY <1>1, <1>2, <1>3

\* Rows follow each other without overlap.
LEMMA OffsetsGrow ==
  ASSUME NEW n \in Nat, NEW r \in 0..n, NEW s \in 0..n, r < s
  PROVE  RowOffset(r, n) + (n - r) <= RowOffset(s, n)
<1>1. 2 * RowOffset(r, n) = r * (n + (n - r + 1)) /\ RowOffset(r, n) \in Nat
  BY Offset
<1>2. 2 * RowOffset(s, n) = s * (n + (n - s + 1)) /\ RowOffset(s, n) \in Nat
  BY Offset
<1>3. (s - r - 1) * (n + n - s - r) \in Nat
  <2>1. s - r - 1 \in Nat /\ n + n - s - r \in Nat
    OBVIOUS
  <2>2. \A a, b \in Nat : a * b \in Nat
    OBVIOUS
  <2> QED
    BY <2>1, <2>2
<1>4. s * (n + (n - s + 1)) = r * (n + (n - r + 1)) + 2 * (n - r) + (s - r - 1) * (n + n - s - r)
  OBVIOUS
<1> QED
  BY <1>1, <1>2, <1>3, <1>4

\* The rows fill the vector.
LEMMA CellsIs ==
  ASSUME NEW n \in Nat
  PROVE  Cells(n) = RowOffset(n, n) /\ Cells(n) \in Nat /\ RowOffset(0, n) = 0
<1>1. n * (n + 1) = n * (n + (n - n + 1)) /\ 0 * (n + (n - 0 + 1)) = 0
  OBVIOUS
<1>2. RowOffset(n, n) = Cells(n) /\ RowOffset(0, n) = 0
  BY <1>1 DEF RowOffset, Cells
<1> QED
  BY <1>2, Offset

\* The row that in_to_out_index chooses is the only one.
LEMMA RowIs ==
  ASSUME NEW n \in Nat, NEW r \in Rows(n), NEW d \in 0..(n - r - 1)
  PROVE  /\ in_to_out_index(RowOffset(r, n) + d, n) = <<r, r + d>>
         /\ RowOffset(r, n) + d \in 0..(Cells(n) - 1)
<1> DEFINE i == RowOffset(r, n) + d
           In(q) == i >= RowOffset(q, n) /\ i < RowOffset(q + 1, n)
<1>1. RowOffset(r, n) \in Nat
  BY Offset DEF Rows
<1>2. RowOffset(r + 1, n) = RowOffset(r, n) + (n - r)
  BY OffsetStep DEF Rows
<1>3. In(r)
  BY <1>1, <1>2 DEF Rows
<1>4. ASSUME NEW q \in Rows(n), In(q) PROVE q = r
  <2>1. RowOffset(q, n) \in Nat /\ RowOffset(q + 1, n) = RowOffset(q, n) + (n - q)
    BY Offset, OffsetStep DEF Rows
  <2>2. ~(q < r)
    BY <1>1, <1>4, <2>1, OffsetsGrow DEF Rows
  <2>3. ~(r < q)
    BY <1>1, <1>2, <1>3, <1>4, <2>1, OffsetsGrow DEF Rows
  <2> QED
    BY <2>2, <2>3 DEF Rows
<1>5. (CHOOSE q \in 0..(n - 1) : In(q)) = r
  <2> HIDE DEF In
  <2> QED
    BY <1>3, <1>4 DEF Rows
<1>6. in_to_out_index(i, n) = <<r, r + i - RowOffset(r, n)>>
  BY <1>5 DEF in_to_out_index
<1>7. i < Cells(n)
  <2>1. CASE r + 1 = n
    <3>1. RowOffset(n, n) = RowOffset(r, n) + (n - r)
      BY <1>2, <2>1
    <3> QED
      BY <1>1, <3>1, CellsIs DEF Rows
  <2>2. CASE r + 1 # n
    BY <2>2, <1>1, <1>2, CellsIs, OffsetsGrow DEF Rows
  <2> QED
    BY <2>1, <2>2
<1> QED
  BY <1>1, <1>6, <1>7, CellsIs

\* Index: a pair of rows, in either order, is found again at its place.
THEOREM IndexInverse ==
  ASSUME NEW n \in Nat, NEW row \in Rows(n), NEW col \in Rows(n)
  PROVE  /\ out_to_in_index(row, col, n) \in 0..(Cells(n) - 1)
         /\ in_to_out_index(out_to_in_index(row, col, n), n)
              = IF row > col THEN <<col, row>> ELSE <<row, col>>
<1>1. CASE row > col
  <2> DEFINE d == row - col
  <2>1. d \in 0..(n - col - 1) /\ col + d = row
    BY <1>1 DEF Rows
  <2>2. RowOffset(col, n) + row - col = RowOffset(col, n) + d
    BY Offset DEF Rows
  <2>3. out_to_in_index(row, col, n) = RowOffset(col, n) + d
    BY <1>1, <2>2 DEF out_to_in_index
  <2> HIDE DEF d
  <2> QED
    BY <1>1, <2>1, <2>3, RowIs
<1>2. CASE ~(row > col)
  <2> DEFINE d == col - row
  <2>1. d \in 0..(n - row - 1) /\ row + d = col
    BY <1>2 DEF Rows
  <2>2. RowOffset(row, n) + col - row = RowOffset(row, n) + d
    BY Offset DEF Rows
  <2>3. out_to_in_index(row, col, n) = RowOffset(row, n) + d
    BY <1>2, <2>2 DEF out_to_in_index
  <2> HIDE DEF d
  <2> QED
    BY <1>2, <2>1, <2>3, RowIs
<1> QED
  BY <1>1, <1>2

\* new_fn: every place of the vector belongs to a cell of the triangle.
THEOREM PlaceInverse ==
  ASSUME NEW n \in Nat, NEW i \in 0..(Cells(n) - 1)
  PROVE  \E row, col \in Rows(n) :
           /\ row <= col
           /\ in_to_out_index(i, n) = <<row, col>>
           /\ out_to_in_index(row, col, n) = i
<1> DEFINE T == {s \in 0..n : i < RowOffset(s, n)}
<1>1. n \in T
  BY CellsIs
<1>2. PICK s \in T : \A t \in T : s <= t
  <2>1. T \subseteq Nat /\ T # {}
    BY <1>1
  <2> HIDE DEF T
  <2> QED
    BY <2>1, NatMin
<1>3. s # 0 /\ s \in 1..n
  BY CellsIs
<1> DEFINE r == s - 1
<1>4. r \in Rows(n) /\ r \in 0..n /\ r + 1 = s
  BY <1>3 DEF Rows
<1>5. RowOffset(r, n) \in Nat /\ RowOffset(s, n) = RowOffset(r, n) + (n - r)
  BY <1>4, Offset, OffsetStep DEF Rows
<1>6. RowOffset(r, n) <= i
  BY <1>2, <1>4, <1>5
<1> DEFINE d == i - RowOffset(r, n)
<1>7. d \in 0..(n - r - 1) /\ RowOffset(r, n) + d = i
  BY <1>5, <1>6
<1>8. r + d \in Rows(n) /\ r <= r + d
  BY <1>4, <1>7 DEF Rows
<1>9. in_to_out_index(i, n) = <<r, r + d>>
  <2> HIDE DEF r, d
  <2> QED
    BY <1>4, <1>7, RowIs
<1>10. out_to_in_index(r, r + d, n) = i
  <2>1. ~(r > r + d) /\ RowOffset(r, n) + (r + d) - r = i
    BY <1>4, <1>5, <1>7, <1>8 DEF Rows
  <2> QED
    BY <2>1 DEF out_to_in_index
<1> QED
  <2> HIDE DEF r, d
  <2> QED
    BY <1>4, <1>8, <1>9, <1>10

-----------------------------------------------------------------------------
Matrix(n, T) == [n : {n}, data : [0..(Cells(n) - 1) -> T]]

\* Index: the two orders of a pair are one cell, two pairs are two cells.
LEMMA AtSymmetric ==
  ASSUME NEW m, NEW n \in Nat, m.n = n, NEW row \in Rows(n), NEW col \in Rows(n)
  PROVE  At(m, row, col) = At(m, col, row)
<1>1. out_to_in_index(row, col, n) = out_to_in_index(col, row, n)
  BY DEF out_to_in_index, Rows
<1> QED
  BY <1>1 DEF At

\* A cell holds what the matrix holds.
LEMMA AtType ==
  ASSUME NEW T, NEW n \in Nat, NEW m \in Matrix(n, T), NEW row \in Rows(n), NEW col \in Rows(n)
  PROVE  At(m, row, col) \in T
<1>1. out_to_in_index(row, col, n) \in 0..(Cells(n) - 1)
  BY IndexInverse
<1>2. m.n = n /\ m.data \in [0..(Cells(n) - 1) -> T]
  BY DEF Matrix
<1> QED
  BY <1>1, <1>2 DEF At

\* IndexMut: writing a cell changes that cell and no other.
THEOREM PutAt ==
  ASSUME NEW T, NEW n \in Nat, NEW m \in Matrix(n, T), NEW value \in T,
         NEW row \in Rows(n), NEW col \in Rows(n)
  PROVE  /\ Put(m, row, col, value) \in Matrix(n, T)
         /\ \A r, c \in Rows(n) :
              At(Put(m, row, col, value), r, c)
                = IF (r = row /\ c = col) \/ (r = col /\ c = row) THEN value ELSE At(m, r, c)
<1> DEFINE i == out_to_in_index(row, col, n)
<1>1. i \in 0..(Cells(n) - 1)
  BY IndexInverse
<1>2. m.n = n /\ m.data \in [0..(Cells(n) - 1) -> T] /\ m = [n |-> n, data |-> m.data]
  BY DEF Matrix
<1>3. Put(m, row, col, value) = [n |-> n, data |-> [m.data EXCEPT ![i] = value]]
  BY <1>2 DEF Put
<1>4. ASSUME NEW r \in Rows(n), NEW c \in Rows(n)
      PROVE  At(Put(m, row, col, value), r, c)
               = IF (r = row /\ c = col) \/ (r = col /\ c = row) THEN value ELSE At(m, r, c)
  <2> DEFINE j == out_to_in_index(r, c, n)
  <2>1. j \in 0..(Cells(n) - 1)
    BY IndexInverse
  <2>2. i = j <=> (r = row /\ c = col) \/ (r = col /\ c = row)
    <3>1. ASSUME i = j PROVE (r = row /\ c = col) \/ (r = col /\ c = row)
      <4>1. in_to_out_index(i, n) = IF row > col THEN <<col, row>> ELSE <<row, col>>
        BY IndexInverse
      <4>2. in_to_out_index(j, n) = IF r > c THEN <<c, r>> ELSE <<r, c>>
        BY IndexInverse
      <4> HIDE DEF i, j
      <4> QED
        BY <3>1, <4>1, <4>2
    <3>2. ASSUME (r = row /\ c = col) \/ (r = col /\ c = row) PROVE i = j
      BY <3>2 DEF out_to_in_index, Rows
    <3> QED
      BY <3>1, <3>2
  <2> HIDE DEF i
  <2>3. At(Put(m, row, col, value), r, c) = [m.data EXCEPT ![i] = value][j]
    BY <1>3 DEF At
  <2>4. At(m, r, c) = m.data[j]
    BY <1>2 DEF At
  <2> HIDE DEF j
  <2> QED
    BY <1>1, <1>2, <2>1, <2>2, <2>3, <2>4
<1> HIDE DEF i
<1>5. Put(m, row, col, value) \in Matrix(n, T)
  BY <1>1, <1>2, <1>3 DEF Matrix
<1> QED
  BY <1>4, <1>5

\* m: the matrix that new_fn makes of the function f on pairs of rows.
Tabulates(m, n, f) ==
  m = [n |-> n, data |-> [i \in 0..(Cells(n) - 1) |-> f[in_to_out_index(i, n)]]]

\* new_fn: the cell of two rows holds what the function says of the pair, the
\* smaller row first.
THEOREM NewFnAt ==
  ASSUME NEW T, NEW n \in Nat, NEW f,
         \A r, c \in Rows(n) : r <= c => f[<<r, c>>] \in T,
         NEW m, Tabulates(m, n, f)
  PROVE  /\ m \in Matrix(n, T)
         /\ \A r, c \in Rows(n) :
              At(m, r, c) = IF r > c THEN f[<<c, r>>] ELSE f[<<r, c>>]
<1> DEFINE data == [i \in 0..(Cells(n) - 1) |-> f[in_to_out_index(i, n)]]
<1>1. ASSUME NEW i \in 0..(Cells(n) - 1) PROVE data[i] \in T
  <2>1. PICK row, col \in Rows(n) : row <= col /\ in_to_out_index(i, n) = <<row, col>>
    BY PlaceInverse
  <2> QED
    BY <2>1
<1>2. data \in [0..(Cells(n) - 1) -> T]
  <2>1. data = [i \in 0..(Cells(n) - 1) |-> data[i]]
    OBVIOUS
  <2> HIDE DEF data
  <2> QED
    BY <1>1, <2>1
<1>3. ASSUME NEW r \in Rows(n), NEW c \in Rows(n)
      PROVE  At(m, r, c) = IF r > c THEN f[<<c, r>>] ELSE f[<<r, c>>]
  <2> DEFINE j == out_to_in_index(r, c, n)
  <2>1. j \in 0..(Cells(n) - 1) /\ in_to_out_index(j, n) = IF r > c THEN <<c, r>> ELSE <<r, c>>
    BY IndexInverse
  <2>2. At(m, r, c) = data[j]
    BY DEF At, Tabulates
  <2>3. data[j] = f[in_to_out_index(j, n)]
    <3> HIDE DEF j
    <3> QED
      BY <2>1
  <2> HIDE DEF j, data
  <2> QED
    BY <2>1, <2>2, <2>3
<1>4. m = [n |-> n, data |-> data]
  BY DEF Tabulates
<1>5. m \in Matrix(n, T)
  <2> HIDE DEF data
  <2> QED
    BY <1>2, <1>4 DEF Matrix
<1> QED
  BY <1>3, <1>5

\* remove_id: every cell of the rows that stay is found at its moved place.
THEOREM RemoveIdAt ==
  ASSUME NEW T, NEW n \in Nat, n > 0, NEW m \in Matrix(n, T), NEW id \in Rows(n)
  PROVE  /\ remove_id(m, id) \in Matrix(n - 1, T)
         /\ \A r, c \in Rows(n - 1) :
              At(remove_id(m, id), r, c)
                = At(m, IF r >= id THEN r + 1 ELSE r, IF c >= id THEN c + 1 ELSE c)
<1> DEFINE skip(x) == IF x >= id THEN x + 1 ELSE x
           k == n - 1
           f == [p \in Rows(k) \X Rows(k) |-> At(m, skip(p[1]), skip(p[2]))]
<1>1. k \in Nat /\ m.n = n
  BY DEF Matrix
<1>2. \A x \in Rows(k) : skip(x) \in Rows(n)
  BY DEF Rows
<1> HIDE DEF skip, k
<1>3. ASSUME NEW r \in Rows(k), NEW c \in Rows(k)
      PROVE  f[<<r, c>>] = At(m, skip(r), skip(c)) /\ f[<<r, c>>] \in T /\ f[<<r, c>>] = f[<<c, r>>]
  <2>1. f[<<r, c>>] = At(m, skip(r), skip(c)) /\ f[<<c, r>>] = At(m, skip(c), skip(r))
    OBVIOUS
  <2> HIDE DEF f
  <2> QED
    BY <1>1, <1>2, <2>1, AtType, AtSymmetric
<1>4. remove_id(m, id) = [n |-> k, data |-> [i \in 0..(Cells(k) - 1) |-> f[in_to_out_index(i, k)]]]
  <2>1. remove_id(m, id) = [n |-> k, data |-> [i \in 0..(Cells(k) - 1) |->
          LET rc == in_to_out_index(i, k) IN At(m, skip(rc[1]), skip(rc[2]))]]
    BY <1>1 DEF remove_id, new_fn, Cells, skip, k
  <2>2. ASSUME NEW i \in 0..(Cells(k) - 1)
        PROVE  f[in_to_out_index(i, k)]
                 = LET rc == in_to_out_index(i, k) IN At(m, skip(rc[1]), skip(rc[2]))
    <3>1. PICK row, col \in Rows(k) : in_to_out_index(i, k) = <<row, col>>
      BY <1>1, PlaceInverse
    <3> QED
      BY <3>1
  <2> HIDE DEF f
  <2> QED
    BY <2>1, <2>2
<1> HIDE DEF f
<1>5. /\ remove_id(m, id) \in Matrix(k, T)
      /\ \A r, c \in Rows(k) :
           At(remove_id(m, id), r, c) = IF r > c THEN f[<<c, r>>] ELSE f[<<r, c>>]
  <2>1. \A r, c \in Rows(k) : r <= c => f[<<r, c>>] \in T
    BY <1>3
  <2>2. Tabulates(remove_id(m, id), k, f)
    BY <1>4 DEF Tabulates
  <2> QED
    BY <1>1, <2>1, <2>2, NewFnAt
<1>6. \A r, c \in Rows(k) : At(remove_id(m, id), r, c) = At(m, skip(r), skip(c))
  <2> TAKE r, c \in Rows(k)
  <2>1. f[<<r, c>>] = At(m, skip(r), skip(c)) /\ f[<<c, r>>] = f[<<r, c>>]
    BY <1>3
  <2>2. At(remove_id(m, id), r, c) = IF r > c THEN f[<<c, r>>] ELSE f[<<r, c>>]
    BY <1>5
  <2> QED
    BY <2>1, <2>2
<1> QED
  BY <1>5, <1>6 DEF skip, k

=============================================================================
