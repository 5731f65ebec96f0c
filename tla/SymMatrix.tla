------------------------------ MODULE SymMatrix ------------------------------
(***************************************************************************)
(* SymMatrix<T> (matrix/src/lib.rs 57-184): a symmetric matrix of size n    *)
(* kept as the vector of its upper triangle, row after row.  The vector is  *)
(* a function on 0..(size - 1), as the indices of the code start with 0.    *)
(***************************************************************************)
EXTENDS Naturals

\* Number of elements of the rows before row, the sum n + (n-1) + ...
RowOffset(row, n) == (row * (n + (n - row + 1))) \div 2

out_to_in_index(row, col, n) ==
  IF row > col THEN RowOffset(col, n) + row - col
               ELSE RowOffset(row, n) + col - row

\* The row is the one whose elements include position i of the vector.
in_to_out_index(i, n) ==
  LET row == CHOOSE r \in 0..(n - 1) :
               i >= RowOffset(r, n) /\ i < RowOffset(r + 1, n)
  IN  <<row, row + i - RowOffset(row, n)>>

new_fn(n, f(_, _)) ==
  [n    |-> n,
   data |-> [i \in 0..((n * (n + 1)) \div 2 - 1) |->
               LET rc == in_to_out_index(i, n) IN f(rc[1], rc[2])]]

\* Index and IndexMut
At(m, row, col) == m.data[out_to_in_index(row, col, m.n)]
Put(m, row, col, value) ==
  [m EXCEPT !.data[out_to_in_index(row, col, m.n)] = value]

grow_fn(m, by, f(_, _)) ==
  LET copied(row, col) ==
        IF row >= m.n \/ col >= m.n THEN f(row, col) ELSE At(m, row, col)
  IN  new_fn(m.n + by, copied)

\* Mutant: the column of the removed element is not skipped.
remove_id_row_only(m, id) ==
  LET kept(row, col) == At(m, IF row >= id THEN row + 1 ELSE row, col)
  IN  new_fn(m.n - 1, kept)

remove_id(m, id) ==
  LET skip(x) == IF x >= id THEN x + 1 ELSE x
      kept(row, col) == At(m, skip(row), skip(col))
  IN  new_fn(m.n - 1, kept)

=============================================================================
