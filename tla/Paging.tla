------------------------------- MODULE Paging -------------------------------
(***************************************************************************)
(* A list read page by page, as listPosts (services/posts.ts) and listMedia*)
(* (services/media.ts) ask the database for it: the rows that match, in the*)
(* order of a table, from a cursor's row on, one more than a page holds;   *)
(* and what a filter of an array goes through.                             *)
(***************************************************************************)
EXTENDS Naturals, Sequences, FiniteSets

(* p comes before q in a table, which holds each row once.                 *)
Ahead(table, p, q) ==
  \E i, j \in 1..Len(table) : i < j /\ table[i] = p /\ table[j] = q

(* The rows of a set as the database returns them.  There is one such      *)
(* sequence.                                                               *)
Sorted(table, rows) ==
  {r \in [1..Cardinality(rows) -> rows] :
     /\ \A p \in rows : \E i \in 1..Cardinality(rows) : r[i] = p
     /\ \A i, j \in 1..Cardinality(rows) : i < j => Ahead(table, r[i], r[j])}

(* cursor and skip: the matching rows from the cursor's row on, wherever   *)
(* that is by now, less one, whether or not that is the cursor's row.      *)
RowsFrom(table, matching, c) ==
  IF c = "none" THEN Sorted(table, matching)
  ELSE {IF r = <<>> THEN r ELSE Tail(r) :
          r \in Sorted(table, {p \in matching : p = c \/ Ahead(table, c, p)})}

(* One row more than a page is taken, to know whether there is more.       *)
PageNoExtra(rows, size) ==
  [items |-> SubSeq(rows, 1, IF Len(rows) > size THEN size ELSE Len(rows)),
   cursor |-> "none"]

PageOf(rows, size) ==
  [items |-> SubSeq(rows, 1, IF Len(rows) > size THEN size ELSE Len(rows)),
   cursor |-> IF Len(rows) > size THEN rows[size] ELSE "none"]

PagesFrom(table, matching, c, size) ==
  {PageOf(rows, size) : rows \in RowsFrom(table, matching, c)}

(* The indices a filter of an array goes through, in their order.  There   *)
(* is one such sequence.                                                   *)
InOrder(S) ==
  {s \in [1..Cardinality(S) -> S] :
     \A i, j \in 1..Cardinality(S) : i < j => s[i] < s[j]}
=============================================================================
