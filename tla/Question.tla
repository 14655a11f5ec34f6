------------------------------ MODULE Question ------------------------------
(***************************************************************************)
(* The read-only side of the system: research commands, precedent          *)
(* retrieval, scoring and text rules are functions of what is stored and   *)
(* of the options they are given.  Each module that extends this one asks  *)
(* its component a question - a record of stored rows and options, "of"    *)
(* says of which component - and its properties relate the answer to the   *)
(* question.  Between two questions nothing is asked.                      *)
(***************************************************************************)
EXTENDS Integers, Sequences, FiniteSets, SequencesExt

VARIABLE question

Nobody == [of |-> "nobody"]

Asked(component) == question.of = component

(* ORDER BY and sorted(): the rows, each after those that come before it. *)
Ordered(rows, Before(_, _)) ==
  [n \in 1..Cardinality(rows) |->
     CHOOSE x \in rows : Cardinality({y \in rows : Before(y, x)}) = n - 1]

(* The elements of a list at some of its positions. *)
Picked(list, positions) ==
  LET at == Ordered(positions, LAMBDA i, j : i < j)
  IN [n \in 1..Cardinality(positions) |-> list[at[n]]]

Positions(list, Test(_)) == {i \in DOMAIN list : Test(list[i])}

(* [x for x in list if Test(x)] *)
Filtered(list, Test(_)) == Picked(list, Positions(list, Test))

(* A list without the later repetitions of an element. *)
Dedup(list) == Picked(list, {i \in DOMAIN list : \A j \in 1..(i - 1) : list[j] # list[i]})

(* LIMIT n, and Python's list[:n]. *)
FirstN(list, n) == SubSeq(list, 1, IF n < Len(list) THEN n ELSE Len(list))

SumOf(list) == FoldLeft(LAMBDA a, b : a + b, 0, list)

=============================================================================
