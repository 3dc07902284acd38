------------------------------ MODULE PagedRows ------------------------------
(***************************************************************************)
(* Pages of a table, as the repositories cut them: newest first, with the  *)
(* number of pages that the services compute from the number of rows.      *)
(***************************************************************************)
EXTENDS Naturals, Sequences, FiniteSets

CONSTANT None  \* no value

(* A row's number stands for the time it was created: the rank of a row    *)
(* says how many are newer.                                                *)
Rank(rows, r) == Cardinality({q \in rows : q > r})

PageOf(rows, page, size) ==
    {r \in rows : Rank(rows, r) \in ((page - 1) * size) .. (page * size - 1)}

TotalPages(rows, size) ==
    LET n == Cardinality(rows)
    IN  n \div size + (IF n % size > 0 THEN 1 ELSE 0)
=============================================================================
