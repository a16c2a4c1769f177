----------------------------- MODULE Pagination -----------------------------
(***************************************************************************)
(* Cursor pagination: what the queries of the admin listings fetch, and    *)
(* what buildCursorPage makes of it.  A result is the set of its rows; the *)
(* order the query asks for is a relation, the set of pairs <<a, b>> with  *)
(* a ahead of b.                                                           *)
(***************************************************************************)
EXTENDS Integers, FiniteSets

NoCursor == 0       \* no cursor parameter, and a nextCursor of null

Ahead(S, row, order) == {other \in S : <<other, row>> \in order}

(* ORDER BY ... LIMIT n *)
FirstRows(S, n, order) == {row \in S : Cardinality(Ahead(S, row, order)) < n}

PastTheEnd(S, order) == -1      \* slip: data[data.length], which is undefined
LastRow(S, order) == CHOOSE row \in S : \A other \in S : <<row, other>> \notin order

(* buildCursorPage of the limit + 1 rows that were fetched. *)
HasNextPage(fetched, limit) == Cardinality(fetched) > limit

PageData(fetched, limit, order) ==
  IF HasNextPage(fetched, limit) THEN FirstRows(fetched, limit, order)
                                 ELSE fetched

FromExtraRow(fetched, limit, order) ==    \* slip: the row sliced off
  IF HasNextPage(fetched, limit) THEN LastRow(fetched, order) ELSE NoCursor
NextCursor(fetched, limit, order) ==
  IF HasNextPage(fetched, limit)
    THEN LastRow(PageData(fetched, limit, order), order)
    ELSE NoCursor
=============================================================================
