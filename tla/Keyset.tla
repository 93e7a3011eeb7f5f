------------------------------- MODULE Keyset -------------------------------
(* The keyset pagination every list of the API uses: the four sort orders,   *)
(* the cursor that names the last row a client saw, and the WHERE clause      *)
(* that resumes after it (common/pagination/cursor.ts and SORTS, cursorKeyFor *)
(* and cursorWhere of reviews.repository.ts).                                 *)
(*                                                                            *)
(* A row is a record [id, createdAt, helpful, rating].  Identifiers are       *)
(* integers ordered like the UUIDv7 strings; createdAt is the millisecond of  *)
(* the TIMESTAMP(3) column, so two rows may share one.                        *)
EXTENDS Integers

Sorts == {"helpful", "newest", "rating_desc", "rating_asc"}

Rows == [id: Int, createdAt: Int, helpful: Int, rating: Int]

\* SORTS[sort].column of a row, which is also its cursor key (cursorKeyFor).
KeyOf(sort, row) ==
  CASE sort = "helpful" -> row.helpful
    [] sort = "newest" -> row.createdAt
    [] OTHER -> row.rating

\* SORTS[sort].direction, as a comparison of two keys: a is listed above b.
Above(sort, a, b) == IF sort = "rating_asc" THEN a < b ELSE a > b

\* SORTS[sort].orderBy: the column first, then id descending.
ListedBefore(sort, r, s) ==
  \/ Above(sort, KeyOf(sort, r), KeyOf(sort, s))
  \/ KeyOf(sort, r) = KeyOf(sort, s) /\ r.id > s.id

\* encodeCursor: the key and the id of a row, and the scope it is good for.
CursorAt(sort, row) == [key |-> KeyOf(sort, row), id |-> row.id, scope |-> sort]

\* Mutant: lte in place of lt, so a page begins with the row the last ended on.
ResumesAt(sort, row, cursor) ==
  \/ Above(sort, cursor.key, KeyOf(sort, row))
  \/ KeyOf(sort, row) = cursor.key /\ row.id <= cursor.id

\* cursorWhere: the rows the next page selects.
ResumesAfter(sort, row, cursor) ==
  \/ Above(sort, cursor.key, KeyOf(sort, row))
  \/ KeyOf(sort, row) = cursor.key /\ row.id < cursor.id
=============================================================================
