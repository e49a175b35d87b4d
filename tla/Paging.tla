------------------------------- MODULE Paging -------------------------------
(***************************************************************************)
(* Keyset pagination, as the stores of agents, tools and transactions do   *)
(* it: rows in descending order of (time, id), a page of at most limit     *)
(* rows older than the cursor, one more row fetched to learn whether to    *)
(* hand out a next cursor, which is the last row of the page.              *)
(***************************************************************************)
EXTENDS Integers, FiniteSets

CONSTANTS
  Item,    \* the rows that may ever be seen
  At,      \* their positions, (time, id): no two rows share one
  MaxPage  \* the largest page a client may ask for

Position == Nat \X Nat

ASSUME ItemAssumption == IsFiniteSet(Item)
ASSUME AtAssumption ==
  At \in [Item -> Position] /\ \A r, s \in Item : At[r] = At[s] => r = s
ASSUME MaxPageAssumption == MaxPage \in Nat \ {0}

(* (time, id) > (time, id), the row comparison of SQL.                     *)
Newer(p, q) == p[1] > q[1] \/ (p[1] = q[1] /\ p[2] > q[2])

(* The rows of a set that a cursor has not passed; no cursor is {}.        *)
Remaining(rows, at, cursor) == {r \in rows : \A c \in cursor : Newer(c, at[r])}

Before(rows, at, r) == {s \in rows : Newer(at[s], at[r])}

(* ORDER BY ... DESC LIMIT n.                                              *)
Page(rows, at, n) == {r \in rows : Cardinality(Before(rows, at, r)) < n}

\* Mutant: the cursor is the extra row, which the next page then skips.
NextCursorsExtra(rows, at, n) ==
  IF Cardinality(rows) > n
  THEN {{at[r]} : r \in {q \in rows : Cardinality(Before(rows, at, q)) = n}}
  ELSE {{}}

(* The cursor a page hands out: its last row's position, if rows are left. *)
NextCursors(rows, at, n) ==
  IF Cardinality(rows) > n
  THEN {{at[r]} : r \in {q \in Page(rows, at, n) :
                           \A s \in Page(rows, at, n) : s = q \/ Newer(at[s], at[q])}}
  ELSE {{}}
=============================================================================
