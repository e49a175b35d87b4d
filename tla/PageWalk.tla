------------------------------ MODULE PageWalk ------------------------------
(***************************************************************************)
(* What a client that follows next_cursor to the end may count on, while   *)
(* rows come and go.  An abstract specification: Listings implements it.   *)
(***************************************************************************)
EXTENDS Paging

VARIABLES
  visible,    \* the rows the client's query selects now
  walk,       \* "idle", "more" (a cursor was handed out) or "end"
  cursor,     \* {} before the first page, else the position handed out last
  returned,   \* the rows the client has been given
  stable      \* the rows that were visible ever since the first page

vars == <<visible, walk, cursor, returned, stable>>

TypeOK ==
  /\ visible \in SUBSET Item
  /\ walk \in {"idle", "more", "end"}
  /\ \/ cursor = {}
     \/ \E p \in Position : cursor = {p}
  /\ returned \in SUBSET Item
  /\ stable \in SUBSET Item

Init ==
  /\ visible \in SUBSET Item
  /\ walk = "idle"
  /\ cursor = {}
  /\ returned = {}
  /\ stable = {}

(* Rows are added, removed, or come in or out of the query's sight.        *)
Change ==
  /\ visible' \in SUBSET Item
  /\ stable' = stable \cap visible'
  /\ UNCHANGED <<walk, cursor, returned>>

(* A page of at most n rows.                                               *)
Fetch(n) ==
  LET rows == Remaining(visible, At, cursor) IN
  /\ walk # "end"
  /\ returned' = returned \cup Page(rows, At, n)
  /\ cursor' \in NextCursors(rows, At, n)
  /\ walk' = IF Cardinality(rows) > n THEN "more" ELSE "end"
  /\ stable' = IF walk = "idle" THEN visible ELSE stable
  /\ UNCHANGED visible

Next == Change \/ \E n \in 1 .. MaxPage : Fetch(n)

Spec == Init /\ [][Next]_vars

-----------------------------------------------------------------------------
(* No row is handed out twice, and the pages descend.                      *)
Descending ==
  [][\A r \in returned' \ returned, s \in returned : Newer(At[s], At[r])]_vars

(* At the end, no row is missing that was visible all along.               *)
Complete == walk = "end" => stable \subseteq returned
=============================================================================
