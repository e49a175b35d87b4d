--------------------------- MODULE ListingsProofs ---------------------------
(***************************************************************************)
(* Listings, for any finite set of rows, any positions, page sizes, teams  *)
(* and filters, and any changes between the pages.  First what a page      *)
(* takes and leaves; then that a walk as PageWalk allows it is complete    *)
(* and descends; then that every listing is such a walk, and that a report *)
(* keeps to the scope that was looked up for it.                           *)
(***************************************************************************)
EXTENDS Listings, FiniteSetTheorems, TLAPS

-----------------------------------------------------------------------------
(* Pages.                                                                  *)

LEMMA NewerTransitive ==
  ASSUME NEW p \in Position, NEW q \in Position, NEW o \in Position, Newer(p, q), Newer(q, o)
  PROVE  Newer(p, o)
BY DEF Newer, Position

LEMMA NewerTotal ==
  ASSUME NEW p \in Position, NEW q \in Position
  PROVE  p = q \/ Newer(p, q) \/ Newer(q, p)
BY DEF Newer, Position

LEMMA NewerIrreflexive ==
  ASSUME NEW p \in Position
  PROVE  ~ Newer(p, p)
BY DEF Newer, Position

LEMMA Positions == \A r \in Item : At[r] \in Position
BY AtAssumption

(* A page of at least as many listed as are left holds them all.             *)
LEMMA LastPage ==
  ASSUME NEW listed \in SUBSET Item, NEW n \in Nat, Cardinality(listed) <= n
  PROVE  Page(listed, At, n) = listed
<1>1. IsFiniteSet(listed)
  BY ItemAssumption, FS_Subset
<1>2. ASSUME NEW r \in listed
      PROVE  Cardinality(Before(listed, At, r)) < n
  <2>. DEFINE B == Before(listed, At, r)
  <2>1. B \in SUBSET listed /\ r \notin B
    BY Positions, NewerIrreflexive DEF Before
  <2>2. Cardinality(B) \in Nat /\ Cardinality(listed) \in Nat
    BY <1>1, <2>1, FS_Subset, FS_CardinalityType
  <2>. HIDE DEF B
  <2>3. Cardinality(B) <= Cardinality(listed) /\ (Cardinality(B) = Cardinality(listed) => B = listed)
    BY <1>1, <2>1, FS_Subset
  <2>4. Cardinality(B) < n
    BY <2>1, <2>2, <2>3
  <2>. QED  BY <2>4 DEF B
<1>. QED  BY <1>2 DEF Page

(* What a page leaves comes after every row of it.                         *)
LEMMA PageCuts ==
  ASSUME NEW listed \in SUBSET Item, NEW n \in Nat,
         NEW q \in Page(listed, At, n), NEW r \in listed \ Page(listed, At, n)
  PROVE  Newer(At[q], At[r])
<1>1. q \in Item /\ r \in Item /\ q \in listed /\ q # r
  BY DEF Page
<1>2. SUFFICES ASSUME Newer(At[r], At[q]) PROVE FALSE
  BY <1>1, Positions, NewerTotal, AtAssumption
<1>. DEFINE B == Before(listed, At, q)
            C == Before(listed, At, r)
<1>3. C \in SUBSET B /\ B \in SUBSET listed
  BY <1>1, <1>2, Positions, NewerTransitive DEF Before
<1>4. IsFiniteSet(B)
  BY <1>3, ItemAssumption, FS_Subset
<1>5. Cardinality(B) < n /\ ~ (Cardinality(C) < n)
  BY DEF Page
<1>. HIDE DEF B, C
<1>6. Cardinality(C) <= Cardinality(B) /\ Cardinality(B) \in Nat /\ Cardinality(C) \in Nat
  BY <1>3, <1>4, FS_Subset, FS_CardinalityType
<1>. QED  BY <1>5, <1>6

LEMMA PageIsFound ==
  ASSUME NEW listed, NEW c, NEW n
  PROVE  Page(Remaining(listed, At, c), At, n) \subseteq listed
BY DEF Page, Remaining

-----------------------------------------------------------------------------
(* Walks, as PageWalk describes them, of whatever Visible is.              *)

(* Rows that were there all along are still visible, and not skipped.      *)
NoneSkipped ==
  /\ stable \subseteq Visible
  /\ \A r \in stable : r \in returned \/ \A c \in cursor : Newer(c, At[r])

(* No row that was given out comes after the cursor.                       *)
NoneAhead == \A s \in returned, c \in cursor : At[s] = c \/ Newer(At[s], c)

(* The cursor is there exactly between two pages.                          *)
Stages ==
  /\ Walk = "idle" => cursor = {} /\ returned = {}
  /\ Walk = "more" => cursor # {}

WInv == P!TypeOK /\ NoneSkipped /\ NoneAhead /\ Stages /\ P!Complete

(* PageWalk pages with the same operators.                                 *)
LEMMA SamePages ==
  /\ \A p, q : P!Newer(p, q) = Newer(p, q)
  /\ \A rs, at, c : P!Remaining(rs, at, c) = Remaining(rs, at, c)
  /\ \A rs, at, n : P!Page(rs, at, n) = Page(rs, at, n)
  /\ \A rs, at, n : P!NextCursors(rs, at, n) = NextCursors(rs, at, n)
  /\ P!Position = Position
  /\ \A S : P!Cardinality(S) = Cardinality(S)
<1>1. P!Position = Position /\ \A p, q : P!Newer(p, q) = Newer(p, q)
  BY DEF P!Newer, Newer, P!Position, Position
<1>2. \A rs, at, c : P!Remaining(rs, at, c) = Remaining(rs, at, c)
  BY <1>1 DEF P!Remaining, Remaining
<1>3. \A rs, at, r : P!Before(rs, at, r) = Before(rs, at, r)
  BY <1>1 DEF P!Before, Before
<1>c. \A S : P!Cardinality(S) = Cardinality(S)
  BY DEF P!Cardinality, Cardinality
<1>4. \A rs, at, n : P!Page(rs, at, n) = Page(rs, at, n)
  BY <1>3, <1>c DEF P!Page, Page
<1>5. \A rs, at, n : P!NextCursors(rs, at, n) = NextCursors(rs, at, n)
  BY <1>1, <1>4, <1>c DEF P!NextCursors, NextCursors
<1>. QED  BY <1>1, <1>2, <1>c, <1>4, <1>5

(* A page, as a step of the walk.                                          *)
LEMMA FetchIs ==
  ASSUME NEW n, P!Fetch(n)
  PROVE  LET left == Remaining(Visible, At, cursor) IN
         /\ Walk # "end"
         /\ returned' = returned \cup Page(left, At, n)
         /\ cursor' \in NextCursors(left, At, n)
         /\ Walk' = IF Cardinality(left) > n THEN "more" ELSE "end"
         /\ stable' = IF Walk = "idle" THEN Visible ELSE stable
         /\ Visible' = Visible
BY SamePages DEF P!Fetch

LEMMA WalkTypes ==
  ASSUME WInv
  PROVE  /\ Visible \in SUBSET Item /\ returned \in SUBSET Item /\ stable \in SUBSET Item
         /\ Walk \in {"idle", "more", "end"}
         /\ cursor = {} \/ \E p \in Position : cursor = {p}
BY SamePages DEF WInv, P!TypeOK

(* Everything that a page adds comes after all that was given out before.  *)
LEMMA PageDescends ==
  ASSUME WInv, NEW r \in Remaining(Visible, At, cursor), NEW s \in returned, Walk # "end"
  PROVE  Newer(At[s], At[r])
<1>1. r \in Item /\ s \in Item /\ At[r] \in Position /\ At[s] \in Position
  BY WalkTypes, Positions DEF Remaining
<1>2. cursor # {}
  BY WalkTypes DEF WInv, Stages
<1>3. PICK c \in Position : cursor = {c}
  BY <1>2, WalkTypes
<1>4. Newer(c, At[r]) /\ (At[s] = c \/ Newer(At[s], c))
  BY <1>3 DEF Remaining, WInv, NoneAhead
<1>. QED  BY <1>1, <1>4, NewerTransitive

(* What was seen all along has been given out, or is still to be.          *)
LEMMA StableRemains ==
  ASSUME WInv, NEW n, P!Fetch(n), NEW r \in stable'
  PROVE  r \in returned \/ r \in Remaining(Visible, At, cursor)
<1>1. CASE Walk = "idle"
  BY <1>1, FetchIs DEF WInv, Stages, Remaining
<1>2. CASE Walk # "idle"
  BY <1>2, FetchIs DEF WInv, NoneSkipped, Remaining
<1>. QED  BY <1>1, <1>2

LEMMA WalkInit == P!Init => WInv
BY DEF P!Init, WInv, P!TypeOK, NoneSkipped, NoneAhead, Stages, P!Complete

LEMMA ChangeKeeps ==
  ASSUME WInv, P!Change
  PROVE  WInv'
BY DEF P!Change, WInv, P!TypeOK, NoneSkipped, NoneAhead, Stages, P!Complete

LEMMA FetchKeeps ==
  ASSUME WInv, NEW n \in 1 .. MaxPage, P!Fetch(n)
  PROVE  WInv'
<1>. DEFINE left == Remaining(Visible, At, cursor)
            page == Page(left, At, n)
<1>0. n \in Nat /\ left \in SUBSET Item /\ page \in SUBSET left /\ Cardinality(left) \in Nat
  <2>1. n \in Nat
    BY MaxPageAssumption
  <2>2. left \in SUBSET Item /\ page \in SUBSET left
    BY WalkTypes DEF Remaining, Page
  <2>3. IsFiniteSet(left)
    BY <2>2, ItemAssumption, FS_Subset
  <2>. QED  BY <2>1, <2>2, <2>3, FS_CardinalityType
<1>1. returned' = returned \cup page /\ Visible' = Visible /\ Walk # "end"
  BY FetchIs
<1>2. /\ stable' \subseteq Visible /\ stable' \in SUBSET Item
      /\ returned' \in SUBSET Item /\ Visible' \in SUBSET Item
  BY <1>0, <1>1, FetchIs, WalkTypes DEF WInv, NoneSkipped
<1>3. \A r \in stable' : r \in returned \/ r \in left
  BY StableRemains
<1>4. CASE Cardinality(left) > n
  <2>1. Walk' = "more" /\ cursor' \in NextCursors(left, At, n)
    BY <1>4, FetchIs
  <2>2. PICK q \in page : cursor' = {At[q]} /\ \A s \in page : s = q \/ Newer(At[s], At[q])
    BY <1>4, <2>1 DEF NextCursors
  <2>3. At[q] \in Position
    BY <1>0, <2>2, Positions
  <2>4. P!TypeOK'
    BY <1>2, <2>1, <2>2, <2>3, SamePages DEF P!TypeOK
  <2>5. NoneSkipped'
    <3>1. \A r \in left \ page : Newer(At[q], At[r])
      BY <1>0, PageCuts
    <3>. QED  BY <1>1, <1>2, <1>3, <2>2, <3>1 DEF NoneSkipped
  <2>6. NoneAhead'
    <3>1. \A s \in returned : Newer(At[s], At[q])
      BY <1>0, <1>1, <2>2, PageDescends
    <3>. QED  BY <1>1, <2>2, <3>1 DEF NoneAhead
  <2>7. Stages' /\ P!Complete'
    BY <2>1, <2>2 DEF Stages, P!Complete
  <2>. QED  BY <2>4, <2>5, <2>6, <2>7 DEF WInv
<1>5. CASE ~ (Cardinality(left) > n)
  <2>1. Walk' = "end" /\ cursor' = {}
    BY <1>5, FetchIs DEF NextCursors
  <2>2. page = left
    BY <1>0, <1>5, LastPage
  <2>3. stable' \subseteq returned'
    BY <1>1, <1>3, <2>2
  <2>. QED  BY <1>1, <1>2, <2>1, <2>3 DEF WInv, P!TypeOK, NoneSkipped, NoneAhead, Stages, P!Complete
<1>. QED  BY <1>4, <1>5

LEMMA WalkNext == WInv /\ [P!Next]_(P!vars) => WInv'
<1>. SUFFICES ASSUME WInv, [P!Next]_(P!vars) PROVE WInv'
  OBVIOUS
<1>1. CASE P!Change
  BY <1>1, ChangeKeeps
<1>2. ASSUME NEW n \in 1 .. MaxPage, P!Fetch(n) PROVE WInv'
  BY <1>2, FetchKeeps
<1>3. CASE UNCHANGED P!vars
  BY <1>3 DEF P!vars, WInv, P!TypeOK, NoneSkipped, NoneAhead, Stages, P!Complete
<1>. QED  BY <1>1, <1>2, <1>3 DEF P!Next

(* Nothing is skipped and nothing is ahead of the cursor, at any time.     *)
THEOREM WalkSafety == PageSpec => []WInv
BY WalkInit, WalkNext, PTL DEF PageSpec, P!Spec

(* A walk that has come to its end has given out every row that was        *)
(* visible since its first page, whatever came and went meanwhile.         *)
THEOREM WalkComplete == PageSpec => []CompleteWalk
<1>1. WInv => CompleteWalk
  BY DEF WInv, CompleteWalk
<1>. QED  BY <1>1, WalkSafety, PTL

(* Each page holds only rows that come after all rows of earlier pages, so *)
(* none is given out twice.                                                *)
THEOREM WalkDescends == PageSpec => DescendingPages
<1>1. WInv /\ [P!Next]_(P!vars) =>
      [\A r \in returned' \ returned, s \in returned : P!Newer(At[s], At[r])]_(P!vars)
  <2>. SUFFICES ASSUME WInv, P!Next, NEW r \in returned' \ returned, NEW s \in returned
                PROVE  P!Newer(At[s], At[r])
    OBVIOUS
  <2>1. CASE P!Change
    BY <2>1 DEF P!Change
  <2>2. ASSUME NEW n \in 1 .. MaxPage, P!Fetch(n)
        PROVE  Newer(At[s], At[r])
    <3>1. r \in Remaining(Visible, At, cursor) /\ Walk # "end"
      BY <2>2, FetchIs DEF Page
    <3>. QED  BY <3>1, PageDescends
  <2>. QED  BY <2>1, <2>2, SamePages DEF P!Next
<1>. QED  BY <1>1, WalkSafety, PTL DEF PageSpec, P!Spec, DescendingPages, P!Descending

-----------------------------------------------------------------------------
(* The listing itself.                                                     *)

InScope(a) == team[a] \in ask.teams \/ a \in moved

(* A lookup that is under way has found agents of the teams it was made    *)
(* for, and its result, or the agents asked for, is what the query uses.   *)
Lookup ==
  /\ pc # "resolve" => todo = {} /\ found = {}
  /\ pc = "resolve" => ByTeam(ask) /\ (todo = ask.teams => found = {})
  /\ \A a \in found : InScope(a)
  /\ ByTeam(ask) /\ pc = "query" => \A a \in scope : InScope(a)
  /\ ~ ByTeam(ask) => scope = ask.agents

(* What was seen all along is still seen.                                  *)
Seen == stable \subseteq Visible

LInv == TypeOK /\ Lookup /\ Seen

LEMMA AskFields ==
  ASSUME TypeOK
  PROVE  /\ ask.of \in {"agents", "tools", "usage"} /\ ask.by \in {"admin", "member", "agent"}
         /\ ask.teams \in SUBSET Team /\ ask.agents \in SUBSET Agent /\ ask.match \in SUBSET Tool
BY DEF TypeOK, Ask

LEMMA VisibleIs ==
  ASSUME TypeOK
  PROVE  /\ ask.of = "agents" => Visible = AgentsOf(rows, team, ask)
         /\ ask.of = "tools" => Visible = ToolsOf(rows, ask)
         /\ ask.of = "usage" => Visible = Where(rows, ask, scope)
         /\ Visible \in SUBSET rows /\ Visible \in SUBSET Item
<1>1. /\ ask.of = "agents" => Visible = AgentsOf(rows, team, ask)
      /\ ask.of = "tools" => Visible = ToolsOf(rows, ask)
      /\ ask.of = "usage" => Visible = Where(rows, ask, scope)
  BY DEF Visible, Selected
<1>2. Visible \in SUBSET rows
  BY <1>1, AskFields DEF AgentsOf, ToolsOf, Where
<1>. QED  BY <1>1, <1>2 DEF TypeOK

-----------------------------------------------------------------------------
(* The client's steps, but for what the history of the walk makes of them. *)

(* The teams of a request may change from page to page, but not whether it *)
(* needs them looked up.                                                   *)
LEMMA RequestIs ==
  ASSUME LInv, Request
  PROVE  /\ pc \in {"idle", "more"} /\ todo = {} /\ found = {}
         /\ ask' \in Ask /\ ask'.agents = ask.agents
         /\ ByTeam(ask') = ByTeam(ask)
         /\ todo' \in SUBSET ask'.teams
         /\ IF ByTeam(ask) THEN pc' = "resolve" /\ todo' = ask'.teams
                           ELSE pc' = "query" /\ todo' = {}
         /\ UNCHANGED <<rows, unborn, team, scope, found, cursor, returned, moved>>
<1>1. PICK ts \in SUBSET Team :
        /\ ts # ask.teams => ask.by = "member" /\ ask.of # "tools"
        /\ ask' = [ask EXCEPT !.teams = ts]
  BY DEF Request
<1>2. ask \in Ask
  BY DEF LInv, TypeOK
<1>3. /\ ask' \in Ask /\ ask'.teams = ts /\ ask'.agents = ask.agents
      /\ ask'.by = ask.by /\ ask'.of = ask.of
  BY <1>1, <1>2 DEF Ask
<1>4. ByTeam(ask') = ByTeam(ask)
  BY <1>1, <1>3 DEF ByTeam
<1>5. todo = {} /\ found = {}
  BY DEF Request, LInv, Lookup
<1>. QED  BY <1>3, <1>4, <1>5 DEF Request, tables

LEMMA RequestKeeps ==
  ASSUME LInv, Request, stable' \in SUBSET Item
  PROVE  TypeOK' /\ Lookup'
<1>. USE RequestIs
<1>1. TypeOK'
  BY DEF LInv, TypeOK
<1>2. Lookup'
  BY DEF LInv, Lookup, InScope
<1>. QED  BY <1>1, <1>2

LEMMA ResolveKeeps ==
  ASSUME LInv, Resolve, stable' \in SUBSET Item
  PROVE  TypeOK' /\ Lookup'
<1>1. PICK ts \in SUBSET todo :
        LET ids == found \cup {x \in rows \cap Agent : team[x] \in ts} IN
        /\ ask.by = "member" => ts = todo
        /\ ts # todo => ts # {}
        /\ todo' = todo \ ts
        /\ IF ts # todo
           THEN found' = ids /\ UNCHANGED <<pc, scope>>
           ELSE /\ scope' = IF ask.by = "admin" /\ ask.agents # {}
                            THEN ask.agents \cap ids ELSE ids
                /\ found' = {} /\ pc' = "query"
  BY DEF Resolve
<1>. DEFINE ids == found \cup {x \in rows \cap Agent : team[x] \in ts}
<1>2. /\ pc = "resolve" /\ moved' = (IF todo = ask.teams THEN {} ELSE moved)
      /\ UNCHANGED <<rows, unborn, team, ask, cursor, returned>>
  BY DEF Resolve, tables
<1>3. ids \in SUBSET Agent /\ moved' \in SUBSET Agent /\ todo \in SUBSET ask.teams
  BY <1>2 DEF LInv, TypeOK
<1>4. \A a \in ids : InScope(a)'
  <2>1. ASSUME NEW a \in found PROVE InScope(a)'
    <3>1. todo # ask.teams /\ InScope(a)
      BY <1>2, <2>1 DEF LInv, Lookup
    <3>. QED  BY <1>2, <3>1 DEF InScope
  <2>2. ASSUME NEW a \in rows \cap Agent, team[a] \in ts PROVE InScope(a)'
    BY <1>2, <1>3, <2>2 DEF InScope
  <2>. QED  BY <2>1, <2>2
<1>5. ByTeam(ask)
  BY <1>2 DEF LInv, Lookup
<1>6. CASE ts # todo
  <2>1. found' = ids /\ pc' = pc /\ scope' = scope
    BY <1>1, <1>6
  <2>2. todo' # ask.teams /\ todo' \in SUBSET ask.teams
    BY <1>1, <1>3, <1>6
  <2>. HIDE DEF ids
  <2>3. TypeOK'
    BY <1>2, <1>3, <2>1, <2>2 DEF LInv, TypeOK
  <2>4. Lookup'
    BY <1>2, <1>4, <1>5, <2>1, <2>2 DEF Lookup
  <2>. QED  BY <2>3, <2>4
<1>7. CASE ts = todo
  <2>1. /\ scope' = (IF ask.by = "admin" /\ ask.agents # {} THEN ask.agents \cap ids ELSE ids)
        /\ found' = {} /\ pc' = "query" /\ todo' = {}
    BY <1>1, <1>7
  <2>2. scope' \in SUBSET ids
    BY <2>1
  <2>. HIDE DEF ids
  <2>3. TypeOK'
    BY <1>2, <1>3, <2>1, <2>2 DEF LInv, TypeOK
  <2>4. Lookup'
    BY <1>2, <1>4, <1>5, <2>1, <2>2 DEF Lookup
  <2>. QED  BY <2>3, <2>4
<1>. QED  BY <1>6, <1>7

(* What an answer is, whatever its page size.                              *)
LEMMA AnswerIs ==
  ASSUME LInv, NEW n \in 1 .. MaxPage, Answer(n)
  PROVE  LET left == Remaining(Visible, At, cursor) IN
         /\ pc = "query"
         /\ returned' = returned \cup Page(left, At, n)
         /\ cursor' \in NextCursors(left, At, n)
         /\ pc' = IF Cardinality(left) > n THEN "more" ELSE "end"
         /\ UNCHANGED <<rows, unborn, team, ask, scope, todo, found, moved>>
         /\ Page(left, At, n) \subseteq Visible
         /\ cursor' = {} \/ \E x \in Item : cursor' = {At[x]}
         /\ Cardinality(left) > n => cursor' # {}
         /\ Visible' = Visible
<1>. DEFINE left == Remaining(Visible, At, cursor)
<1>1. /\ pc = "query"
      /\ returned' = returned \cup Page(left, At, n)
      /\ cursor' \in NextCursors(left, At, n)
      /\ pc' = IF Cardinality(left) > n THEN "more" ELSE "end"
      /\ UNCHANGED <<rows, unborn, team, ask, scope, todo, found, moved>>
  BY DEF Answer, tables, lookup
<1>2. Page(left, At, n) \subseteq Visible /\ Visible \subseteq Item
  BY PageIsFound, VisibleIs DEF LInv
<1>3. ASSUME Cardinality(left) > n PROVE \E x \in Item : cursor' = {At[x]}
  <2>1. PICK q \in Page(left, At, n) : cursor' = {At[q]}
    BY <1>1, <1>3 DEF NextCursors
  <2>. QED  BY <1>2, <2>1
<1>4. ASSUME ~ (Cardinality(left) > n) PROVE cursor' = {}
  BY <1>1, <1>4 DEF NextCursors
<1>5. Visible' = Visible
  BY <1>1 DEF Visible
<1>. QED  BY <1>1, <1>2, <1>3, <1>4, <1>5

LEMMA AnswerKeeps ==
  ASSUME LInv, NEW n \in 1 .. MaxPage, Answer(n), stable' \in SUBSET Item
  PROVE  TypeOK' /\ Lookup'
<1>. USE AnswerIs
<1>1. returned' \in SUBSET Item /\ pc' \in {"more", "end"}
  BY VisibleIs DEF LInv, TypeOK
<1>2. TypeOK'
  BY <1>1 DEF LInv, TypeOK
<1>3. Lookup'
  BY <1>1 DEF LInv, Lookup, InScope
<1>. QED  BY <1>2, <1>3

-----------------------------------------------------------------------------
(* The steps of the others.                                                *)

Others ==
  \/ \E x \in Item : Create(x) \/ Delete(x)
  \/ \E batch \in SUBSET Txn \ {{}} : Store(batch)
  \/ \E x \in Agent, t \in Team : Move(x, t)

LEMMA OthersAre ==
  ASSUME Others
  PROVE  UNCHANGED <<ask, pc, scope, todo, found, cursor, returned>>
BY DEF Others, Create, Delete, Store, Move, lookup

LEMMA OthersKeep ==
  ASSUME LInv, Others, stable' \in SUBSET Item
  PROVE  TypeOK' /\ Lookup'
<1>. USE OthersAre
<1>1. ASSUME NEW x \in Item, Create(x) PROVE TypeOK' /\ Lookup'
  BY <1>1 DEF Create, LInv, TypeOK, Lookup, InScope
<1>2. ASSUME NEW x \in Item, Delete(x) PROVE TypeOK' /\ Lookup'
  <2>1. \A y \in rows' \cap Txn : {OfAgent[y], OfTool[y]} \subseteq rows'
    BY <1>2, KindAssumption, OfAssumption DEF Delete, LInv, TypeOK
  <2>. QED  BY <1>2, <2>1 DEF Delete, LInv, TypeOK, Lookup, InScope
<1>3. ASSUME NEW batch \in SUBSET Txn, Store(batch) PROVE TypeOK' /\ Lookup'
  BY <1>3, KindAssumption DEF Store, LInv, TypeOK, Lookup, InScope
<1>4. ASSUME NEW x \in Agent, NEW t \in Team, Move(x, t) PROVE TypeOK' /\ Lookup'
  <2>1. TypeOK'
    BY <1>4 DEF Move, LInv, TypeOK
  <2>2. \A a \in Agent : InScope(a) => InScope(a)'
    BY <1>4 DEF Move, LInv, TypeOK, InScope
  <2>3. Lookup'
    BY <1>4, <2>2 DEF Move, LInv, TypeOK, Lookup
  <2>. QED  BY <2>1, <2>3
<1>. QED  BY <1>1, <1>2, <1>3, <1>4 DEF Others

-----------------------------------------------------------------------------
(* Every step is a page, or a change of what the client sees.              *)

LEMMA StepIs ==
  ASSUME Step
  PROVE  Request \/ Resolve \/ (\E n \in 1 .. MaxPage : Answer(n)) \/ Others
<1>1. MaxPage \in 1 .. MaxPage /\ Limit \subseteq 1 .. MaxPage
  BY MaxPageAssumption, LimitAssumption
<1>. QED  BY <1>1 DEF Step, Summarise, Others

(* A walk begins with an answer alone; otherwise nothing that was seen all *)
(* along is forgotten but what is out of sight.                            *)
LEMMA StableIs ==
  ASSUME LInv, Next
  PROVE  /\ Begins => Visible' = Visible /\ stable' = Visible
         /\ ~ Begins => stable' = stable \cap Visible'
         /\ stable' \in SUBSET Item
<1>1. ASSUME Begins PROVE Visible' = Visible
  <2>1. CASE Request \/ Resolve
    BY <1>1, <2>1, RequestIs DEF Begins, Resolve
  <2>2. ASSUME NEW n \in 1 .. MaxPage, Answer(n) PROVE Visible' = Visible
    BY <2>2, AnswerIs
  <2>3. CASE Others
    BY <1>1, <2>3, OthersAre DEF Begins
  <2>. QED  BY <2>1, <2>2, <2>3, StepIs DEF Next
<1>2. /\ Begins => stable' = Visible
      /\ ~ Begins => stable' = stable \cap Visible'
  BY DEF Next
<1>3. stable' \in SUBSET Item
  BY <1>2, VisibleIs DEF LInv, TypeOK
<1>. QED  BY <1>1, <1>2, <1>3

LEMMA LNext == LInv /\ [Next]_vars => LInv'
<1>. SUFFICES ASSUME LInv, [Next]_vars PROVE LInv'
  OBVIOUS
<1>1. CASE Next
  <2>1. TypeOK' /\ Lookup'
    BY <1>1, StableIs, StepIs, RequestKeeps, ResolveKeeps, AnswerKeeps, OthersKeep DEF Next
  <2>2. Seen'
    BY <1>1, StableIs DEF Seen
  <2>. QED  BY <2>1, <2>2 DEF LInv
<1>2. CASE UNCHANGED vars
  BY <1>2 DEF vars, tables, lookup, LInv, TypeOK, Lookup, InScope, Seen, Visible
<1>. QED  BY <1>1, <1>2

LEMMA LInit == Init => LInv
<1>. SUFFICES ASSUME Init PROVE LInv
  OBVIOUS
<1>1. ask \in Ask
  BY DEF Init, Asks, AgentAsks, MemberAsks, ToolAsks, AdminAsks
<1>2. rows \cap Txn = {} /\ rows \in SUBSET Item
  BY KindAssumption DEF Init
<1>. QED  BY <1>1, <1>2 DEF Init, LInv, TypeOK, Ask, Lookup, InScope, Seen

(* Between its statements a report knows the agents it has found, and they *)
(* were of the teams it was asked for when it looked.                      *)
THEOREM Listed == Spec => []LInv
BY LInit, LNext, PTL DEF Spec

(* The tables keep their foreign keys, and a walk its state, whatever is   *)
(* created, stored, moved and deleted between its requests.                *)
THEOREM ListingTypes == Spec => []TypeOK
<1>1. LInv => TypeOK
  BY DEF LInv
<1>. QED  BY <1>1, Listed, PTL

LEMMA AnswerFetches ==
  ASSUME LInv, Next, NEW n \in 1 .. MaxPage, Answer(n)
  PROVE  P!Fetch(n)
<1>1. Walk # "end" /\ (Walk = "idle" <=> cursor = {}) /\ pc' # "query"
  BY AnswerIs DEF Walk
<1>2. Walk' = IF Cardinality(Remaining(Visible, At, cursor)) > n THEN "more" ELSE "end"
  BY AnswerIs DEF Walk
<1>3. stable' = IF Walk = "idle" THEN Visible ELSE stable
  BY <1>1, AnswerIs, StableIs DEF Begins, LInv, Seen
<1>. QED  BY <1>1, <1>2, <1>3, AnswerIs, SamePages DEF P!Fetch

LEMMA OtherwiseChanges ==
  ASSUME LInv, LInv', Next, Request \/ Resolve \/ Others
  PROVE  P!Change
<1>1. ~ Begins /\ UNCHANGED <<cursor, returned>>
  BY RequestIs, OthersAre DEF Resolve, Begins
<1>2. Walk' = Walk
  BY <1>1, RequestIs, OthersAre DEF Walk, Resolve
<1>3. Visible' \in SUBSET Item
  <2>1. (TypeOK => Visible \in SUBSET Item)'
    BY VisibleIs, PTL
  <2>. QED  BY <2>1 DEF LInv
<1>. QED  BY <1>1, <1>2, <1>3, StableIs DEF P!Change

(* Every listing, as the handlers and stores page it, is a walk: its pages *)
(* are PageWalk's, whatever else happens is a change of what it sees.      *)
THEOREM ListingIsAWalk == Spec => PageSpec
<1>1. Init => P!Init
  <2>1. Init => Visible \in SUBSET Item
    BY LInit, VisibleIs DEF LInv
  <2>. QED  BY <2>1 DEF Init, P!Init, Walk
<1>2. LInv /\ LInv' /\ [Next]_vars => [P!Next]_(P!vars)
  <2>. SUFFICES ASSUME LInv, LInv', [Next]_vars PROVE [P!Next]_(P!vars)
    OBVIOUS
  <2>1. ASSUME Next PROVE P!Next
    BY <2>1, StepIs, AnswerFetches, OtherwiseChanges DEF Next, P!Next
  <2>2. CASE UNCHANGED vars
    BY <2>2 DEF vars, tables, lookup, P!vars, Visible, Walk
  <2>. QED  BY <2>1, <2>2
<1>. QED  BY <1>1, <1>2, Listed, PTL DEF Spec, PageSpec, P!Spec

(* So when a listing comes to its end, no row is missing that its client   *)
(* could see ever since the first page.                                    *)
THEOREM ListingComplete == Spec => []CompleteWalk
BY ListingIsAWalk, WalkComplete, PTL

(* ... and none was given twice, nor out of order.                         *)
THEOREM ListingDescends == Spec => DescendingPages
BY ListingIsAWalk, WalkDescends, PTL

(* A report holds only calls of the agents and tools it is about: of the   *)
(* teams as they were when they were looked up, however agents are moved   *)
(* between the lookups and the query; an empty lookup apart.               *)
THEOREM ScopeKeptHolds == Spec => ScopeKept
<1>. DEFINE Kept(x) ==
              /\ ByTeam(ask) =>
                   scope = {} \/ team[OfAgent[x]] \in ask.teams \/ OfAgent[x] \in moved
              /\ ~ ByTeam(ask) /\ ask.agents # {} => OfAgent[x] \in ask.agents
              /\ ask.match # {} => OfTool[x] \in ask.match
<1>1. ASSUME LInv, Next, NEW x \in Answered \cap Txn
      PROVE  Kept(x)
  <2>1. PICK n \in 1 .. MaxPage : Answer(n)
    BY <1>1, StepIs, RequestIs, OthersAre DEF Next, Resolve, Answered
  <2>2. x \in Visible /\ pc = "query"
    BY <1>1, <2>1, AnswerIs DEF Answered
  <2>3. ask.of = "usage"
    BY <1>1, <2>2, VisibleIs, AskFields, KindAssumption DEF LInv, AgentsOf, ToolsOf
  <2>4. x \in Where(rows, ask, scope)
    BY <1>1, <2>2, <2>3, VisibleIs DEF LInv
  <2>. QED  BY <1>1, <2>2, <2>4 DEF Where, LInv, Lookup, InScope
<1>2. LInv /\ [Next]_vars => [\A x \in Answered \cap Txn : Kept(x)]_vars
  BY <1>1
<1>. QED  BY <1>2, Listed, PTL DEF Spec, ScopeKept
=============================================================================
