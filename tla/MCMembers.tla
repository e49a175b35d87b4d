----------------------------- MODULE MCMembers -----------------------------
(* Two users, two teams: three overlapping requests and three lists an      *)
(* administrator may send: nothing, one team, and a list that names t1      *)
(* twice besides t2.                                                        *)
EXTENDS Members, TLC

CONSTANTS a, b, t1, t2

Memberships(m1, m2) == (t1 :> m1) @@ (t2 :> m2)

MCLists == { NoTeams, Memberships(<<"admin">>, <<>>),
             Memberships(<<"member", "admin">>, <<"admin">>) }
MCPlainLists == {NoTeams, Memberships(<<"admin">>, <<>>)}

(* An organisation admin beside a member of both teams; two team admins    *)
(* who can remove each other; an organisation admin alone.                 *)
MCTwoAdmins ==
  { (a :> [role |-> "member", teams |-> Memberships(<<"admin">>, <<"admin">>)]) @@
    (b :> [role |-> "member", teams |-> Memberships(<<"admin">>, <<>>)]) }
MCStart ==
  MCTwoAdmins \cup
  { (a :> [role |-> "org_admin", teams |-> Memberships(<<"admin">>, <<>>)]) @@
    (b :> [role |-> "member", teams |-> Memberships(<<"admin">>, <<"member">>)]),
    (a :> [role |-> "org_admin", teams |-> NoTeams]) @@ (b :> NoRow) }

Symmetry == Permutations(Request)
=============================================================================
