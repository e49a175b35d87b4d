----------------------------- MODULE MCListings -----------------------------
(* Two agents, two teams, one tool and three calls; two rows share a time, *)
(* so that ids decide.  Pages of one or two rows.                          *)
EXTENDS Listings, TLC

CONSTANTS a1, a2, o1, x1, x2, x3

MCOfAgent == (x1 :> a1) @@ (x2 :> a2) @@ (x3 :> a1)
MCOfTool == (x1 :> o1) @@ (x2 :> o1) @@ (x3 :> o1)
MCAt == (a1 :> <<1, 1>>) @@ (a2 :> <<1, 2>>) @@ (o1 :> <<2, 3>>) @@
        (x1 :> <<3, 4>>) @@ (x2 :> <<3, 5>>) @@ (x3 :> <<4, 6>>)
=============================================================================
