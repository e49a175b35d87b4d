----------------------------- MODULE MCLimiter -----------------------------
(* Constant values for checking the limiter, and its two specifications side by  *)
(* side: a behaviour is one of RateBounds (calls on the key of one tool at the   *)
(* default rate or at a custom one) or one of Quotas (two requests of one agent, *)
(* who has a team, and one of an agent without a team; the team's limit is set   *)
(* from the start, those of the tool and of the first agent come and go).  They  *)
(* share the limiter's variables, and each leaves those of the other as they     *)
(* were.                                                                         *)
EXTENDS Quotas, RateBounds, TLC

CONSTANTS r1, r2, r3, a1, a2, g1

MCAgentOf(r) == IF r = r3 THEN a2 ELSE a1
MCTeamOf(a) == IF a = a1 THEN g1 ELSE NoTeam
MCAgentRate(a) == 0
MCToolRates(s) == IF s = TeamKey(g1) THEN {2} ELSE IF s = OwnKey(a2) THEN {0} ELSE {0, 1}
MCKeys == ScopeKeys \cup {AgentKey(a) : a \in Agents}
MCSymmetry == Permutations({r1, r2})

VARIABLE part       \* which of the two specifications this behaviour is of

MCInit ==
    /\ HInit /\ QInit
    /\ \/ part = "calls" /\ configured = [s \in ScopeKeys |-> CHOOSE c \in MCToolRates(s) : TRUE]
       \/ part = "requests" /\ mark = 0

Calls ==
    /\ part = "calls" /\ HNext
    /\ DOMAIN buckets' \subseteq {GlobalKey}
    /\ UNCHANGED <<part, admission, quotas>>

\* The requests' clock goes to one window.
Demands ==
    /\ part = "requests" /\ QNext
    /\ now' <= Window
    /\ UNCHANGED <<part, history>>

MCSpec == MCInit /\ [][Calls \/ Demands]_<<hvars, admission, quotas, part>>
============================================================================
