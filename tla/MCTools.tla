------------------------------ MODULE MCTools ------------------------------
(* Constant values for checking the registry and the budgets side by side: a     *)
(* behaviour is one of Registry (one tool and two overlapping requests of        *)
(* administrators, as in MCRegistry) or one of Budgets (two requests of one      *)
(* agent whose budget, like the tool's, comes and goes over two months), and     *)
(* leaves the variables of the other as they were.                               *)
EXTENDS MCRegistry, Budgets

CONSTANTS a1

MCAgentOf(r) == a1
MCBudgets == {[daily |-> 2, monthly |-> 3]}
MCCaps == {[limit |-> 0, window |-> "monthly"], [limit |-> 3, window |-> "daily"]}

MCSymmetry == Symmetry \cup Permutations(Requests)

VARIABLE part       \* which of the two specifications this behaviour is of

MCInit ==
    /\ Init /\ BInit
    /\ \/ part = "tools"
          /\ \A a \in Agents : budget[a] = CHOOSE b \in Budgets \cup {NoBudget} : TRUE
       \/ part = "spending" /\ ~keyed

Tools == part = "tools" /\ Next /\ UNCHANGED <<part, bvars>>

Spending == part = "spending" /\ BNext /\ UNCHANGED <<part, vars>>

MCSpec == MCInit /\ [][Tools \/ Spending]_<<part, vars, bvars>>
============================================================================
