----------------------------- MODULE MCRegistry -----------------------------
(* One tool, two overlapping requests; one variable, set or not; a plain   *)
(* URL, a template that is a URL as it stands ("https://h/{v}") and one    *)
(* that is not ("https://{v}/").  Credentials are sent alone or with a     *)
(* plain URL, and never read by validation.                                *)
EXTENDS Registry, TLC

CONSTANTS NoVar, Var

MCVariables == {NoVar, Var}
Plain == [raw |-> TRUE, under |-> MCVariables]
PathTemplate == [raw |-> TRUE, under |-> {Var}]
HostTemplate == [raw |-> FALSE, under |-> {Var}]
MCEndpoint == {Plain, PathTemplate, HostTemplate}

MCBody ==
  {b \in Input :
     b.auth # Absent =>
       \/ b.mode = Absent /\ b.endpoint = Absent /\ b.variables = Absent
       \/ b.endpoint = Plain /\ b.variables = NoVar}

Symmetry == Permutations(Request)
=============================================================================
