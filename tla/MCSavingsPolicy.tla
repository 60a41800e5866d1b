--------------------------- MODULE MCSavingsPolicy ---------------------------
(***************************************************************************)
(* Two deployments; policies that target all of them, all but one, one by  *)
(* its name, or none.                                                      *)
(***************************************************************************)
EXTENDS SavingsPolicy

All == [name |-> AnyName, ignore |-> FALSE]
Only(d) == [name |-> d, ignore |-> FALSE]
Not(d) == [name |-> d, ignore |-> TRUE]

MCDeployments == {"web", "job"}
MCReplicas == [d \in MCDeployments |-> IF d = "web" THEN 2 ELSE 1]
MCTargetLists == { {All}, {All, Not("web")}, {Only("web")}, {} }
=============================================================================
