---------------------------- MODULE DeploymentMC ----------------------------
(***************************************************************************)
(* Small instances of Deployment: three releases, two with a new           *)
(* migration.  They start in any order, the old one after the new included.*)
(***************************************************************************)
EXTENDS Deployment

Schemas == [d \in {"d1", "d2", "d3"} |-> IF d = "d1" THEN 1 ELSE 2]
=============================================================================
