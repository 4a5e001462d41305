---------------------------- MODULE MCDeployment ----------------------------
(* A helm release and raw objects on one cluster, with two manifests that
   have a service in common and a workload each. *)
EXTENDS Deployment, TLC

CONSTANTS m1, m2

MCManifests == {m1, m2}

MCInstances == {"chart", "objects"}

MCCodeType == [i \in MCInstances |-> IF i = "chart" THEN "helm" ELSE "raw"]

(* Named after the manifests that have them. *)
MCResourcesOf == [m \in MCManifests |-> {{m}, MCManifests}]

MCWorkloads == {{m} : m \in MCManifests}

MCSymmetry == Permutations(MCManifests)

=============================================================================
