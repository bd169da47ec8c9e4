---------------------------- MODULE MCDeployment ----------------------------
(* Instances of Deployment for TLC. *)
EXTENDS Deployment, TLC

VersionSymmetry == Permutations(Versions)
=============================================================================
