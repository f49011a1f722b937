-------------------------- MODULE MCDeployPipeline --------------------------
(* The instances of DeployPipeline that TLC explores. *)
EXTENDS DeployPipeline, TLC

\* Rows, requests and people have no identity of their own.
Symmetry == Permutations(Deployments) \cup Permutations(Handlers)
              \cup Permutations(Releases) \cup Permutations(Users)
=============================================================================
