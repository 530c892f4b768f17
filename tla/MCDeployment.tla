---------------------------- MODULE MCDeployment ----------------------------
(* Two keepers on two chains, three runs of the bootstrap script among      *)
(* other users of the Circle account; two agents that commit one decision   *)
(* each of two bodies, and four that are registered with two codes.         *)
EXTENDS Deployment, TLC
CONSTANTS h1, h2, c1
Bodies == Permutations({h1, h2})
=============================================================================
