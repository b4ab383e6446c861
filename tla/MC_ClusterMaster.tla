------------------------- MODULE MC_ClusterMaster -------------------------
(* Model-checking instance of ClusterMaster: client names and worker slots *)
(* are model values.                                                      *)
EXTENDS ClusterMaster, TLC

\* Names and worker slots are interchangeable; used for safety runs only.
MC_Symmetry == Permutations(Nodes) \cup Permutations(Slots)
=============================================================================
