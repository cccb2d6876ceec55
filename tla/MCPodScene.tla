---- MODULE MCPodScene ----
EXTENDS PodScene, TLC

Symmetry == Permutations(Pods)
====
