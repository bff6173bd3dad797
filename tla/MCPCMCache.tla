----------------------------- MODULE MCPCMCache -----------------------------
(* Symmetry for the runs of PCMCache.                                      *)
EXTENDS PCMCache, TLC

\* Keys are interchangeable (used by runs of invariants and action properties).
Symmetry == Permutations(Keys)

=============================================================================
