--------------------------- MODULE MCGenerateBrief ---------------------------
(* Model values and symmetry for checking GenerateBrief with TLC. *)
EXTENDS GenerateBrief, TLC

\* Handler invocations, and people, are interchangeable.
BriefSymmetry == Permutations(Runs) \cup Permutations(Audiences)
=============================================================================
