-------------------------- MODULE MCVersionManager --------------------------
\* Instances of VersionManager for TLC.
EXTENDS VersionManager, TLC

Symmetry == Permutations(Requests) \cup Permutations(Contents)
=============================================================================
