------------------------------ MODULE MCAssets ------------------------------
\* Assets with interchangeable requests and facilities.
EXTENDS Assets, TLC

Symmetry == Permutations(Requests) \cup Permutations(Facilities)

=============================================================================
