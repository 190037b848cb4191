----------------------------- MODULE MCGateway -----------------------------
\* Gateway with interchangeable handlers and instances.
EXTENDS Gateway, TLC

Symmetry == Permutations(Requests) \cup Permutations(Instances)

=============================================================================
