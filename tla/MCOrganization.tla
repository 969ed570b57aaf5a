--------------------------- MODULE MCOrganization ---------------------------
\* Organization on small instances, for TLC.
EXTENDS Organization, TLC

Symmetry == Permutations(Person) \cup Permutations(Request)
=============================================================================
