-------------------------------- MODULE MCRoleSync -------------------------------
\* RoleSync on small sets, for TLC.
EXTENDS RoleSync, TLC

Symmetry == Permutations(Handlers) \cup Permutations(Roles)
=============================================================================
