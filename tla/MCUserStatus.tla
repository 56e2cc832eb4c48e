------------------------------ MODULE MCUserStatus ------------------------------
\* UserStatus on small sets, for TLC.
EXTENDS UserStatus, TLC

\* Users and handlers are only compared: any renaming of them is a symmetry of
\* the specification and of its safety properties.
Symmetry == Permutations(Users) \cup Permutations(Handlers)
=============================================================================
