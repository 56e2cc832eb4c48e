-------------------------------- MODULE MCAccess -------------------------------
\* Access with two roles and a split permission, for TLC.
EXTENDS Access, TLC

CONSTANTS r1, r2, p1, p2, A, h1, h2

MCGrants == p1 :> [resource |-> "x", action |-> "read"] @@
            p2 :> [resource |-> "y", action |-> "write"]
MCWanted == [resource |-> "x", action |-> "write"]
MCSeeds == [name : {r1 :> A @@ r2 :> DefaultName}, granted : {{<<r1, p1>>, <<r2, p2>>}},
            assigned : {{}, {r1, r2}}]

Symmetry == Permutations({h1, h2})
=============================================================================
