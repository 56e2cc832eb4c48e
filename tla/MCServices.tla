------------------------------- MODULE MCServices -------------------------------
\* Services with three members, of whom two are of an age, for TLC.
EXTENDS Services

MCAge == [m \in Members |-> IF m > 1 THEN 2 ELSE 1]
MCRoles == [m \in Members |-> m % 3]
Plain == [list |-> "users", sortBy |-> "none", sortOrder |-> "none", role |-> FALSE]
MCRequests == {Plain,
               [Plain EXCEPT !.sortBy = "created_at", !.sortOrder = "ASC"],
               [Plain EXCEPT !.sortBy = "age", !.sortOrder = "ASC"],
               [Plain EXCEPT !.sortBy = "other", !.sortOrder = "DESC", !.role = TRUE],
               [Plain EXCEPT !.list = "nodes"]}
=============================================================================
