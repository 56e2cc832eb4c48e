---------------------------- MODULE AccountLifecycle ----------------------------
(***************************************************************************)
(* What the account service promises about a user's status: it moves only  *)
(* along the transitions the status strategies allow, each in one step.    *)
(* Written from src/modules/users/strategies/userStatusStrategy.ts and     *)
(* from UserService.restoreUser.                                           *)
(***************************************************************************)

CONSTANT Users   \* the rows of the table users

VARIABLE status  \* the committed column users.status

\* enum Status of user.model.ts.
Status == {"active", "inactive", "pending", "suspended", "archived"}

\* The statuses each strategy accepts the user to be in before it moves the
\* user to the status that indexes the record.  The factory has no strategy for
\* "pending": it throws "Cannot manually transition back to PENDING".
Allowed == [active    |-> {"pending", "inactive", "suspended"},
            inactive  |-> {"active"},
            suspended |-> {"active"},
            archived  |-> Status \ {"archived"},
            pending   |-> {}]

Init == status = [u \in Users |-> "pending"]

\* changeUserStatus: one validated move.
Change(u, target) == /\ status[u] \in Allowed[target]
                     /\ status' = [status EXCEPT ![u] = target]

\* restoreUser: an archived account goes back to where a new one starts.
Restore(u) == /\ status[u] = "archived"
              /\ status' = [status EXCEPT ![u] = "pending"]

Next == \E u \in Users : Restore(u) \/ \E target \in Status : Change(u, target)

Spec == Init /\ [][Next]_status
=============================================================================
