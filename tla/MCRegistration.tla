---------------------------- MODULE MCRegistration ----------------------------
\* Registration with two members who share a name, for TLC.
EXTENDS Registration

MCMembers == {[email |-> 1, phone |-> 1, name |-> 1], [email |-> 2, phone |-> 2, name |-> 1]}
=============================================================================
