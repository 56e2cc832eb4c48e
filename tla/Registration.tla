------------------------------ MODULE Registration -----------------------------
(***************************************************************************)
(* The two ways in: an administrator creates a member (CreateUser), and    *)
(* somebody registers an e-mail address by a code (SignUp).  They meet in  *)
(* the users table: a sign-up is refused once a member has the address.    *)
(***************************************************************************)
EXTENDS Naturals, Sequences, FiniteSets

CONSTANTS Creators, Members, PoolSize,
          Handlers, LimitSend, LimitCheck, Life, MaxCodes, MaxTime, MaxClients,
          Address,       \* the e-mail that SignUp is about
          QuietCodes     \* bound: codes drawn, and connections scanned on, in a
                         \* state with creations and sign-ups

VARIABLES free, rows, draft, logged, creating,
          record, drawn, queue, inbox, lost, clients, time, handling,
          mails, tried, stale, raced

C == INSTANCE CreateUser WITH Handlers <- Creators
S == INSTANCE SignUp

ASSUME RegistrationAssumption == C!CreateConstants /\ S!SignUpConstants /\ QuietCodes \in Nat

createVars == <<free, rows, draft, logged, creating>>
signUpVars == <<record, drawn, queue, inbox, lost, clients, time, handling,
                mails, tried, stale, raced>>
vars == <<createVars, signUpVars>>

Init == C!Init /\ S!Init

\* findEmail sees what is committed.
Registered == \E r \in rows : r[1] = "users" /\ r[2].email = Address

CreateStep == C!Next /\ UNCHANGED signUpVars
SignUpStep == S!Next(Registered) /\ UNCHANGED createVars

\* Bound: the two state spaces are explored side by side, and together for one
\* creation at a time and the first codes.
Bounded == \/ rows = {} /\ logged = {} /\ \A h \in Creators : ~C!Open(h)
           \/ drawn = 0 /\ clients = 0
           \/ /\ Cardinality({h \in Creators : C!Open(h)}) <= 1
              /\ Cardinality({r[2] : r \in logged}) <= 1
              /\ drawn <= QuietCodes /\ clients <= QuietCodes /\ time = 0

Next == (CreateStep \/ SignUpStep) /\ Bounded'

Spec == Init /\ [][Next]_vars /\ C!Fairness

-----------------------------------------------------------------------------

\* Members differ in e-mail, phone and name (CreateUser).
ContactsAreUnique == C!ContactsAreUnique

\* A member is committed with all that belongs to him (CreateUser).
MembersAreWhole == C!MembersAreWhole

\* Every creation ends, full pool or not (CreateUser).
CreationsEnd == C!CreationsEnd

\* The record counts the codes that are mailed and tried, and keeps their limits,
\* but for codes whose request was cut before the count was stored, and stale
\* writes (SignUp).
CodesAreLimited == S!CountersAreTrue

\* A minute passes before a code is mailed again, with the same exceptions (SignUp).
OneCodeAMinute == [][S!MinutePasses]_vars

\* No code is stored that nobody sends (SignUp).
StoredCodeWasSent == S!StoredCodeWasSent
=============================================================================
