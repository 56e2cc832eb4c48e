--------------------------------- MODULE Services -------------------------------
(***************************************************************************)
(* The smaller parts of the application, which share no state: the lists   *)
(* that clients page through, the records kept by BaseService, the rate    *)
(* limit and the linked lists.  A behaviour is one of one part, picked at  *)
(* the start; the others stay as they were made.                           *)
(***************************************************************************)
EXTENDS Naturals, FiniteSets, Sequences

CONSTANTS Members, Age, Roles, Requests, Limit, LastPage, MaxMoves,
          Clients, Ids, Names, NoName,
          Callers, RateMost, Ttl, Most,
          Data, MaxSize

VARIABLES part,
          shown, asked, page, rows, total, waiting, seen, at, moves, stayed, came, left, torn,
          row, born, audit, call, told, deletions,
          count, remaining, guard, abandoned,
          lists

Search == INSTANCE MemberSearch
Record == INSTANCE Records
Rate == INSTANCE RateLimit WITH Limit <- RateMost, left <- remaining
List == INSTANCE LinkedLists

ASSUME ServicesAssumption == Search!SearchConstants /\ Rate!RateConstants /\ MaxSize \in Nat

searchVars == <<shown, asked, page, rows, total, waiting, seen, at, moves, stayed, came, left, torn>>
recordVars == <<row, born, audit, call, told, deletions>>
limitVars == <<count, remaining, guard, abandoned>>
vars == <<part, searchVars, recordVars, limitVars, lists>>

Init == /\ part \in {"search", "records", "rate", "lists"}
        /\ Record!Init /\ Rate!Init /\ List!Init
        /\ Search!Init
        /\ part # "search" => /\ shown = {}
                              /\ asked = CHOOSE q \in Requests : TRUE

SearchStep == part = "search" /\ Search!Next /\ UNCHANGED <<part, recordVars, limitVars, lists>>
RecordStep == part = "records" /\ Record!Next /\ UNCHANGED <<part, searchVars, limitVars, lists>>
RateStep == part = "rate" /\ Rate!Next /\ UNCHANGED <<part, searchVars, recordVars, lists>>
ListStep == part = "lists" /\ List!Next /\ UNCHANGED <<part, searchVars, recordVars, limitVars>>

Next == SearchStep \/ RecordStep \/ RateStep \/ ListStep

Spec == Init /\ [][Next]_vars /\ Rate!Fairness

-----------------------------------------------------------------------------

\* A walk over a list's pages shows whoever was there all the while, and shows
\* nobody twice, under the conditions that MemberSearch states for each.
PagesTellTheList == Search!WalkMissesNobody /\ Search!NobodyTwice

\* What a client is told of a record is so (Records).
AnswersAreTrue == Record!AnswersAreTrue

\* What is reported done is in the audit log (Records).
DoneIsLogged == Record!DoneIsLogged

\* A refused client is let in again (RateLimit).
RefusalsEnd == Rate!RefusalsEnd

\* The linked lists implement DequeSpec (LinkedLists).
ListsAreSequences == List!ListsAreSequences
=============================================================================
