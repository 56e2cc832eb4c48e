------------------------------ MODULE MemberSearch -----------------------------
(***************************************************************************)
(* The paginated lists: GET user-admin (BaseService.search over            *)
(* UserQueryBuilder) and GET dmn-nodes (NodeService.getAll), read page     *)
(* after page by a client while members come and go.  findAndCountAll is   *)
(* two queries, sent together and each on a connection of its own, and no  *)
(* order but that of created_at is unique: PostgreSQL may put rows that    *)
(* are equal in any order, and in another one for the next page.           *)
(***************************************************************************)
EXTENDS Naturals, Sequences, FiniteSets, FiniteSetsExt, SequencesExt

CONSTANTS Members,       \* 1, 2, ..., in the order of created_at
          Age,           \* [Members -> Nat], a column that may repeat
          Roles,         \* [Members -> Nat], how many roles a member has
          Requests,      \* the queries a client walks with: see Asked
          Limit,         \* the page size the client asks for
          LastPage,      \* @Max of page in PaginationQueryDto (10)
          MaxMoves       \* bound: members who come or go during a walk

\* list, sortBy, sortOrder and role_id (given or not) of a request.
Asked == [list : {"users", "nodes"}, sortBy : {"age", "created_at", "other", "none"},
          sortOrder : {"ASC", "DESC", "none"}, role : BOOLEAN]

\* What is assumed of them (by Services).
SearchConstants == /\ Members \subseteq Nat /\ IsFiniteSet(Members)
                   /\ Roles \in [Members -> Nat]
                   /\ Requests \subseteq Asked /\ Limit \in Nat \ {0} /\ LastPage \in Nat

VARIABLES shown,         \* the members that satisfy the filter
          asked,         \* the client's query
          page,          \* the page it is asking for
          rows, total,   \* what the two queries of this page have returned ...
          waiting,       \* ... and which of them have not, of {"rows", "count"}
          seen,          \* members on the pages so far: <<page, member>>
          at,            \* "query", "done"
          moves,
          stayed,        \* history: members shown since the walk began
          came, left,    \* history: has somebody come, gone during the walk?
          torn           \* history: has somebody come between two queries of a page?

searchVars == <<shown, asked, page, rows, total, waiting, seen, at, moves, stayed, came, left, torn>>

Both == {"rows", "count"}

Init == /\ shown \in SUBSET Members
        /\ asked \in Requests
        /\ page = 1 /\ rows = <<>> /\ total = 0 /\ waiting = Both
        /\ seen = {} /\ at = "query"
        /\ moves = 0 /\ stayed = shown
        /\ came = FALSE /\ left = FALSE /\ torn = FALSE

-----------------------------------------------------------------------------
(* The query.                                                              *)

\* sortableFields of UserQueryBuilder (here age and created_at).
Sortable == {"age", "created_at"}

\* buildOrder
BuiltOrder(q) == [column |-> IF q.sortBy \in Sortable THEN q.sortBy ELSE "created_at",
                  direction |-> IF q.sortOrder = "ASC" THEN "ASC" ELSE "DESC"]

\* BaseRepository.search heeds sortOrder, which getAll never passes, and no sortBy.
SearchOrder == [column |-> "created_at", direction |-> "DESC"]

OrderOf(q) == IF q.list = "users" THEN BuiltOrder(q) ELSE SearchOrder

Value(m, column) == IF column = "age" THEN Age[m] ELSE m

\* The sequences that ORDER BY admits.
Orderings(q) ==
    LET o == OrderOf(q) IN
    {s \in SetToSeqs(shown) :
       \A i, j \in DOMAIN s :
          i < j => IF o.direction = "ASC" THEN Value(s[i], o.column) <= Value(s[j], o.column)
                                          ELSE Value(s[i], o.column) >= Value(s[j], o.column)}

Offset_FromPage(p) == p * Limit
Offset(p) == (p - 1) * Limit

PageOf(s, p) == IF Offset(p) >= Len(s) THEN <<>>
                ELSE SubSeq(s, Offset(p) + 1, Min({Len(s), Offset(p) + Limit}))

\* COUNT over the join with roles, where a member is a row for each role, and one
\* without any; role_id joins one role only.  Nodes are counted with no join.
Joined == UNION {{m} \X ({1} \cup 1 .. Roles[m]) : m \in shown}
Count(q) == Cardinality(IF q.list = "nodes" \/ q.role THEN shown ELSE Joined)

-----------------------------------------------------------------------------

QueryRows ==
    /\ at = "query" /\ "rows" \in waiting
    /\ \E s \in Orderings(asked) : rows' = PageOf(s, page)
    /\ waiting' = waiting \ {"rows"}
    /\ UNCHANGED <<shown, asked, page, total, seen, at, moves, stayed, came, left, torn>>

QueryCount ==
    /\ at = "query" /\ "count" \in waiting
    /\ total' = Count(asked)
    /\ waiting' = waiting \ {"count"}
    /\ UNCHANGED <<shown, asked, page, rows, seen, at, moves, stayed, came, left, torn>>

\* The answer, which has no rows when the count was 0; the client goes on as long
\* as the total promises more, and as the list of users accepts the page.
Answer ==
    /\ at = "query" /\ waiting = {}
    /\ seen' = seen \cup {<<page, rows[i]>> : i \in IF total = 0 THEN {} ELSE DOMAIN rows}
    /\ IF page * Limit < total /\ (asked.list = "users" => page < LastPage)
       THEN page' = page + 1 /\ UNCHANGED at
       ELSE at' = "done" /\ UNCHANGED page
    /\ rows' = <<>> /\ total' = 0 /\ waiting' = Both
    /\ UNCHANGED <<shown, asked, moves, stayed, came, left, torn>>

\* A member is created last, so that it is the newest; one that the filter left
\* out may come back, however old.
ComeIn(m) ==
    /\ at = "query" /\ moves < MaxMoves
    /\ m \notin shown
    /\ shown' = shown \cup {m}
    /\ moves' = moves + 1 /\ came' = TRUE
    /\ torn' = (torn \/ waiting \notin {{}, Both})
    /\ UNCHANGED <<asked, page, rows, total, waiting, seen, at, stayed, left>>

\* A status, a role or another filtered column changes.
Leave(m) ==
    /\ at = "query" /\ moves < MaxMoves
    /\ m \in shown
    /\ shown' = shown \ {m}
    /\ stayed' = stayed \ {m}
    /\ moves' = moves + 1 /\ left' = TRUE
    /\ UNCHANGED <<asked, page, rows, total, waiting, seen, at, came, torn>>

Next == QueryRows \/ QueryCount \/ Answer \/ \E m \in Members : ComeIn(m) \/ Leave(m)

-----------------------------------------------------------------------------

\* With equal keys the order is the database's; created_at has none.
Unique(q) == OrderOf(q).column = "created_at"

\* Whoever was there all the while is on some page of the walk, although others
\* come: unless somebody left, came between the two queries of one page, the
\* order has ties, or the list is longer than the pages a client may ask for.
WalkMissesNobody ==
    /\ at = "done" /\ ~left /\ ~torn
    /\ Unique(asked)
    /\ asked.list = "users" => Cardinality(shown) <= LastPage * Limit
    => \A m \in stayed : \E p \in 1..page : <<p, m>> \in seen

\* Nobody is on two pages unless somebody came or the order has ties.
NobodyTwice ==
    ~came /\ Unique(asked) => \A s, t \in seen : s[2] = t[2] => s = t
=============================================================================
