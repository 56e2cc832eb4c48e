-------------------------------- MODULE ListCache --------------------------------
(***************************************************************************)
(* BaseService over RedisService: the pages of a list that getPagination   *)
(* keeps in Redis, and the invalidation that create, update and delete     *)
(* send ahead of their write.  A request is a sequence of awaits on two    *)
(* connections, one to Redis and one to PostgreSQL; create and update do   *)
(* not await the invalidation, which then runs beside the write.           *)
(*                                                                         *)
(* The rows are abstracted to the number of the last committed write: two  *)
(* pages with the same number show the same rows.  Time is counted in      *)
(* ticks, of which an entry lives TTL.  A request that finds its page in   *)
(* the cache changes nothing, and is not a step.                           *)
(***************************************************************************)
EXTENDS Integers, FiniteSets

CONSTANTS Keys,        \* the keys under which pages are cached
          Bare,        \* the key of a request without parameters
          Handlers,    \* the requests in flight at the same time
          None,        \* no page
          TTL,         \* life of an entry: 'EX', 30
          Delay,       \* bound on the ticks between a query and its SET
          MaxWrites    \* bound on the writes

ASSUME Bounds == TTL \in Nat \ {0} /\ Delay \in Nat /\ MaxWrites \in Nat

\* An entry: the rows it shows and the ticks it has left (0 would be an entry
\* without expiry).  The other two are history: the ticks since newer rows were
\* committed (no more of them are counted than tell a violation), and whether a
\* write was under way when it was read, or the invalidation meant for it was lost.
Entry == [rows : 0..MaxWrites, ttl : 1..TTL, stale : 0..TTL + Delay + 1, overlapped : BOOLEAN]

ASSUME NoneIsNoEntry == None \notin Entry

VARIABLES rows,    \* the table: the number of the last committed write
          cache,   \* what Redis holds
          req      \* what each request is in the middle of

vars == <<rows, cache, req>>

Idle == [at |-> "idle"]

\* getPagination that missed, and with what it read; create, update or delete
\* with the progress of its invalidation and of its write.
Read == [at : {"missed"}, key : Keys]
Page == [at : {"queried"}, key : Keys, rows : 0..MaxWrites, wait : 0..Delay,
         stale : 0..Delay, overlapped : BOOLEAN]
Write == [at : {"create", "update", "delete"}, clean : {"sent", "found", "done"},
          found : SUBSET Keys, written : BOOLEAN]

TypeOK == /\ rows \in 0..MaxWrites
          /\ cache \in [Keys -> Entry \cup {None}]
          /\ req \in [Handlers -> Read \cup Page \cup Write \cup {Idle}]

Init == /\ rows = 0
        /\ cache = [k \in Keys |-> None]
        /\ req = [h \in Handlers |-> Idle]

Writing(h) == req[h].at \in {"create", "update", "delete"}

\* The history that is kept when a write starts or an invalidation is lost:
\* the pages on their way to the cache, and those in it, are marked.
PagesMarked == [h \in Handlers |->
                  IF req[h].at = "queried" THEN [req[h] EXCEPT !.overlapped = TRUE] ELSE req[h]]
CacheMarked == [k \in Keys |->
                  IF cache[k] = None THEN None ELSE [cache[k] EXCEPT !.overlapped = TRUE]]

-----------------------------------------------------------------------------
(* getPagination.                                                          *)

\* cacheManage.get finds nothing.
Miss(h, k) ==
  /\ req[h] = Idle
  /\ cache[k] = None
  /\ req' = [req EXCEPT ![h] = [at |-> "missed", key |-> k]]
  /\ UNCHANGED <<rows, cache>>

\* repository.findWithPagination.
Query(h) ==
  /\ req[h].at = "missed"
  /\ req' = [req EXCEPT ![h] =
               [at |-> "queried", key |-> req[h].key, rows |-> rows, wait |-> 0, stale |-> 0,
                overlapped |-> \E w \in Handlers : Writing(w)]]
  /\ UNCHANGED <<rows, cache>>

\* cacheManage.set(..., 'EX', 30): whatever is there is replaced.
Store_NoExpiry(h) ==
  /\ req[h].at = "queried"
  /\ cache' = [cache EXCEPT ![req[h].key] =
                 [rows |-> req[h].rows, ttl |-> 0, stale |-> req[h].stale,
                  overlapped |-> req[h].overlapped]]
  /\ req' = [req EXCEPT ![h] = Idle]
  /\ UNCHANGED rows

Store(h) ==
  /\ req[h].at = "queried"
  /\ cache' = [cache EXCEPT ![req[h].key] =
                 [rows |-> req[h].rows, ttl |-> TTL, stale |-> req[h].stale,
                  overlapped |-> req[h].overlapped]]
  /\ req' = [req EXCEPT ![h] = Idle]
  /\ UNCHANGED rows

-----------------------------------------------------------------------------
(* create, update and delete, and the invalidation.                        *)

\* cleanCacheRedis sends KEYS, synchronously with the start of the request.
StartWrite(h, op) ==
  /\ req[h] = Idle
  /\ req' = [PagesMarked EXCEPT ![h] = [at |-> op, clean |-> "sent", found |-> {}, written |-> FALSE]]
  /\ UNCHANGED <<rows, cache>>

\* delCache: KEYS prefix:* finds what is cached under the prefix and a colon, so
\* never the bare key ...
FindKeys(h) ==
  /\ Writing(h)
  /\ req[h].clean = "sent"
  /\ req' = [req EXCEPT ![h].clean = "found",
                        ![h].found = {k \in Keys \ {Bare} : cache[k] # None}]
  /\ UNCHANGED <<rows, cache>>

\* ... and a pipeline of DEL removes what KEYS found.
DeleteKeys_NoExec(h) ==
  /\ Writing(h)
  /\ req[h].clean = "found"
  /\ req' = [req EXCEPT ![h].clean = "done"]
  /\ UNCHANGED <<rows, cache>>

DeleteKeys(h) ==
  /\ Writing(h)
  /\ req[h].clean = "found"
  /\ cache' = [k \in Keys |-> IF k \in req[h].found THEN None ELSE cache[k]]
  /\ req' = [req EXCEPT ![h].clean = "done"]
  /\ UNCHANGED rows

\* A Redis error: cleanCacheRedis logs it and the request goes on.
CleanFails(h) ==
  /\ Writing(h)
  /\ req[h].clean # "done"
  /\ cache' = CacheMarked
  /\ req' = [PagesMarked EXCEPT ![h].clean = "done"]
  /\ UNCHANGED rows

\* The write, which delete alone keeps back until the invalidation is through.
\* It changes no row when it fails (update swallows the error) or finds none.
Commit(h) ==
  /\ Writing(h)
  /\ ~ req[h].written
  /\ req[h].at = "delete" => req[h].clean = "done"
  /\ rows' \in {rows, rows + 1} \cap 0..MaxWrites
  /\ req' = [req EXCEPT ![h].written = TRUE]
  /\ UNCHANGED cache

\* Both are through.
EndWrite(h) ==
  /\ Writing(h)
  /\ req[h].written
  /\ req[h].clean = "done"
  /\ req' = [req EXCEPT ![h] = Idle]
  /\ UNCHANGED <<rows, cache>>

-----------------------------------------------------------------------------
(* Time, and the end of the process.                                       *)

\* Redis drops an entry whose time is up.
Older(e) ==
  IF e.ttl = 1 THEN None
  ELSE [e EXCEPT !.ttl = IF @ = 0 THEN 0 ELSE @ - 1,
                 !.stale = IF e.rows = rows \/ @ > TTL + Delay THEN @ ELSE @ + 1]

Tick ==
  /\ \A h \in Handlers : req[h].at = "queried" => req[h].wait < Delay
  /\ cache' = [k \in Keys |-> IF cache[k] = None THEN None ELSE Older(cache[k])]
  /\ req' = [h \in Handlers |->
               IF req[h].at = "queried"
               THEN [req[h] EXCEPT !.wait = @ + 1,
                                   !.stale = IF req[h].rows = rows THEN 0 ELSE @ + 1]
               ELSE req[h]]
  /\ UNCHANGED rows

\* The process dies; Redis and the table stay, invalidations under way are lost.
Crash ==
  /\ \E h \in Handlers : req[h] # Idle
  /\ cache' = CacheMarked
  /\ req' = [h \in Handlers |-> Idle]
  /\ UNCHANGED rows

Step(h) == \/ Query(h) \/ Store(h)
           \/ FindKeys(h) \/ DeleteKeys(h) \/ CleanFails(h) \/ Commit(h) \/ EndWrite(h)

Next == \/ \E h \in Handlers :
             \/ \E k \in Keys : Miss(h, k)
             \/ \E op \in {"create", "update", "delete"} : StartWrite(h, op)
             \/ Step(h)
        \/ Tick
        \/ Crash

Spec == Init /\ [][Next]_vars

\* Redis and PostgreSQL answer, the event loop resumes what they settle, and
\* time passes.
FairSpec == /\ Spec
            /\ \A h \in Handlers : WF_vars(Step(h))
            /\ WF_vars(Tick)

-----------------------------------------------------------------------------
(* Properties.                                                             *)

\* Whatever requests overlap, fail or die, a page in the cache showed the rows of
\* the table less than TTL + Delay ticks ago: the expiry bounds what the
\* invalidation, sent ahead of the write, lets through.
StaleForATimeOnly == \A k \in Keys : cache[k] # None => cache[k].stale < TTL + Delay

\* The invalidation is enough for reads and writes that do not overlap: with no
\* write under way, a page that was read beside none shows the table's rows.
FreshUnlessOverlapped ==
  (\A h \in Handlers : ~ Writing(h)) =>
    \A k \in Keys \ {Bare} :
      cache[k] # None /\ ~ cache[k].overlapped => cache[k].rows = rows

\* Once the writes cease, the cache comes to show the table, and stays with it.
Converges == <>[](\A k \in Keys : cache[k] # None => cache[k].rows = rows)
=============================================================================
