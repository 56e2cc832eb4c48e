----------------------------- MODULE ListCacheProofs -----------------------------
(***************************************************************************)
(* Proofs about ListCache, for any keys, any number of requests, any life  *)
(* of an entry and any bound on the delay of a SET.                        *)
(***************************************************************************)
EXTENDS ListCache, TLAPS

NoWriter == \A w \in Handlers : ~ Writing(w)

\* A page or an entry has been out of date for at most the time it has been on
\* its way and in the cache.
PageAges == \A h \in Handlers : req[h].at = "queried" => req[h].stale <= req[h].wait
EntryAges == \A k \in Keys : cache[k] # None => cache[k].stale + cache[k].ttl <= TTL + Delay

\* A page that no write has overlapped is read beside none, and still current.
PagesAreCurrent ==
  \A h \in Handlers : req[h].at = "queried" /\ ~ req[h].overlapped =>
    NoWriter /\ req[h].rows = rows

\* The invalidation of the write w is still to remove the entry of k.
WillDelete(w, k) == req[w].clean = "sent" \/ (req[w].clean = "found" /\ k \in req[w].found)

\* An entry that no write has overlapped is current, or every write under way is
\* still to remove it.
EntriesAreCurrent ==
  \A k \in Keys \ {Bare} : cache[k] # None /\ ~ cache[k].overlapped =>
    /\ \A w \in Handlers : Writing(w) => WillDelete(w, k)
    /\ NoWriter => cache[k].rows = rows

IInv == TypeOK /\ PageAges /\ EntryAges /\ PagesAreCurrent /\ EntriesAreCurrent

-----------------------------------------------------------------------------
(* What the stage of a request says about its record.                      *)

LEMMA Stages ==
  ASSUME TypeOK, NEW h \in Handlers
  PROVE  /\ req[h].at = "missed" => req[h] \in Read
         /\ req[h].at = "queried" => req[h] \in Page
         /\ Writing(h) => req[h] \in Write
         /\ req[h] = Idle => req[h].at = "idle"
  BY DEF TypeOK, Read, Page, Write, Idle, Writing

LEMMA Initially == Init => IInv
  BY Bounds, NoneIsNoEntry DEF Init, IInv, TypeOK, PageAges, EntryAges, PagesAreCurrent, EntriesAreCurrent,
     Idle, Writing, NoWriter
-----------------------------------------------------------------------------
(* Types.                                                                  *)

LEMMA TypePreserved ==
  ASSUME TypeOK, PageAges, Next
  PROVE  TypeOK'
<1> USE Bounds
<1>1. ASSUME NEW h \in Handlers, NEW k \in Keys, Miss(h, k)  PROVE TypeOK'
  BY <1>1 DEF Miss, TypeOK, Read
<1>2. ASSUME NEW h \in Handlers, NEW op \in {"create", "update", "delete"}, StartWrite(h, op)
      PROVE  TypeOK'
  <2>1. [at |-> op, clean |-> "sent", found |-> {}, written |-> FALSE] \in Write
    BY DEF Write
  <2>2. PagesMarked \in [Handlers -> Read \cup Page \cup Write \cup {Idle}]
    BY Stages DEF TypeOK, PagesMarked, Page
  <2> QED  BY <1>2, <2>1, <2>2 DEF StartWrite, TypeOK
<1>3. ASSUME NEW h \in Handlers, Query(h)  PROVE TypeOK'
  BY <1>3, Stages DEF Query, TypeOK, Read, Page
<1>4. ASSUME NEW h \in Handlers, Store(h)  PROVE TypeOK'
  <2>1. req[h] \in Page
    BY <1>4, Stages DEF Store
  <2>2. [rows |-> req[h].rows, ttl |-> TTL, stale |-> req[h].stale,
         overlapped |-> req[h].overlapped] \in Entry
    BY <2>1 DEF Page, Entry
  <2> QED  BY <1>4, <2>2 DEF Store, TypeOK
<1>5. ASSUME NEW h \in Handlers, FindKeys(h)  PROVE TypeOK'
  <2>1. [req[h] EXCEPT !.clean = "found", !.found = {k \in Keys \ {Bare} : cache[k] # None}] \in Write
    BY <1>5, Stages DEF FindKeys, Write
  <2> QED  BY <1>5, <2>1 DEF FindKeys, TypeOK
<1>6. ASSUME NEW h \in Handlers, DeleteKeys(h)  PROVE TypeOK'
  <2>1. [req[h] EXCEPT !.clean = "done"] \in Write
    BY <1>6, Stages DEF DeleteKeys, Write
  <2> QED  BY <1>6, <2>1 DEF DeleteKeys, TypeOK
<1>7. CacheMarked \in [Keys -> Entry \cup {None}]
  BY DEF CacheMarked, TypeOK, Entry
<1>8. ASSUME NEW h \in Handlers, CleanFails(h)  PROVE TypeOK'
  <2>1. PagesMarked \in [Handlers -> Read \cup Page \cup Write \cup {Idle}]
    BY Stages DEF TypeOK, PagesMarked, Page
  <2>2. PagesMarked[h] = req[h]
    BY <1>8 DEF CleanFails, PagesMarked, Writing
  <2>3. [PagesMarked[h] EXCEPT !.clean = "done"] \in Write
    BY <1>8, <2>2, Stages DEF CleanFails, Write
  <2> QED  BY <1>7, <1>8, <2>1, <2>3 DEF CleanFails, TypeOK
<1>9. ASSUME NEW h \in Handlers, Commit(h)  PROVE TypeOK'
  <2>1. [req[h] EXCEPT !.written = TRUE] \in Write
    BY <1>9, Stages DEF Commit, Write
  <2> QED  BY <1>9, <2>1 DEF Commit, TypeOK
<1>10. ASSUME NEW h \in Handlers, EndWrite(h)  PROVE TypeOK'
  BY <1>10 DEF EndWrite, TypeOK
<1>11. ASSUME Tick  PROVE TypeOK'
  <2>1. ASSUME NEW k \in Keys, cache[k] # None  PROVE Older(cache[k]) \in Entry \cup {None}
    <3> DEFINE e == cache[k]
    <3>1. e \in Entry
      BY <2>1 DEF TypeOK
    <3>2. e.ttl # 1 => (IF e.ttl = 0 THEN 0 ELSE e.ttl - 1) \in 1..TTL
      BY <3>1 DEF Entry
    <3>3. (IF e.rows = rows \/ e.stale > TTL + Delay THEN e.stale ELSE e.stale + 1) \in 0..TTL + Delay + 1
      BY <3>1 DEF Entry
    <3> HIDE DEF e
    <3> QED  BY <3>1, <3>2, <3>3 DEF Older, Entry, e
  <2>2. ASSUME NEW h \in Handlers, req[h].at = "queried"
        PROVE  [req[h] EXCEPT !.wait = @ + 1, !.stale = IF req[h].rows = rows THEN 0 ELSE @ + 1] \in Page
    <3> DEFINE p == req[h]
    <3>1. p \in Page /\ p.stale <= p.wait
      BY <2>2, Stages DEF PageAges
    <3>2. p.wait < Delay
      BY <1>11, <2>2 DEF Tick
    <3>3. /\ p.wait + 1 \in 0..Delay
          /\ (IF p.rows = rows THEN 0 ELSE p.stale + 1) \in 0..Delay
      BY <3>1, <3>2 DEF Page
    <3> HIDE DEF p
    <3> QED  BY <3>1, <3>3 DEF Page, p
  <2> QED  BY <1>11, <2>1, <2>2 DEF Tick, TypeOK
<1>12. ASSUME Crash  PROVE TypeOK'
  BY <1>7, <1>12 DEF Crash, TypeOK
<1> QED
  BY <1>1, <1>2, <1>3, <1>4, <1>5, <1>6, <1>8, <1>9, <1>10, <1>11, <1>12 DEF Next, Step
-----------------------------------------------------------------------------
(* Ages: a page brings to the cache at most the ticks it waited, and from  *)
(* then on an entry loses a tick of life for each tick it is out of date.  *)

LEMMA AgesPreserved ==
  ASSUME TypeOK, PageAges, EntryAges, Next
  PROVE  PageAges' /\ EntryAges'
<1> USE Bounds, NoneIsNoEntry
<1>1. /\ CacheMarked \in [Keys -> Entry \cup {None}]
      /\ \A k \in Keys : CacheMarked[k] # None =>
           cache[k] # None /\ CacheMarked[k].stale = cache[k].stale /\ CacheMarked[k].ttl = cache[k].ttl
  BY DEF CacheMarked, TypeOK, Entry
<1>2. \A h \in Handlers : PagesMarked[h].at = "queried" =>
         /\ req[h].at = "queried"
         /\ PagesMarked[h].stale = req[h].stale /\ PagesMarked[h].wait = req[h].wait
  BY Stages DEF PagesMarked, Page
<1>3. ASSUME NEW h \in Handlers, NEW k \in Keys, Miss(h, k)  PROVE PageAges' /\ EntryAges'
  BY <1>3 DEF Miss, TypeOK, PageAges, EntryAges
<1>4. ASSUME NEW h \in Handlers, NEW op \in {"create", "update", "delete"}, StartWrite(h, op)
      PROVE  PageAges' /\ EntryAges'
  <2>1. \A g \in Handlers : req'[g].at = "queried" => g # h /\ req'[g] = PagesMarked[g]
    BY <1>4 DEF StartWrite, PagesMarked
  <2> QED  BY <1>2, <1>4, <2>1 DEF StartWrite, PageAges, EntryAges
<1>5. ASSUME NEW h \in Handlers, Query(h)  PROVE PageAges' /\ EntryAges'
  BY <1>5 DEF Query, TypeOK, PageAges, EntryAges
<1>6. ASSUME NEW h \in Handlers, Store(h)  PROVE PageAges' /\ EntryAges'
  <2>1. req[h] \in Page /\ req[h].stale <= Delay
    BY <1>6, Stages DEF Store, PageAges, Page
  <2>2. req[h].stale + TTL <= TTL + Delay
    BY <2>1 DEF Page
  <2>3. PageAges'
    BY <1>6 DEF Store, TypeOK, PageAges, Idle
  <2>4. EntryAges'
    BY <1>6, <2>2 DEF Store, TypeOK, EntryAges
  <2> QED  BY <2>3, <2>4
<1>7. ASSUME NEW h \in Handlers, FindKeys(h)  PROVE PageAges' /\ EntryAges'
  BY <1>7 DEF FindKeys, Writing, TypeOK, PageAges, EntryAges
<1>8. ASSUME NEW h \in Handlers, DeleteKeys(h)  PROVE PageAges' /\ EntryAges'
  BY <1>8 DEF DeleteKeys, Writing, TypeOK, PageAges, EntryAges
<1>9. ASSUME NEW h \in Handlers, CleanFails(h)  PROVE PageAges' /\ EntryAges'
  <2>1. /\ PagesMarked[h] = req[h]
        /\ PagesMarked = [g \in Handlers |-> PagesMarked[g]]
    BY <1>9 DEF CleanFails, Writing, PagesMarked
  <2>2. req'[h].at = req[h].at
    BY <1>9, <2>1, Stages DEF CleanFails, Write
  <2>3. \A g \in Handlers : req'[g].at = "queried" => g # h /\ req'[g] = PagesMarked[g]
    BY <1>9, <2>1, <2>2 DEF CleanFails, Writing
  <2> QED  BY <1>1, <1>2, <1>9, <2>3 DEF CleanFails, PageAges, EntryAges
<1>10. ASSUME NEW h \in Handlers, Commit(h)  PROVE PageAges' /\ EntryAges'
  BY <1>10 DEF Commit, Writing, TypeOK, PageAges, EntryAges
<1>11. ASSUME NEW h \in Handlers, EndWrite(h)  PROVE PageAges' /\ EntryAges'
  BY <1>11 DEF EndWrite, Idle, TypeOK, PageAges, EntryAges
<1>12. ASSUME Tick  PROVE PageAges' /\ EntryAges'
  <2>1. ASSUME NEW h \in Handlers, req'[h].at = "queried"
        PROVE  req'[h].stale <= req'[h].wait
    <3> DEFINE p == req[h]
    <3>1. p.at = "queried"
      BY <1>12, <2>1 DEF Tick
    <3>2. p \in Page /\ p.stale <= p.wait
      BY <3>1, Stages DEF PageAges
    <3>3. /\ req'[h].wait = p.wait + 1
          /\ req'[h].stale = IF p.rows = rows THEN 0 ELSE p.stale + 1
      BY <1>12, <3>1, <3>2 DEF Tick, Page
    <3> HIDE DEF p
    <3> QED  BY <3>2, <3>3 DEF Page
  <2>2. ASSUME NEW k \in Keys, cache'[k] # None
        PROVE  cache'[k].stale + cache'[k].ttl <= TTL + Delay
    <3> DEFINE e == cache[k]
    <3>1. e # None /\ cache'[k] = Older(e)
      BY <1>12, <2>2 DEF Tick
    <3>2. e \in Entry /\ e.stale + e.ttl <= TTL + Delay /\ e.ttl # 1
      BY <2>2, <3>1 DEF TypeOK, EntryAges, Older
    <3>3. /\ cache'[k].ttl = e.ttl - 1
          /\ cache'[k].stale \in {e.stale, e.stale + 1}
      BY <3>1, <3>2 DEF Older, Entry
    <3> HIDE DEF e
    <3> QED  BY <3>2, <3>3 DEF Entry
  <2> QED  BY <2>1, <2>2 DEF PageAges, EntryAges
<1>13. ASSUME Crash  PROVE PageAges' /\ EntryAges'
  BY <1>1, <1>13 DEF Crash, Idle, PageAges, EntryAges
<1> QED
  BY <1>3, <1>4, <1>5, <1>6, <1>7, <1>8, <1>9, <1>10, <1>11, <1>12, <1>13 DEF Next, Step
-----------------------------------------------------------------------------
(* Currency: the invalidation of a write removes what it has not overlapped. *)

LEMMA CurrencyPreserved ==
  ASSUME TypeOK, PagesAreCurrent, EntriesAreCurrent, Next
  PROVE  PagesAreCurrent' /\ EntriesAreCurrent'
<1> USE NoneIsNoEntry DEF PagesAreCurrent, EntriesAreCurrent, NoWriter, WillDelete
<1>1. \A k \in Keys : CacheMarked[k] = None \/ CacheMarked[k].overlapped
  BY DEF CacheMarked, TypeOK, Entry
<1>2. \A h \in Handlers : PagesMarked[h].at = "queried" => PagesMarked[h].overlapped
  BY Stages DEF PagesMarked, Page
<1>3. \A h \in Handlers : Writing(h) => PagesMarked[h] = req[h]
  BY DEF PagesMarked, Writing
<1>4. ASSUME NEW h \in Handlers, NEW k \in Keys, Miss(h, k)
      PROVE  PagesAreCurrent' /\ EntriesAreCurrent'
  <2>1. \A w \in Handlers : Writing(w)' <=> Writing(w)
    BY <1>4 DEF Miss, Writing, TypeOK, Idle
  <2> QED  BY <1>4, <2>1 DEF Miss, TypeOK, Writing
<1>5. ASSUME NEW h \in Handlers, NEW op \in {"create", "update", "delete"}, StartWrite(h, op)
      PROVE  PagesAreCurrent' /\ EntriesAreCurrent'
  <2>1. req'[h] = [at |-> op, clean |-> "sent", found |-> {}, written |-> FALSE]
    BY <1>5 DEF StartWrite, PagesMarked
  <2>2. \A g \in Handlers \ {h} : req'[g] = PagesMarked[g]
    BY <1>5 DEF StartWrite, PagesMarked
  <2>3. \A g \in Handlers \ {h} : Writing(g)' => Writing(g) /\ req'[g] = req[g]
    BY <1>3, <2>2, Stages DEF Writing, PagesMarked, Page
  <2>4. PagesAreCurrent'
    BY <1>2, <2>1, <2>2
  <2>5. EntriesAreCurrent'
    BY <1>5, <2>1, <2>3 DEF StartWrite, Writing
  <2> QED  BY <2>4, <2>5
<1>6. ASSUME NEW h \in Handlers, Query(h)  PROVE PagesAreCurrent' /\ EntriesAreCurrent'
  <2>1. \A w \in Handlers : (Writing(w)' <=> Writing(w)) /\ (w # h => req'[w] = req[w])
    BY <1>6 DEF Query, Writing, TypeOK
  <2>2. ~ Writing(h)
    BY <1>6 DEF Query, Writing
  <2> QED  BY <1>6, <2>1, <2>2 DEF Query, TypeOK
<1>7. ASSUME NEW h \in Handlers, Store(h)  PROVE PagesAreCurrent' /\ EntriesAreCurrent'
  <2>1. \A w \in Handlers : (Writing(w)' <=> Writing(w)) /\ (w # h => req'[w] = req[w])
    BY <1>7 DEF Store, Writing, TypeOK, Idle
  <2>2. req'[h].at = "idle" /\ ~ Writing(h)
    BY <1>7 DEF Store, Writing, TypeOK, Idle
  <2>3. PagesAreCurrent'
    BY <1>7, <2>1, <2>2 DEF Store
  <2>4. EntriesAreCurrent'
    BY <1>7, <2>1, <2>2 DEF Store, TypeOK
  <2> QED  BY <2>3, <2>4
<1>8. ASSUME NEW h \in Handlers, FindKeys(h)  PROVE PagesAreCurrent' /\ EntriesAreCurrent'
  <2>1. /\ req'[h].at = req[h].at /\ req'[h].clean = "found"
        /\ req'[h].found = {k \in Keys \ {Bare} : cache[k] # None}
    BY <1>8, Stages DEF FindKeys, TypeOK, Write
  <2>2. \A w \in Handlers \ {h} : req'[w] = req[w]
    BY <1>8 DEF FindKeys, TypeOK
  <2> QED  BY <1>8, <2>1, <2>2 DEF FindKeys, Writing
<1>9. ASSUME NEW h \in Handlers, DeleteKeys(h)  PROVE PagesAreCurrent' /\ EntriesAreCurrent'
  <2>1. req'[h].at = req[h].at
    BY <1>9, Stages DEF DeleteKeys, TypeOK, Write
  <2>2. \A w \in Handlers \ {h} : req'[w] = req[w]
    BY <1>9 DEF DeleteKeys, TypeOK
  <2>3. ASSUME NEW k \in Keys \ {Bare}, cache'[k] # None, ~ cache'[k].overlapped  PROVE FALSE
    <3>1. cache'[k] = cache[k] /\ k \notin req[h].found
      BY <1>9, <2>3 DEF DeleteKeys
    <3> QED  BY <1>9, <2>3, <3>1 DEF DeleteKeys
  <2> QED  BY <1>9, <2>1, <2>2, <2>3 DEF DeleteKeys, Writing
<1>10. ASSUME NEW h \in Handlers, CleanFails(h)  PROVE PagesAreCurrent' /\ EntriesAreCurrent'
  <2>1. PagesMarked[h] = req[h] /\ req'[h].at = req[h].at
    BY <1>3, <1>10, Stages DEF CleanFails, PagesMarked, Write
  <2>2. \A g \in Handlers \ {h} : req'[g] = PagesMarked[g]
    BY <1>10 DEF CleanFails, PagesMarked
  <2> QED  BY <1>1, <1>2, <1>10, <2>1, <2>2 DEF CleanFails, Writing
<1>11. ASSUME NEW h \in Handlers, Commit(h)  PROVE PagesAreCurrent' /\ EntriesAreCurrent'
  <2>1. /\ req'[h].at = req[h].at /\ req'[h].clean = req[h].clean
        /\ req'[h].found = req[h].found
    BY <1>11, Stages DEF Commit, TypeOK, Write
  <2>2. \A w \in Handlers \ {h} : req'[w] = req[w]
    BY <1>11 DEF Commit, TypeOK
  <2> QED  BY <1>11, <2>1, <2>2 DEF Commit, Writing
<1>12. ASSUME NEW h \in Handlers, EndWrite(h)  PROVE PagesAreCurrent' /\ EntriesAreCurrent'
  <2>1. req'[h].at = "idle" /\ \A w \in Handlers \ {h} : req'[w] = req[w]
    BY <1>12 DEF EndWrite, TypeOK, Idle
  <2>2. ASSUME NEW k \in Keys \ {Bare}, cache[k] # None, ~ cache[k].overlapped  PROVE FALSE
    BY <1>12, <2>2 DEF EndWrite
  <2> QED  BY <1>12, <2>1, <2>2 DEF EndWrite, Writing
<1>13. ASSUME Tick  PROVE PagesAreCurrent' /\ EntriesAreCurrent'
  <2>1. ASSUME NEW g \in Handlers
        PROVE  /\ req'[g].at = req[g].at
               /\ req[g].at = "queried" => /\ req'[g].rows = req[g].rows
                                           /\ req'[g].overlapped = req[g].overlapped
               /\ Writing(g) => req'[g] = req[g]
    <3> DEFINE p == req[g]
    <3>1. p.at = "queried" => p \in Page
      BY Stages
    <3>2. req'[g] = IF p.at = "queried"
                    THEN [p EXCEPT !.wait = @ + 1, !.stale = IF p.rows = rows THEN 0 ELSE @ + 1]
                    ELSE p
      BY <1>13 DEF Tick
    <3> QED  BY <3>1, <3>2 DEF Page, Writing
  <2>2. ASSUME NEW k \in Keys, cache'[k] # None
        PROVE  /\ cache[k] # None /\ cache'[k].rows = cache[k].rows
               /\ cache'[k].overlapped = cache[k].overlapped
    <3> DEFINE e == cache[k]
    <3>1. e # None /\ cache'[k] = Older(e)
      BY <1>13, <2>2 DEF Tick
    <3>2. e \in Entry /\ e.ttl # 1
      BY <2>2, <3>1 DEF TypeOK, Older
    <3> QED  BY <3>1, <3>2 DEF Older, Entry
  <2>3. rows' = rows
    BY <1>13 DEF Tick
  <2>4. \A w \in Handlers : Writing(w)' <=> Writing(w)
    BY <2>1 DEF Writing
  <2> QED  BY <2>1, <2>2, <2>3, <2>4
<1>14. ASSUME Crash  PROVE PagesAreCurrent' /\ EntriesAreCurrent'
  BY <1>1, <1>14 DEF Crash, Idle
<1> QED
  BY <1>4, <1>5, <1>6, <1>7, <1>8, <1>9, <1>10, <1>11, <1>12, <1>13, <1>14 DEF Next, Step

LEMMA Preserved == IInv /\ [Next]_vars => IInv'
<1> SUFFICES ASSUME IInv, [Next]_vars  PROVE IInv'
  OBVIOUS
<1>1. CASE Next
  BY <1>1, TypePreserved, AgesPreserved, CurrencyPreserved DEF IInv
<1>2. CASE UNCHANGED vars
  BY <1>2 DEF vars, IInv, TypeOK, PageAges, EntryAges, PagesAreCurrent, EntriesAreCurrent,
              NoWriter, WillDelete, Writing
<1> QED  BY <1>1, <1>2

LEMMA Invariant == Spec => []IInv
  BY Initially, Preserved, PTL DEF Spec

\* For any keys, any number of requests and any times, the state of the cache and
\* of the requests has the types of BaseService: every entry expires, and no page
\* is on its way for longer than Delay.
THEOREM TypeCorrect == Spec => []TypeOK
  BY Invariant, PTL DEF IInv

\* The expiry that getPagination gives its SET bounds how long a page can be out
\* of date, whatever reads, writes, failures and crashes overlap.
THEOREM StaleForATimeOnlyHolds == Spec => []StaleForATimeOnly
<1>1. IInv => StaleForATimeOnly
  BY Bounds DEF IInv, TypeOK, Entry, EntryAges, StaleForATimeOnly
<1> QED  BY <1>1, Invariant, PTL

\* The invalidation of create, update and delete is enough for the lists that are
\* read beside no write, for any number of requests.
THEOREM FreshUnlessOverlappedHolds == Spec => []FreshUnlessOverlapped
<1>1. IInv => FreshUnlessOverlapped
  BY DEF IInv, EntriesAreCurrent, NoWriter, FreshUnlessOverlapped
<1> QED  BY <1>1, Invariant, PTL
=============================================================================
