---------------------------- MODULE RegistrationProofs ---------------------------
(***************************************************************************)
(* Proofs about Registration, for any number of creations and sign-ups at  *)
(* the same time, any members and any size of the pool.                    *)
(***************************************************************************)
EXTENDS Registration, FiniteSetTheorems, TLAPS

-----------------------------------------------------------------------------
(* Creations: the invariant.                                               *)

CreationStates == {C!Idle} \cup [at : 1..12, who : Members, role : BOOLEAN, parent : BOOLEAN]

CreateTypes == /\ creating \in [Creators -> CreationStates]
               /\ draft \in [Creators -> SUBSET (C!Tables \X Members)]
               /\ rows \subseteq C!Tables \X Members
               /\ logged \subseteq C!Tables \X Members

\* Where in Steps the row of a table is inserted; its audit row is the next step.
Place == [users |-> 3, user_roles |-> 6, nodes |-> 8, couples |-> 10]

\* The steps a request without a parent skips.
InTree(j) == j = 8 \/ j = 9 \/ j = 10 \/ j = 11

\* The tables a request has inserted its row of.
Done(k) == {t \in C!Tables : Place[t] < k.at /\ (t \in {"nodes", "couples"} => k.parent)}

\* An open transaction holds the rows of the steps behind it, and all but the
\* last of them have their audit row.
InStep ==
  \A h \in Creators :
    /\ creating[h] = C!Idle => draft[h] = {}
    /\ creating[h] # C!Idle =>
         /\ draft[h] = {<<t, creating[h].who>> : t \in Done(creating[h])}
         /\ InTree(creating[h].at) => creating[h].parent
         /\ \A t \in Done(creating[h]) : Place[t] + 1 < creating[h].at =>
               <<t, creating[h].who>> \in logged

\* The unique columns: no key twice among committed rows and open transactions.
Clash(r1, r2) == r1[1] = "users" /\ r2[1] = "users" /\ C!Same(r1[2], r2[2])

KeysDiffer ==
  /\ \A r1, r2 \in rows : Clash(r1, r2) => r1 = r2
  /\ \A h \in Creators : \A r1 \in draft[h], r2 \in rows : ~ Clash(r1, r2)
  /\ \A h, g \in Creators : h # g => \A r1 \in draft[h], r2 \in draft[g] : ~ Clash(r1, r2)

\* What is committed was complete.
CommittedWhole ==
  \A r \in rows : /\ <<"users", r[2]>> \in rows
                  /\ <<"user_roles", r[2]>> \in rows
                  /\ <<"nodes", r[2]>> \in rows <=> <<"couples", r[2]>> \in rows
                  /\ r \in logged

CreateInv == CreateTypes /\ InStep /\ KeysDiffer /\ CommittedWhole

LEMMA CreateInitially == C!Init => CreateInv
BY DEF C!Init, CreateInv, CreateTypes, CreationStates, InStep, KeysDiffer, CommittedWhole

-----------------------------------------------------------------------------
(* Creations: the order of the steps.                                      *)

Follow(k) == IF k.at = 4 /\ k.role THEN 6
             ELSE IF k.at = 7 /\ ~ k.parent THEN 12
             ELSE k.at + 1

LEMMA NumbersAre == DOMAIN C!Steps = 1..12
BY DEF C!Steps

LEMMA StepsAre ==
  /\ C!Steps[1] = "email" /\ C!Steps[2] = "phone" /\ C!Steps[3] = "users"
  /\ C!Steps[4] = "log users" /\ C!Steps[5] = "default role" /\ C!Steps[6] = "user_roles"
  /\ C!Steps[7] = "log user_roles" /\ C!Steps[8] = "nodes" /\ C!Steps[9] = "log nodes"
  /\ C!Steps[10] = "couples" /\ C!Steps[11] = "log couples" /\ C!Steps[12] = "commit"
BY DEF C!Steps

Skipped(k, j) == (j = 5 /\ k.role) \/ (InTree(j) /\ ~ k.parent)

LEMMA PlacesAre ==
  ASSUME NEW j, \/ j = 1 \/ j = 2 \/ j = 3 \/ j = 4 \/ j = 5 \/ j = 6
                \/ j = 7 \/ j = 8 \/ j = 9 \/ j = 10 \/ j = 11 \/ j = 12
  PROVE  /\ C!Steps[j] = "default role" <=> j = 5
         /\ C!Steps[j] \in {"nodes", "log nodes", "couples", "log couples"} <=> InTree(j)
BY StepsAre DEF InTree

LEMMA TwelveSteps ==
  ASSUME NEW j \in 1..12
  PROVE  \/ j = 1 \/ j = 2 \/ j = 3 \/ j = 4 \/ j = 5 \/ j = 6
         \/ j = 7 \/ j = 8 \/ j = 9 \/ j = 10 \/ j = 11 \/ j = 12
OBVIOUS

LEMMA SkippedAre ==
  ASSUME NEW k \in [at : 1..12, who : Members, role : BOOLEAN, parent : BOOLEAN],
         NEW j \in 1..12
  PROVE  C!Steps[j] \in C!Skips(k) <=> Skipped(k, j)
<1>1. C!Steps[j] \in C!Skips(k) <=>
         \/ C!Steps[j] = "default role" /\ k.role
         \/ C!Steps[j] \in {"nodes", "log nodes", "couples", "log couples"} /\ ~ k.parent
  BY Zenon DEF C!Skips
<1>2. /\ C!Steps[j] = "default role" <=> j = 5
      /\ C!Steps[j] \in {"nodes", "log nodes", "couples", "log couples"} <=> InTree(j)
  BY PlacesAre, TwelveSteps
<1> QED  BY <1>1, <1>2, Zenon DEF Skipped

LEMMA FollowIsNext ==
  ASSUME NEW k \in [at : 1..12, who : Members, role : BOOLEAN, parent : BOOLEAN],
         k.at < 12, InTree(k.at) => k.parent
  PROVE  /\ Follow(k) \in 1..12 /\ Follow(k) > k.at
         /\ ~ Skipped(k, Follow(k))
         /\ \A j \in 1..12 : j > k.at /\ j < Follow(k) => Skipped(k, j)
BY DEF Follow, Skipped, InTree

LEMMA AdvanceFollows ==
  ASSUME NEW h \in Creators, C!Advance(h), CreateTypes, creating[h] # C!Idle, creating[h].at < 12,
         InTree(creating[h].at) => creating[h].parent
  PROVE  /\ creating' = [creating EXCEPT ![h] = [creating[h] EXCEPT !.at = Follow(creating[h])]]
         /\ Follow(creating[h]) \in 1..12
<1> DEFINE k == creating[h]
           P(i) == /\ i > k.at /\ C!Steps[i] \notin C!Skips(k)
                   /\ \A j \in DOMAIN C!Steps : j > k.at /\ j < i => C!Steps[j] \in C!Skips(k)
<1>1. k \in [at : 1..12, who : Members, role : BOOLEAN, parent : BOOLEAN]
  BY DEF CreateTypes, CreationStates
<1>2. /\ Follow(k) \in 1..12 /\ Follow(k) > k.at
      /\ ~ Skipped(k, Follow(k))
      /\ \A j \in 1..12 : j > k.at /\ j < Follow(k) => Skipped(k, j)
  BY <1>1, FollowIsNext
<1>3. \A j \in 1..12 : C!Steps[j] \in C!Skips(k) <=> Skipped(k, j)
  BY <1>1, SkippedAre
<1>4. DOMAIN C!Steps = 1..12 /\ k.at \in 1..12
  BY <1>1, NumbersAre
<1>5. creating' = [creating EXCEPT ![h].at = CHOOSE i \in DOMAIN C!Steps : P(i)]
  BY DEF C!Advance
<1> HIDE DEF k
<1>6. P(Follow(k))
  BY <1>2, <1>3, <1>4
<1>7. \A i \in 1..12 : P(i) => i = Follow(k)
  BY <1>2, <1>3, <1>4
<1> HIDE DEF P
<1>8. Follow(k) = CHOOSE i \in DOMAIN C!Steps : P(i)
  BY <1>2, <1>4, <1>6, <1>7
<1>9. creating' = [creating EXCEPT ![h] = [k EXCEPT !.at = Follow(k)]]
  BY <1>5, <1>8 DEF CreateTypes, k
<1> QED  BY <1>2, <1>9 DEF k

\* An insert adds its table to what is done, no other step does.
LEMMA DoneGrows ==
  ASSUME NEW k \in [at : 1..12, who : Members, role : BOOLEAN, parent : BOOLEAN],
         k.at < 12, InTree(k.at) => k.parent,
         NEW n, n = [k EXCEPT !.at = Follow(k)]
  PROVE  /\ n \in [at : 1..12, who : Members, role : BOOLEAN, parent : BOOLEAN]
         /\ n.who = k.who
         /\ InTree(n.at) => n.parent
         /\ Done(n) = Done(k) \cup {t \in C!Tables : Place[t] = k.at}
         /\ \A t \in Done(n) : Place[t] + 1 < n.at => Place[t] + 1 <= k.at /\ t \in Done(k)
<1>1. Follow(k) \in 1..12 /\ Follow(k) > k.at
  BY FollowIsNext
<1>2. /\ n \in [at : 1..12, who : Members, role : BOOLEAN, parent : BOOLEAN]
      /\ n.who = k.who /\ n.parent = k.parent /\ n.at = Follow(k)
  BY <1>1
<1>3. InTree(n.at) => n.parent
  BY <1>2 DEF Follow, InTree
<1>4. \A t \in C!Tables :
        /\ Place[t] = 3 \/ Place[t] = 6 \/ Place[t] = 8 \/ Place[t] = 10
        /\ t \in {"nodes", "couples"} <=> Place[t] = 8 \/ Place[t] = 10
  BY DEF C!Tables, Place
<1>5. \A t \in C!Tables : t \in Done(n) <=> t \in Done(k) \/ Place[t] = k.at
  <2> SUFFICES ASSUME NEW t \in C!Tables PROVE t \in Done(n) <=> t \in Done(k) \/ Place[t] = k.at
    OBVIOUS
  <2>1. t \in Done(n) <=> Place[t] < n.at /\ (t \in {"nodes", "couples"} => k.parent)
    BY <1>2 DEF Done
  <2>2. t \in Done(k) <=> Place[t] < k.at /\ (t \in {"nodes", "couples"} => k.parent)
    BY DEF Done
  <2>3. CASE t \in {"nodes", "couples"}
    <3>1. Place[t] = 8 \/ Place[t] = 10
      BY <1>4, <2>3
    <3>2. CASE k.parent
      BY <1>2, <2>1, <2>2, <3>1, <3>2 DEF Follow
    <3>3. CASE ~ k.parent
      BY <2>1, <2>2, <2>3, <3>1, <3>3 DEF InTree
    <3> QED  BY <3>2, <3>3
  <2>4. CASE t \notin {"nodes", "couples"}
    <3>1. Place[t] = 3 \/ Place[t] = 6
      BY <1>4, <2>4
    <3> QED  BY <1>2, <2>1, <2>2, <2>4, <3>1 DEF Follow
  <2> QED  BY <2>3, <2>4
<1>6. Done(n) \subseteq C!Tables /\ Done(k) \subseteq C!Tables
  BY DEF Done
<1>7. \A t \in Done(n) : Place[t] + 1 < n.at => Place[t] + 1 <= k.at /\ t \in Done(k)
  <2> SUFFICES ASSUME NEW t \in Done(n), Place[t] + 1 < n.at PROVE Place[t] < k.at
    <3>1. \A t \in C!Tables : Place[t] \in Nat
      BY <1>4
    <3> QED  BY <1>5, <1>6, <3>1
  <2>1. t \in C!Tables /\ (t \in {"nodes", "couples"} => k.parent)
    BY <1>2 DEF Done
  <2>2. CASE Place[t] = 3 \/ Place[t] = 6
    BY <1>2, <2>2 DEF Follow
  <2>3. CASE k.parent /\ (Place[t] = 8 \/ Place[t] = 10)
    BY <1>2, <2>3 DEF Follow
  <2> QED  BY <1>4, <2>1, <2>2, <2>3
<1> QED  BY <1>2, <1>3, <1>5, <1>6, <1>7

LEMMA MeaningOf ==
  ASSUME NEW j, \/ j = 1 \/ j = 2 \/ j = 3 \/ j = 4 \/ j = 5 \/ j = 6
                \/ j = 7 \/ j = 8 \/ j = 9 \/ j = 10 \/ j = 11 \/ j = 12
  PROVE  /\ C!Steps[j] \in {"email", "phone", "default role"} => j = 1 \/ j = 2 \/ j = 5
         /\ \A t \in C!Tables : C!Steps[j] = t => j = Place[t]
         /\ \A t \in C!Tables : C!Steps[j] = C!LogOf[t] => j = Place[t] + 1
         /\ C!Steps[j] = "commit" => j = 12
<1>1. C!Steps[j] \in {"email", "phone", "default role"} => j = 1 \/ j = 2 \/ j = 5
  BY StepsAre
<1>2. /\ C!Steps[j] = "users" => j = 3
      /\ C!Steps[j] = "user_roles" => j = 6
      /\ C!Steps[j] = "nodes" => j = 8
      /\ C!Steps[j] = "couples" => j = 10
  BY StepsAre
<1>3. /\ C!Steps[j] = "log users" => j = 4
      /\ C!Steps[j] = "log user_roles" => j = 7
      /\ C!Steps[j] = "log nodes" => j = 9
      /\ C!Steps[j] = "log couples" => j = 11
  BY StepsAre
<1>4. C!Steps[j] = "commit" => j = 12
  BY StepsAre
<1>5. \A t \in C!Tables : C!Steps[j] = t => j = Place[t]
  BY <1>2 DEF C!Tables, Place
<1>6. /\ C!LogOf["users"] = "log users" /\ C!LogOf["user_roles"] = "log user_roles"
      /\ C!LogOf["nodes"] = "log nodes" /\ C!LogOf["couples"] = "log couples"
      /\ Place["users"] + 1 = 4 /\ Place["user_roles"] + 1 = 7
      /\ Place["nodes"] + 1 = 9 /\ Place["couples"] + 1 = 11
  BY DEF C!LogOf, Place
<1>7. ASSUME NEW t \in C!Tables, C!Steps[j] = C!LogOf[t] PROVE j = Place[t] + 1
  <2>1. t = "users" \/ t = "user_roles" \/ t = "nodes" \/ t = "couples"
    BY DEF C!Tables
  <2>2. CASE t = "users"
    BY <1>3, <1>6, <1>7, <2>2, Zenon
  <2>3. CASE t = "user_roles"
    BY <1>3, <1>6, <1>7, <2>3, Zenon
  <2>4. CASE t = "nodes"
    BY <1>3, <1>6, <1>7, <2>4, Zenon
  <2>5. CASE t = "couples"
    BY <1>3, <1>6, <1>7, <2>5, Zenon
  <2> QED  BY <2>1, <2>2, <2>3, <2>4, <2>5, Zenon
<1> QED  BY <1>1, <1>4, <1>5, <1>7, Zenon

LEMMA StepMeans ==
  ASSUME NEW j \in 1..12
  PROVE  /\ C!Steps[j] \in {"email", "phone", "default role"} => j = 1 \/ j = 2 \/ j = 5
         /\ \A t \in C!Tables : C!Steps[j] = t => j = Place[t]
         /\ \A t \in C!Tables : C!Steps[j] = C!LogOf[t] => j = Place[t] + 1
         /\ C!Steps[j] = "commit" => j = 12
BY TwelveSteps, MeaningOf, Zenon

LEMMA PlacesAreNumbers == \A t \in C!Tables : Place[t] \in Nat
BY DEF C!Tables, Place

LEMMA ImageOfUnion ==
  ASSUME NEW A, NEW B, NEW w
  PROVE  {<<t, w>> : t \in A \cup B} = {<<t, w>> : t \in A} \cup {<<t, w>> : t \in B}
OBVIOUS

\* What every step of a request that goes on has in common.
LEMMA GoesOn ==
  ASSUME CreateInv, NEW h \in Creators, creating[h] # C!Idle, creating[h].at < 12, C!Advance(h),
         UNCHANGED rows,
         draft' = [draft EXCEPT ![h] = @ \cup
                     {<<t, creating[h].who>> : t \in {u \in C!Tables : Place[u] = creating[h].at}}],
         logged \subseteq logged', logged' \subseteq C!Tables \X Members,
         \A t \in C!Tables : Place[t] + 1 = creating[h].at => <<t, creating[h].who>> \in logged',
         creating[h].at = 3 =>
            /\ \A r \in rows : r[1] = "users" => ~ C!Same(r[2], creating[h].who)
            /\ \A g \in Creators \ {h} : \A r \in draft[g] :
                  r[1] = "users" => ~ C!Same(r[2], creating[h].who)
  PROVE  CreateInv'
<1> DEFINE k == creating[h]   n == [k EXCEPT !.at = Follow(k)]
<1>1. k \in [at : 1..12, who : Members, role : BOOLEAN, parent : BOOLEAN]
  BY DEF CreateInv, CreateTypes, CreationStates
<1>2. InTree(k.at) => k.parent
  BY DEF CreateInv, InStep
<1>3. creating' = [creating EXCEPT ![h] = n]
  BY <1>2, AdvanceFollows DEF CreateInv
<1>4. /\ n \in [at : 1..12, who : Members, role : BOOLEAN, parent : BOOLEAN]
      /\ n.who = k.who
      /\ InTree(n.at) => n.parent
      /\ Done(n) = Done(k) \cup {t \in C!Tables : Place[t] = k.at}
      /\ \A t \in Done(n) : Place[t] + 1 < n.at => Place[t] + 1 <= k.at /\ t \in Done(k)
  BY <1>1, <1>2, DoneGrows
<1>5. draft[h] = {<<t, k.who>> : t \in Done(k)}
      /\ \A t \in Done(k) : Place[t] + 1 < k.at => <<t, k.who>> \in logged
  BY DEF CreateInv, InStep
<1> HIDE DEF k, n
<1>6. creating'[h] = n /\ \A g \in Creators \ {h} : creating'[g] = creating[g]
  BY <1>3 DEF CreateInv, CreateTypes
<1>7. \A g \in Creators \ {h} : draft'[g] = draft[g]
  BY DEF CreateInv, CreateTypes
<1>8. draft'[h] = {<<t, n.who>> : t \in Done(n)}
  <2>1. draft'[h] = draft[h] \cup {<<t, k.who>> : t \in {u \in C!Tables : Place[u] = k.at}}
    BY DEF CreateInv, CreateTypes, k
  <2> DEFINE B == {u \in C!Tables : Place[u] = k.at}
  <2>2. Done(n) = Done(k) \cup B /\ n.who = k.who
    BY <1>4
  <2>3. draft[h] = {<<t, k.who>> : t \in Done(k)}
    BY <1>5
  <2> HIDE DEF B
  <2>4. {<<t, k.who>> : t \in Done(k) \cup B} =
          {<<t, k.who>> : t \in Done(k)} \cup {<<t, k.who>> : t \in B}
    BY ImageOfUnion, Zenon
  <2>5. draft'[h] = draft[h] \cup {<<t, k.who>> : t \in B}
    BY <2>1 DEF B
  <2> QED  BY <2>2, <2>3, <2>4, <2>5, Zenon
<1>9. n # C!Idle
  BY <1>4 DEF C!Idle
<1>10. CreateTypes'
  <2>1. creating' \in [Creators -> CreationStates]
    BY <1>3, <1>4 DEF CreateInv, CreateTypes, CreationStates
  <2>2. draft' \in [Creators -> SUBSET (C!Tables \X Members)]
    BY <1>1 DEF CreateInv, CreateTypes, k
  <2> QED  BY <2>1, <2>2 DEF CreateInv, CreateTypes
<1>11. InStep'
  <2>1. ASSUME NEW g \in Creators, g # h
        PROVE  /\ creating'[g] = C!Idle => draft'[g] = {}
               /\ creating'[g] # C!Idle =>
                    /\ draft'[g] = {<<t, creating'[g].who>> : t \in Done(creating'[g])}
                    /\ InTree(creating'[g].at) => creating'[g].parent
                    /\ \A t \in Done(creating'[g]) : Place[t] + 1 < creating'[g].at =>
                          <<t, creating'[g].who>> \in logged'
    BY <1>6, <1>7, <2>1 DEF CreateInv, InStep
  <2>2. \A t \in Done(n) : Place[t] + 1 < n.at => <<t, n.who>> \in logged'
    <3> SUFFICES ASSUME NEW t \in Done(n), Place[t] + 1 < n.at PROVE <<t, n.who>> \in logged'
      OBVIOUS
    <3>1. t \in C!Tables /\ Place[t] \in Nat
      BY PlacesAreNumbers DEF Done
    <3>2. Place[t] + 1 <= k.at /\ t \in Done(k)
      BY <1>4
    <3>3. k.at \in Nat
      BY <1>1
    <3>4. Place[t] + 1 < k.at \/ Place[t] + 1 = k.at
      BY <3>1, <3>2, <3>3
    <3>5. CASE Place[t] + 1 < k.at
      BY <1>4, <1>5, <3>2, <3>5
    <3>6. CASE Place[t] + 1 = k.at
      BY <1>4, <3>1, <3>6 DEF k
    <3> QED  BY <3>4, <3>5, <3>6
  <2>3. n # C!Idle /\ (InTree(n.at) => n.parent)
    BY <1>4, <1>9
  <2> SUFFICES ASSUME NEW g \in Creators
               PROVE  /\ creating'[g] = C!Idle => draft'[g] = {}
                      /\ creating'[g] # C!Idle =>
                           /\ draft'[g] = {<<t, creating'[g].who>> : t \in Done(creating'[g])}
                           /\ InTree(creating'[g].at) => creating'[g].parent
                           /\ \A t \in Done(creating'[g]) : Place[t] + 1 < creating'[g].at =>
                                 <<t, creating'[g].who>> \in logged'
    BY Zenon DEF InStep
  <2>4. CASE g = h
    <3>1. creating'[g] = n /\ draft'[g] = draft'[h]
      BY <1>6, <2>4
    <3>2. draft'[g] = {<<t, n.who>> : t \in Done(n)}
      BY <1>8, <3>1, Zenon
    <3> QED  BY <2>2, <2>3, <3>1, <3>2, Zenon
  <2>5. CASE g # h
    BY <2>1, <2>5, Zenon
  <2> QED  BY <2>4, <2>5
<1>12. KeysDiffer'
  <2>1. \A r \in draft'[h] : r[1] = "users" => r \in draft[h] \/ (k.at = 3 /\ r[2] = k.who)
    <3> SUFFICES ASSUME NEW r \in draft'[h], r[1] = "users"
                 PROVE  r \in draft[h] \/ (k.at = 3 /\ r[2] = k.who)
      OBVIOUS
    <3>1. PICK t \in Done(n) : r = <<t, n.who>>
      BY <1>8
    <3>2. CASE t \in Done(k)
      BY <1>4, <1>5, <3>1, <3>2
    <3>3. CASE Place[t] = k.at
      <4>1. t = "users" /\ Place["users"] = 3
        BY <3>1 DEF Place
      <4> QED  BY <1>4, <3>1, <3>3, <4>1
    <3> QED  BY <1>4, <3>1, <3>2, <3>3
  <2>2. \A m1, m2 : C!Same(m1, m2) <=> C!Same(m2, m1)
    BY DEF C!Same
  <2>3. ASSUME NEW r1 \in draft'[h], NEW r2 \in rows PROVE ~ Clash(r1, r2)
    BY <2>1, <2>2 DEF CreateInv, KeysDiffer, Clash, k
  <2>4. ASSUME NEW g \in Creators \ {h}, NEW r1 \in draft'[h], NEW r2 \in draft[g]
        PROVE  ~ Clash(r1, r2) /\ ~ Clash(r2, r1)
    BY <2>1, <2>2 DEF CreateInv, KeysDiffer, Clash, k
  <2> QED  BY <1>7, <2>3, <2>4 DEF CreateInv, KeysDiffer
<1>13. CommittedWhole'
  BY DEF CreateInv, CommittedWhole
<1> QED  BY <1>10, <1>11, <1>12, <1>13 DEF CreateInv

-----------------------------------------------------------------------------
(* Creations: every step.                                                  *)

Request == [at : 1..12, who : Members, role : BOOLEAN, parent : BOOLEAN]

LEMMA OpenIsRequest ==
  ASSUME CreateInv, NEW h \in Creators, C!Open(h)
  PROVE  creating[h] \in Request /\ creating[h] # C!Idle
BY DEF CreateInv, CreateTypes, CreationStates, C!Open, Request

LEMMA BeginKeeps ==
  ASSUME CreateInv, NEW h \in Creators, C!Begin(h)
  PROVE  CreateInv'
<1>1. PICK m \in Members, role \in BOOLEAN, parent \in BOOLEAN :
        creating' = [creating EXCEPT ![h] = [at |-> 1, who |-> m, role |-> role,
                                             parent |-> parent]]
  BY DEF C!Begin
<1> DEFINE n == [at |-> 1, who |-> m, role |-> role, parent |-> parent]
<1>2. n \in Request /\ n.at = 1
  BY DEF Request
<1>3. creating[h] = C!Idle /\ UNCHANGED <<rows, draft, logged>>
  BY DEF C!Begin, C!Open
<1> HIDE DEF n
<1>4. creating' = [creating EXCEPT ![h] = n]
  BY <1>1 DEF n
<1>5. draft[h] = {}
  BY <1>3 DEF CreateInv, InStep
<1>6. Done(n) = {} /\ ~ InTree(n.at)
  BY <1>2, PlacesAreNumbers DEF Done, Place, C!Tables, InTree
<1>7. CreateTypes'
  BY <1>2, <1>3, <1>4 DEF CreateInv, CreateTypes, CreationStates, Request
<1>8. creating'[h] = n /\ \A g \in Creators \ {h} : creating'[g] = creating[g]
  BY <1>4 DEF CreateInv, CreateTypes
<1>9. n # C!Idle
  BY <1>2 DEF C!Idle
<1>10. draft'[h] = {<<t, n.who>> : t \in Done(n)}
  BY <1>3, <1>5, <1>6
<1>11. InStep'
  <2> SUFFICES ASSUME NEW g \in Creators
               PROVE  /\ creating'[g] = C!Idle => draft'[g] = {}
                      /\ creating'[g] # C!Idle =>
                           /\ draft'[g] = {<<t, creating'[g].who>> : t \in Done(creating'[g])}
                           /\ InTree(creating'[g].at) => creating'[g].parent
                           /\ \A t \in Done(creating'[g]) : Place[t] + 1 < creating'[g].at =>
                                 <<t, creating'[g].who>> \in logged'
    BY Zenon DEF InStep
  <2>1. CASE g = h
    BY <1>6, <1>8, <1>9, <1>10, <2>1
  <2>2. CASE g # h
    BY <1>3, <1>8, <2>2 DEF CreateInv, InStep
  <2> QED  BY <2>1, <2>2
<1>12. KeysDiffer' /\ CommittedWhole'
  BY <1>3 DEF CreateInv, KeysDiffer, CommittedWhole
<1> QED  BY <1>7, <1>11, <1>12 DEF CreateInv

\* Checks and look-ups change nothing but the step.
LEMMA ReadsKeep ==
  ASSUME CreateInv, NEW h \in Creators, C!CheckContact(h) \/ C!FindDefaultRole(h)
  PROVE  CreateInv'
<1>1. C!Open(h) /\ C!Advance(h) /\ UNCHANGED <<rows, draft, logged>>
      /\ C!StepOf(h) \in {"email", "phone", "default role"}
  BY DEF C!CheckContact, C!FindDefaultRole
<1>2. creating[h] \in Request /\ creating[h] # C!Idle
  BY <1>1, OpenIsRequest
<1> DEFINE j == creating[h].at
<1>3. j \in 1..12
  BY <1>2 DEF Request
<1>4. j = 1 \/ j = 2 \/ j = 5
  BY <1>1, <1>3, StepMeans DEF C!StepOf
<1> HIDE DEF j
<1>5. \A t \in C!Tables : Place[t] # j /\ (Place[t] + 1 = j => FALSE)
  BY <1>4 DEF Place, C!Tables
<1>6. {u \in C!Tables : Place[u] = j} = {}
  BY <1>5
<1>7. draft' = [draft EXCEPT ![h] = @ \cup {<<t, creating[h].who>> : t \in {u \in C!Tables : Place[u] = creating[h].at}}]
  BY <1>1, <1>6 DEF CreateInv, CreateTypes, j
<1>8. creating[h].at < 12 /\ creating[h].at # 3
  BY <1>4 DEF j
<1>9. logged \subseteq logged' /\ logged' \subseteq C!Tables \X Members
  BY <1>1 DEF CreateInv, CreateTypes
<1>10. \A t \in C!Tables : Place[t] + 1 = creating[h].at => <<t, creating[h].who>> \in logged'
  BY <1>5 DEF j
<1> QED  BY <1>1, <1>2, <1>7, <1>8, <1>9, <1>10, GoesOn

LEMMA InsertKeeps ==
  ASSUME CreateInv, NEW h \in Creators, C!Insert(h)
  PROVE  CreateInv'
<1>1. C!Open(h) /\ C!Advance(h) /\ UNCHANGED <<rows, logged>>
      /\ draft' = [draft EXCEPT ![h] = @ \cup {<<C!StepOf(h), creating[h].who>>}]
  BY DEF C!Insert, C!Who
<1>2. PICK t \in C!Tables : C!StepOf(h) = t
  BY DEF C!Insert
<1>3. t = "users" => ~ C!Taken(h) /\ ~ C!Waits(h)
  BY <1>2 DEF C!Insert
<1>4. creating[h] \in Request /\ creating[h] # C!Idle
  BY <1>1, OpenIsRequest
<1>5. creating[h].at \in 1..12
  BY <1>4 DEF Request
<1>6. creating[h].at = Place[t]
  BY <1>2, <1>5, StepMeans DEF C!StepOf
<1>7. {u \in C!Tables : Place[u] = Place[t]} = {t}
  BY DEF Place, C!Tables
<1>8. {<<u, creating[h].who>> : u \in {t}} = {<<t, creating[h].who>>}
  OBVIOUS
<1>9. draft' = [draft EXCEPT ![h] = @ \cup {<<u, creating[h].who>> : u \in {v \in C!Tables : Place[v] = creating[h].at}}]
  BY <1>1, <1>2, <1>6, <1>7, <1>8
<1>10. Place[t] < 12 /\ \A u \in C!Tables : Place[u] + 1 # Place[t]
  BY DEF Place, C!Tables
<1>11. creating[h].at = 3 =>
         /\ \A r \in rows : r[1] = "users" => ~ C!Same(r[2], creating[h].who)
         /\ \A g \in Creators \ {h} : \A r \in draft[g] :
               r[1] = "users" => ~ C!Same(r[2], creating[h].who)
  <2> SUFFICES ASSUME creating[h].at = 3
               PROVE  /\ \A r \in rows : r[1] = "users" => ~ C!Same(r[2], creating[h].who)
                      /\ \A g \in Creators \ {h} : \A r \in draft[g] :
                            r[1] = "users" => ~ C!Same(r[2], creating[h].who)
    OBVIOUS
  <2>1. t = "users"
    BY <1>6 DEF Place, C!Tables
  <2>2. ~ C!Taken(h) /\ C!StepOf(h) = "users"
    BY <1>2, <1>3, <2>1
  <2>3. \A r \in rows : r[1] = "users" => ~ C!Same(r[2], creating[h].who)
    BY <2>2 DEF C!Taken, C!Who
  <2>4. \A g \in Creators \ {h} : \A r \in draft[g] :
          r[1] = "users" => ~ C!Same(r[2], creating[h].who)
    BY <1>3, <2>1 DEF C!Waits, C!Who
  <2> QED  BY <2>3, <2>4
<1>12. creating[h].at < 12
       /\ \A u \in C!Tables : Place[u] + 1 = creating[h].at => <<u, creating[h].who>> \in logged'
  BY <1>6, <1>10
<1>13. logged \subseteq logged' /\ logged' \subseteq C!Tables \X Members
  BY <1>1 DEF CreateInv, CreateTypes
<1> QED  BY <1>1, <1>4, <1>9, <1>11, <1>12, <1>13, GoesOn

LEMMA LogCreateKeeps ==
  ASSUME CreateInv, NEW h \in Creators, C!LogCreate(h)
  PROVE  CreateInv'
<1>1. PICK t \in C!Tables : C!StepOf(h) = C!LogOf[t] /\ logged' = logged \cup {<<t, creating[h].who>>}
  BY DEF C!LogCreate, C!Who
<1>2. C!Open(h) /\ C!Advance(h) /\ UNCHANGED <<rows, draft>>
  BY DEF C!LogCreate
<1>3. creating[h] \in Request /\ creating[h] # C!Idle
  BY <1>2, OpenIsRequest
<1>4. creating[h].at \in 1..12 /\ creating[h].who \in Members
  BY <1>3 DEF Request
<1>5. creating[h].at = Place[t] + 1
  BY <1>1, <1>4, StepMeans DEF C!StepOf
<1>6. /\ \A u \in C!Tables : Place[u] # Place[t] + 1
      /\ \A u \in C!Tables : Place[u] = Place[t] => u = t
      /\ Place[t] + 1 < 12 /\ Place[t] + 1 # 3 /\ Place[t] \in Nat
  BY DEF Place, C!Tables
<1>7. {u \in C!Tables : Place[u] = creating[h].at} = {}
  BY <1>5, <1>6
<1>8. draft' = [draft EXCEPT ![h] = @ \cup {<<u, creating[h].who>> : u \in {v \in C!Tables : Place[v] = creating[h].at}}]
  BY <1>2, <1>7 DEF CreateInv, CreateTypes
<1>9. \A u \in C!Tables : Place[u] + 1 = creating[h].at => <<u, creating[h].who>> \in logged'
  BY <1>1, <1>5, <1>6, PlacesAreNumbers
<1>10. logged \subseteq logged' /\ logged' \subseteq C!Tables \X Members
  BY <1>1, <1>4 DEF CreateInv, CreateTypes
<1>11. creating[h].at < 12 /\ creating[h].at # 3
  BY <1>5, <1>6
<1> QED  BY <1>2, <1>3, <1>8, <1>9, <1>10, <1>11, GoesOn

\* The end of a transaction, whether its rows become visible or not.
LEMMA EndKeeps ==
  ASSUME CreateInv, NEW h \in Creators, C!End(h), C!Open(h),
         UNCHANGED rows \/ (rows' = rows \cup draft[h] /\ creating[h].at = 12)
  PROVE  CreateInv'
<1> DEFINE k == creating[h]
<1>1. k \in Request /\ k # C!Idle
  BY OpenIsRequest
<1>2. draft[h] = {<<t, k.who>> : t \in Done(k)}
      /\ \A t \in Done(k) : Place[t] + 1 < k.at => <<t, k.who>> \in logged
  BY <1>1 DEF CreateInv, InStep
<1> HIDE DEF k
<1>3. /\ draft' = [draft EXCEPT ![h] = {}]
      /\ creating' = [creating EXCEPT ![h] = C!Idle]
      /\ logged' = logged
  BY DEF C!End
<1>4. /\ draft'[h] = {} /\ creating'[h] = C!Idle
      /\ \A g \in Creators \ {h} : draft'[g] = draft[g] /\ creating'[g] = creating[g]
  BY <1>3 DEF CreateInv, CreateTypes
<1>5. rows \subseteq rows' /\ rows' \subseteq rows \cup draft[h]
  OBVIOUS
<1>6. CreateTypes'
  BY <1>3, <1>5 DEF CreateInv, CreateTypes, CreationStates
<1>7. InStep'
  <2> SUFFICES ASSUME NEW g \in Creators
               PROVE  /\ creating'[g] = C!Idle => draft'[g] = {}
                      /\ creating'[g] # C!Idle =>
                           /\ draft'[g] = {<<t, creating'[g].who>> : t \in Done(creating'[g])}
                           /\ InTree(creating'[g].at) => creating'[g].parent
                           /\ \A t \in Done(creating'[g]) : Place[t] + 1 < creating'[g].at =>
                                 <<t, creating'[g].who>> \in logged'
    BY Zenon DEF InStep
  <2>1. CASE g = h
    BY <1>4, <2>1
  <2>2. CASE g # h
    BY <1>3, <1>4, <2>2 DEF CreateInv, InStep
  <2> QED  BY <2>1, <2>2
<1>8. KeysDiffer'
  <2>1. \A m1, m2 : C!Same(m1, m2) <=> C!Same(m2, m1)
    BY DEF C!Same
  <2>2. \A r1, r2 : Clash(r1, r2) <=> Clash(r2, r1)
    BY <2>1 DEF Clash
  <2>3. \A r1, r2 \in draft[h] : Clash(r1, r2) => r1 = r2
    BY <1>2 DEF Clash
  <2>4. \A r1, r2 \in rows' : Clash(r1, r2) => r1 = r2
    BY <1>5, <2>2, <2>3 DEF CreateInv, KeysDiffer
  <2>5. \A g \in Creators \ {h} : \A r1 \in draft[g], r2 \in rows' : ~ Clash(r1, r2)
    BY <1>5 DEF CreateInv, KeysDiffer
  <2>6. \A g \in Creators : \A r1 \in draft'[g], r2 \in rows' : ~ Clash(r1, r2)
    BY <1>4, <2>5
  <2>7. \A f, g \in Creators : f # g => \A r1 \in draft'[f], r2 \in draft'[g] : ~ Clash(r1, r2)
    BY <1>4 DEF CreateInv, KeysDiffer
  <2> QED  BY <2>4, <2>6, <2>7 DEF KeysDiffer
<1>9. CommittedWhole'
  <2>1. CASE UNCHANGED rows
    BY <1>3, <2>1 DEF CreateInv, CommittedWhole
  <2>2. CASE rows' = rows \cup draft[h] /\ k.at = 12
    <3>1. \A t \in C!Tables : Place[t] + 1 < 12 /\ Place[t] < 12
      BY DEF Place, C!Tables
    <3>2. \A t \in C!Tables : t \in Done(k) <=> (t \in {"nodes", "couples"} => k.parent)
      BY <2>2, <3>1 DEF Done
    <3>3. "users" \in Done(k) /\ "user_roles" \in Done(k)
          /\ ("nodes" \in Done(k) <=> "couples" \in Done(k))
      BY <3>2, Zenon DEF C!Tables
    <3>4. Done(k) \subseteq C!Tables
      BY DEF Done
    <3>5. \A t : <<t, k.who>> \in draft[h] <=> t \in Done(k)
      BY <1>2
    <3>6. \A r \in draft[h] : r[2] = k.who /\ r \in logged
      BY <1>2, <2>2, <3>1, <3>4
    <3> SUFFICES ASSUME NEW r \in rows'
                 PROVE  /\ <<"users", r[2]>> \in rows'
                        /\ <<"user_roles", r[2]>> \in rows'
                        /\ <<"nodes", r[2]>> \in rows' <=> <<"couples", r[2]>> \in rows'
                        /\ r \in logged'
      BY DEF CommittedWhole
    <3>7. <<"nodes", r[2]>> \in draft[h] <=> <<"couples", r[2]>> \in draft[h]
      BY <1>2, <3>3
    <3>8. CASE r \in rows
      BY <1>3, <2>2, <3>7, <3>8 DEF CreateInv, CommittedWhole
    <3>9. CASE r \in draft[h]
      <4>1. r[2] = k.who /\ r \in logged'
        BY <1>3, <3>6, <3>9
      <4>2. <<"users", k.who>> \in rows' /\ <<"user_roles", k.who>> \in rows'
        BY <2>2, <3>3, <3>5
      <4>3. <<"nodes", k.who>> \in rows <=> <<"couples", k.who>> \in rows
        BY DEF CreateInv, CommittedWhole
      <4>4. <<"nodes", k.who>> \in rows' <=> <<"couples", k.who>> \in rows'
        BY <2>2, <3>3, <3>5, <4>3
      <4> QED  BY <4>1, <4>2, <4>4
    <3> QED  BY <2>2, <3>8, <3>9
  <2> QED  BY <2>1, <2>2 DEF k
<1> QED  BY <1>6, <1>7, <1>8, <1>9 DEF CreateInv

LEMMA CreateStepKeeps ==
  ASSUME CreateInv, C!Next
  PROVE  CreateInv'
<1>1. PICK h \in Creators : \/ C!Begin(h) \/ C!Work(h) \/ C!Refuse(h)
                            \/ C!TimeOut(h) \/ C!Fail(h)
  BY DEF C!Next
<1>2. CASE C!Begin(h)
  BY <1>2, BeginKeeps
<1>3. CASE C!CheckContact(h) \/ C!FindDefaultRole(h)
  BY <1>3, ReadsKeep
<1>4. CASE C!Insert(h)
  BY <1>4, InsertKeeps
<1>5. CASE C!LogCreate(h)
  BY <1>5, LogCreateKeeps
<1>6. CASE C!Commit(h)
  <2>1. C!Open(h) /\ C!End(h) /\ rows' = rows \cup draft[h] /\ C!StepOf(h) = "commit"
    BY <1>6 DEF C!Commit
  <2>2. creating[h].at \in 1..12
    BY <2>1, OpenIsRequest DEF Request
  <2>3. creating[h].at = 12
    BY <2>1, <2>2, StepMeans DEF C!StepOf
  <2> QED  BY <2>1, <2>3, EndKeeps
<1>7. CASE C!Refuse(h) \/ C!TimeOut(h) \/ C!Fail(h)
  <2>1. C!Open(h) /\ C!End(h) /\ UNCHANGED rows
    BY <1>7 DEF C!Refuse, C!TimeOut, C!Fail
  <2> QED  BY <2>1, EndKeeps
<1> QED  BY <1>1, <1>2, <1>3, <1>4, <1>5, <1>6, <1>7 DEF C!Work

-----------------------------------------------------------------------------
(* Sign-up: the invariant.                                                 *)

Codes == Nat \ {0}
Stored == [otp : Codes, sends : Nat, checks : Nat, next : Nat, until : Nat]
Mails == [sent : Nat, cut : Nat, due : Nat]

HandlingStates == {S!Idle} \cup [at : {"first"}, code : Codes, next : Nat]
                    \cup [at : {"mail", "read"}, code : Codes]
                    \cup [at : {"mail again", "store"}, code : Codes, seen : Stored]
                    \cup [at : {"wrong"}, seen : Stored]

SignUpTypes == /\ record \in {S!NoRecord} \cup Stored
               /\ drawn \in Nat /\ time \in Nat /\ mails \in Mails /\ tried \in Nat
               /\ raced \in BOOLEAN
               /\ handling \in [Handlers -> HandlingStates]

\* What a handler has read is still so, if no write has come between.
Tells(s, rec, now) ==
  /\ s.at = "first" => rec = S!NoRecord /\ s.next <= now + 1
  /\ s.at \in {"mail again", "store"} =>
        rec = s.seen /\ s.seen.sends <= LimitSend /\ s.seen.next <= now
  /\ s.at = "wrong" => rec = s.seen /\ s.seen.checks <= LimitCheck

FreshReads == \A h \in Handlers \ stale : Tells(handling[h], record, time)

\* The record keeps the limits, and counts the wrong codes that were tried.
Limited(rec, n) == rec.sends <= LimitSend + 1 /\ rec.checks = n + 1 /\ n <= LimitCheck

\* No more codes are mailed than it counts, but for those whose requests are
\* midway (mid) or were cut there.
Balanced(m, rec, mid) == m.sent <= rec.sends + Cardinality(mid) + m.cut

\* When nobody is midway, it knows when the next code is due.
Due(m, rec, mid, now) == m.due <= now + 1 /\ (mid = {} => m.due <= rec.next)

\* All three at once.
Counted(m, rec, mid, now, n) == Limited(rec, n) /\ Balanced(m, rec, mid) /\ Due(m, rec, mid, now)

Counts == record # S!NoRecord /\ ~ raced => Counted(mails, record, S!Midway, time, tried)

\* A code is on its way, has come to an end, or is about to be queued.
Handed == queue \cup inbox \cup lost

OnItsWay(c, gone, hs) == \/ c \in gone
                         \/ \E h \in Handlers : hs[h].at = "mail" /\ hs[h].code = c

NoneForgotten ==
  /\ record # S!NoRecord => OnItsWay(record.otp, Handed, handling)
  /\ \A h \in Handlers :
        /\ handling[h].at = "store" => OnItsWay(handling[h].code, Handed, handling)
        /\ handling[h].at = "wrong" => OnItsWay(handling[h].seen.otp, Handed, handling)

SignUpInv == SignUpTypes /\ FreshReads /\ Counts /\ NoneForgotten

LEMMA StoredIsReal == ASSUME NEW r \in Stored PROVE r # S!NoRecord /\ r.otp \in Codes
BY DEF Stored, Codes, S!NoRecord

LEMMA LimitsAre == {LimitSend, LimitCheck, Life, MaxTime} \subseteq Nat /\ S!Never \in Nat
<1>1. {LimitSend, LimitCheck, Life, MaxTime} \subseteq Nat
  BY RegistrationAssumption DEF S!SignUpConstants
<1> QED  BY <1>1 DEF S!Never

LEMMA InOrder == \A d, n, t \in Nat : d <= n /\ n <= t => t >= d
OBVIOUS

\* SignUp takes its own instance of FiniteSets.
LEMMA SameNumbers == \A A : /\ S!Cardinality(A) = Cardinality(A)
                            /\ S!IsFiniteSet(A) <=> IsFiniteSet(A)
BY DEF S!Cardinality, Cardinality, S!IsFiniteSet, IsFiniteSet

\* Some of the handlers, one more and one less.
LEMMA SomeHandlers ==
  ASSUME NEW mid \in SUBSET Handlers
  PROVE  /\ Cardinality(mid) \in Nat
         /\ mid = {} => Cardinality(mid) = 0
         /\ \A h \in mid : Cardinality(mid \ {h}) = Cardinality(mid) - 1
         /\ \A h \in Handlers \ mid : Cardinality(mid \cup {h}) = Cardinality(mid) + 1
<1>1. IsFiniteSet(Handlers)
  BY RegistrationAssumption, SameNumbers DEF S!SignUpConstants
<1>2. IsFiniteSet(mid)
  BY <1>1, FS_Subset
<1>3. Cardinality(mid) \in Nat
  BY <1>2, FS_CardinalityType
<1>4. \A h \in mid : Cardinality(mid \ {h}) = Cardinality(mid) - 1
  BY <1>2, FS_RemoveElement
<1>5. \A h \in Handlers \ mid : Cardinality(mid \cup {h}) = Cardinality(mid) + 1
  BY <1>2, FS_AddElement
<1> QED  BY <1>3, <1>4, <1>5, FS_EmptySet

LEMMA NoMailsAre == S!NoMails \in Mails
BY DEF S!NoMails, Mails

LEMMA HandlingIs ==
  ASSUME NEW s \in HandlingStates
  PROVE  /\ s.at \in {"idle", "first", "mail", "read", "mail again", "store", "wrong"}
         /\ s.at \in {"first", "mail", "read"} => s.code \in Codes
         /\ s.at = "first" => s.next \in Nat
         /\ s.at \in {"mail again", "store"} =>
               s = [at |-> s.at, code |-> s.code, seen |-> s.seen] /\ s.code \in Codes /\ s.seen \in Stored
         /\ s.at = "wrong" => s = [at |-> "wrong", seen |-> s.seen] /\ s.seen \in Stored
         /\ s.at = "idle" => s = S!Idle
<1>1. \/ s = S!Idle
      \/ s \in [at : {"first"}, code : Codes, next : Nat]
      \/ s \in [at : {"mail", "read"}, code : Codes]
      \/ s \in [at : {"mail again", "store"}, code : Codes, seen : Stored]
      \/ s \in [at : {"wrong"}, seen : Stored]
  BY DEF HandlingStates
<1>2. CASE s = S!Idle
  BY <1>2 DEF S!Idle
<1>3. CASE s \in [at : {"mail", "read"}, code : Codes]
  BY <1>3
<1>4. CASE s \in [at : {"mail again", "store"}, code : Codes, seen : Stored]
  BY <1>4
<1>5. CASE s \in [at : {"wrong"}, seen : Stored]
  BY <1>5
<1>6. CASE s \in [at : {"first"}, code : Codes, next : Nat]
  BY <1>6
<1> QED  BY <1>1, <1>2, <1>3, <1>4, <1>5, <1>6, Zenon

\* One handler moves on.
LEMMA OneMoves ==
  ASSUME SignUpTypes, NEW h \in Handlers, NEW s \in HandlingStates, S!Goto(h, s)
  PROVE  /\ handling' \in [Handlers -> HandlingStates]
         /\ handling'[h] = s
         /\ \A g \in Handlers : g # h => handling'[g] = handling[g]
BY DEF S!Goto, SignUpTypes

\* A SET: whoever else is in flight has read a record that is gone.
LEMMA WriteMeans ==
  ASSUME NEW h \in Handlers, NEW r, NEW m, NEW n, S!Write(h, r, m, n)
  PROVE  /\ record' = r
         /\ \A g \in Handlers : g # h /\ g \notin stale' => handling[g] = S!Idle
         /\ ~ raced' => ~ raced /\ h \notin stale /\ mails' = m /\ tried' = n
         /\ raced' => mails' = S!NoMails /\ tried' = 0
         /\ raced \in BOOLEAN => raced' \in BOOLEAN
BY DEF S!Write, S!InFlight

LEMMA IdleTells == \A rec, now : Tells(S!Idle, rec, now)
BY DEF Tells, S!Idle

LEMMA SignUpInitially == S!Init => SignUpInv
<1> SUFFICES ASSUME S!Init PROVE SignUpInv
  OBVIOUS
<1>1. /\ record = S!NoRecord /\ drawn = 0 /\ time = 0 /\ mails = S!NoMails /\ tried = 0 /\ raced = FALSE
      /\ handling = [h \in Handlers |-> S!Idle]
  BY DEF S!Init
<1>2. \A h \in Handlers : handling[h] = S!Idle
  BY <1>1
<1>3. SignUpTypes
  BY <1>1, NoMailsAre DEF SignUpTypes, HandlingStates
<1>4. FreshReads
  BY <1>2, IdleTells DEF FreshReads
<1>5. Counts
  BY <1>1 DEF Counts
<1>6. NoneForgotten
  BY <1>1, <1>2 DEF NoneForgotten, S!Idle
<1> QED  BY <1>3, <1>4, <1>5, <1>6 DEF SignUpInv

-----------------------------------------------------------------------------
(* Sign-up: every step.                                                    *)

\* A code stays on its way when one handler moves on, or none.
LEMMA StaysOnItsWay ==
  ASSUME SignUpTypes, NEW h \in Handlers, Handed \subseteq Handed',
         \A g \in Handlers : g # h => handling'[g] = handling[g],
         handling[h].at = "mail" => handling[h].code \in Handed'
  PROVE  \A c : OnItsWay(c, Handed, handling) => OnItsWay(c, Handed', handling')
BY DEF OnItsWay

\* A step of one handler that neither comes midway nor leaves from there.
LEMMA QuietCounts ==
  ASSUME SignUpInv, NEW h \in Handlers, NEW s \in HandlingStates, S!Goto(h, s),
         handling[h].at # "store", s.at # "store",
         UNCHANGED <<record, time, mails, tried, raced>>
  PROVE  Counts' /\ mails' \in Mails
<1>1. S!Midway' = S!Midway
  BY OneMoves DEF SignUpInv, S!Midway
<1> QED  BY <1>1 DEF SignUpInv, SignUpTypes, Counts

\* What all steps but writes, ticks and crashes have in common.
LEMMA MoveKeeps ==
  ASSUME SignUpInv, NEW h \in Handlers, NEW s \in HandlingStates, S!Goto(h, s),
         UNCHANGED <<record, time, tried, raced>>, drawn' \in Nat, mails' \in Mails, Counts',
         \A g \in Handlers : g # h /\ g \notin stale' => g \notin stale,
         h \notin stale' => Tells(s, record, time),
         Handed \subseteq Handed',
         handling[h].at = "mail" => handling[h].code \in Handed',
         s.at = "store" => s.code \in Handed',
         s.at = "wrong" => OnItsWay(s.seen.otp, Handed, handling)
  PROVE  SignUpInv'
<1>1. /\ handling' \in [Handlers -> HandlingStates]
      /\ handling'[h] = s
      /\ \A g \in Handlers : g # h => handling'[g] = handling[g]
  BY OneMoves DEF SignUpInv
<1>2. SignUpTypes'
  BY <1>1 DEF SignUpInv, SignUpTypes
<1>3. \A c : OnItsWay(c, Handed, handling) => OnItsWay(c, Handed', handling')
  BY <1>1, StaysOnItsWay DEF SignUpInv
<1>4. FreshReads'
  <2> SUFFICES ASSUME NEW g \in Handlers, g \notin stale' PROVE Tells(handling'[g], record', time')
    BY DEF FreshReads
  <2>1. CASE g = h
    BY <1>1, <2>1
  <2>2. CASE g # h
    BY <1>1, <2>2 DEF SignUpInv, FreshReads
  <2> QED  BY <2>1, <2>2
<1>6. NoneForgotten'
  <2>1. record' # S!NoRecord => OnItsWay(record'.otp, Handed', handling')
    BY <1>3 DEF SignUpInv, NoneForgotten
  <2>2. ASSUME NEW g \in Handlers
        PROVE  /\ handling'[g].at = "store" => OnItsWay(handling'[g].code, Handed', handling')
               /\ handling'[g].at = "wrong" => OnItsWay(handling'[g].seen.otp, Handed', handling')
    <3>1. CASE g # h
      BY <1>1, <1>3, <3>1 DEF SignUpInv, NoneForgotten
    <3>2. CASE g = h
      <4>1. s.at = "store" => OnItsWay(s.code, Handed', handling')
        BY DEF OnItsWay
      <4>2. s.at = "wrong" => OnItsWay(s.seen.otp, Handed', handling')
        BY <1>3
      <4> QED  BY <1>1, <3>2, <4>1, <4>2
    <3> QED  BY <3>1, <3>2
  <2> QED  BY <2>1, <2>2 DEF NoneForgotten
<1> QED  BY <1>2, <1>4, <1>6 DEF SignUpInv

\* What the three writes have in common.
LEMMA WriteKeeps ==
  ASSUME SignUpInv, NEW h \in Handlers, NEW s \in HandlingStates, S!Goto(h, s),
         s.at \in {"idle", "mail"},
         NEW r \in Stored, NEW m \in Mails, NEW n \in Nat, S!Write(h, r, m, n),
         UNCHANGED <<drawn, queue, inbox, lost, time>>,
         handling[h].at # "mail",
         OnItsWay(r.otp, Handed, handling) \/ (s.at = "mail" /\ s.code = r.otp),
         ~ raced /\ h \notin stale => Counted(m, r, S!Midway \ {h}, time, n)
  PROVE  SignUpInv'
<1>1. /\ handling' \in [Handlers -> HandlingStates]
      /\ handling'[h] = s
      /\ \A g \in Handlers : g # h => handling'[g] = handling[g]
  BY OneMoves DEF SignUpInv
<1>2. /\ record' = r
      /\ \A g \in Handlers : g # h /\ g \notin stale' => handling[g] = S!Idle
      /\ ~ raced' => ~ raced /\ h \notin stale /\ mails' = m /\ tried' = n
      /\ raced' => mails' = S!NoMails /\ tried' = 0
      /\ raced' \in BOOLEAN
  BY WriteMeans DEF SignUpInv, SignUpTypes
<1>3. Handed' = Handed /\ r # S!NoRecord
  BY StoredIsReal DEF Handed
<1>4. \A c : OnItsWay(c, Handed, handling) => OnItsWay(c, Handed', handling')
  BY <1>1, <1>3, StaysOnItsWay DEF SignUpInv
<1>5. SignUpTypes'
  <2>1. mails' \in Mails /\ tried' \in Nat
    BY <1>2, NoMailsAre
  <2> QED  BY <1>1, <1>2, <2>1 DEF SignUpInv, SignUpTypes
<1>6. FreshReads'
  <2> SUFFICES ASSUME NEW g \in Handlers, g \notin stale' PROVE Tells(handling'[g], record', time')
    BY DEF FreshReads
  <2>1. CASE g = h
    BY <1>1, <2>1 DEF Tells
  <2>2. CASE g # h
    BY <1>1, <1>2, <2>2, IdleTells
  <2> QED  BY <2>1, <2>2
<1>7. Counts'
  <2>1. S!Midway' = S!Midway \ {h}
    BY <1>1 DEF S!Midway
  <2> QED  BY <1>2, <1>3, <2>1 DEF Counts
<1>8. NoneForgotten'
  <2>1. OnItsWay(record'.otp, Handed', handling')
    <3>1. s.at = "mail" /\ s.code = r.otp => OnItsWay(r.otp, Handed', handling')
      BY <1>1 DEF OnItsWay
    <3> QED  BY <1>2, <1>4, <3>1
  <2>2. ASSUME NEW g \in Handlers
        PROVE  /\ handling'[g].at = "store" => OnItsWay(handling'[g].code, Handed', handling')
               /\ handling'[g].at = "wrong" => OnItsWay(handling'[g].seen.otp, Handed', handling')
    BY <1>1, <1>4 DEF SignUpInv, NoneForgotten
  <2> QED  BY <2>1, <2>2 DEF NoneForgotten
<1> QED  BY <1>5, <1>6, <1>7, <1>8 DEF SignUpInv

LEMMA IdleIsState == S!Idle \in HandlingStates /\ S!Idle.at = "idle"
BY DEF HandlingStates, S!Idle

LEMMA RegisterKeeps ==
  ASSUME SignUpInv, NEW h \in Handlers, NEW registered, S!Register(h, registered)
  PROVE  SignUpInv'
<1> DEFINE s == IF record = S!NoRecord
                THEN [at |-> "first", code |-> drawn + 1, next |-> time + 1]
                ELSE [at |-> "read", code |-> drawn + 1]
<1>1. /\ handling[h] = S!Idle /\ S!Goto(h, s) /\ drawn' = drawn + 1 /\ stale' = stale \ {h}
      /\ UNCHANGED <<record, queue, inbox, lost, time, mails, tried, raced>>
  BY DEF S!Register, S!Goto
<1>2. drawn + 1 \in Codes /\ time + 1 \in Nat
  BY DEF SignUpInv, SignUpTypes, Codes
<1>3. /\ s \in HandlingStates /\ s.at \in {"first", "read"}
      /\ s.at = "first" => record = S!NoRecord /\ s.next = time + 1
  <2>1. CASE record = S!NoRecord
    BY <1>2, <2>1 DEF HandlingStates
  <2>2. CASE record # S!NoRecord
    BY <1>2, <2>2 DEF HandlingStates
  <2> QED  BY <2>1, <2>2
<1> HIDE DEF s
<1>4. Tells(s, record, time)
  <2>1. s.at = "first" => s.next <= time + 1
    BY <1>2, <1>3
  <2> QED  BY <1>3, <2>1, Zenon DEF Tells
<1>5. handling[h].at = "idle" /\ Handed' = Handed
  BY <1>1, IdleIsState DEF Handed
<1>6. drawn' \in Nat
  BY <1>1, <1>2 DEF Codes
<1>7. Counts' /\ mails' \in Mails
  BY <1>1, <1>3, <1>5, QuietCounts
<1> QED  BY <1>1, <1>3, <1>4, <1>5, <1>6, <1>7, MoveKeeps

LEMMA MailFirstKeeps ==
  ASSUME SignUpInv, NEW h \in Handlers, S!MailFirst(h)
  PROVE  SignUpInv'
<1>1. /\ handling[h].at = "mail" /\ S!Goto(h, S!Idle) /\ queue' = queue \cup {handling[h].code}
      /\ UNCHANGED <<record, drawn, inbox, lost, time, mails, tried, stale, raced>>
  BY DEF S!MailFirst
<1>2. Handed \subseteq Handed' /\ handling[h].code \in Handed'
  BY <1>1 DEF Handed
<1>3. drawn' \in Nat
  BY <1>1 DEF SignUpInv, SignUpTypes
<1>4. Counts' /\ mails' \in Mails
  BY <1>1, IdleIsState, QuietCounts
<1> QED  BY <1>1, <1>2, <1>3, <1>4, IdleIsState, IdleTells, MoveKeeps

LEMMA ReadRecordKeeps ==
  ASSUME SignUpInv, NEW h \in Handlers, S!ReadRecord(h)
  PROVE  SignUpInv'
<1> DEFINE ok == record # S!NoRecord /\ record.sends <= LimitSend /\ time >= record.next
           s == IF ok THEN [at |-> "mail again", code |-> handling[h].code, seen |-> record]
                      ELSE S!Idle
<1>1. /\ handling[h].at = "read" /\ S!Goto(h, s) /\ stale' = stale \ {h}
      /\ UNCHANGED <<record, drawn, queue, inbox, lost, time, mails, tried, raced>>
  BY DEF S!ReadRecord
<1>2. handling[h] \in HandlingStates
  BY DEF SignUpInv, SignUpTypes
<1>3. handling[h].code \in Codes
  BY <1>1, <1>2, HandlingIs
<1>4. s \in HandlingStates /\ s.at \in {"mail again", "idle"} /\ Tells(s, record, time)
  <2>1. CASE ok
    <3>1. record \in Stored /\ time \in Nat
      BY <2>1 DEF SignUpInv, SignUpTypes
    <3>2. record.next \in Nat
      BY <3>1 DEF Stored
    <3> QED  BY <1>3, <2>1, <3>1, <3>2 DEF HandlingStates, Tells
  <2>2. CASE ~ ok
    BY <2>2, IdleIsState, IdleTells
  <2> QED  BY <2>1, <2>2
<1> HIDE DEF s, ok
<1>5. Handed' = Handed /\ drawn' \in Nat
  BY <1>1 DEF Handed, SignUpInv, SignUpTypes
<1>6. Counts' /\ mails' \in Mails
  BY <1>1, <1>4, QuietCounts
<1> QED  BY <1>1, <1>4, <1>5, <1>6, MoveKeeps

\* A code more, and its request midway.
LEMMA OneMoreMailed ==
  ASSUME SignUpInv, NEW h \in Handlers, h \notin S!Midway, S!Midway' = S!Midway \cup {h},
         S!Tell([sent |-> mails.sent + 1, cut |-> mails.cut, due |-> time + 1]),
         UNCHANGED <<record, time, tried, raced>>
  PROVE  Counts' /\ mails' \in Mails
<1> DEFINE m == [sent |-> mails.sent + 1, cut |-> mails.cut, due |-> time + 1]
<1>1. mails.sent \in Nat /\ mails.cut \in Nat /\ time \in Nat /\ time + 1 \in Nat
  BY DEF SignUpInv, SignUpTypes, Mails
<1>2. m \in Mails
  BY <1>1 DEF Mails
<1>3. mails' = IF raced THEN S!NoMails ELSE m
  BY DEF S!Tell
<1>4. ASSUME record # S!NoRecord, ~ raced PROVE Counted(m, record, S!Midway', time, tried)
  <2>1. /\ Limited(record, tried) /\ mails.sent <= record.sends + Cardinality(S!Midway) + mails.cut
        /\ record.sends \in Nat
    BY <1>4 DEF SignUpInv, SignUpTypes, Stored, Counts, Counted, Balanced
  <2>2. Cardinality(S!Midway') = Cardinality(S!Midway) + 1 /\ Cardinality(S!Midway) \in Nat
    BY SomeHandlers DEF S!Midway
  <2>3. Balanced(m, record, S!Midway')
    <3>1. mails.sent + 1 <= record.sends + Cardinality(S!Midway') + mails.cut
      BY <1>1, <2>1, <2>2
    <3> QED  BY <3>1 DEF Balanced
  <2>4. Due(m, record, S!Midway', time)
    BY <1>1 DEF Due
  <2> QED  BY <2>1, <2>3, <2>4 DEF Counted
<1> HIDE DEF m
<1>5. mails' \in Mails
  BY <1>2, <1>3, NoMailsAre
<1>6. Counts'
  BY <1>3, <1>4 DEF Counts
<1> QED  BY <1>5, <1>6

\* Some requests end midway: their codes are mailed and not counted.
LEMMA CutCounts ==
  ASSUME SignUpInv, NEW hs \in SUBSET S!Midway, S!Cut(hs), S!Midway' = S!Midway \ hs,
         Cardinality(S!Midway) = Cardinality(S!Midway') + Cardinality(hs),
         UNCHANGED <<record, tried, raced, time>>
  PROVE  Counts' /\ mails' \in Mails
<1> DEFINE m == [sent |-> mails.sent, cut |-> mails.cut + Cardinality(hs), due |-> 0]
<1>1. mails.sent \in Nat /\ mails.cut \in Nat /\ mails \in Mails /\ time \in Nat
  BY DEF SignUpInv, SignUpTypes, Mails
<1>2. /\ Cardinality(hs) \in Nat /\ Cardinality(S!Midway) \in Nat
      /\ Cardinality(S!Midway') \in Nat
  <2>1. hs \in SUBSET Handlers /\ S!Midway \in SUBSET Handlers /\ S!Midway' \in SUBSET Handlers
    BY DEF S!Midway
  <2> QED  BY <2>1, SomeHandlers
<1>3. m \in Mails
  BY <1>1, <1>2 DEF Mails
<1>4. mails' = IF raced THEN S!NoMails ELSE IF hs = {} THEN mails ELSE m
  BY SameNumbers DEF S!Cut, S!Tell
<1>5. ASSUME record # S!NoRecord, ~ raced, hs # {}
      PROVE  Counted(m, record, S!Midway', time, tried)
  <2>1. /\ Limited(record, tried) /\ mails.sent <= record.sends + Cardinality(S!Midway) + mails.cut
        /\ record.sends \in Nat /\ record.next \in Nat
    BY <1>5 DEF SignUpInv, SignUpTypes, Stored, Counts, Counted, Balanced
  <2>2. Balanced(m, record, S!Midway')
    <3>1. mails.sent <= record.sends + Cardinality(S!Midway') + (mails.cut + Cardinality(hs))
      BY <1>1, <1>2, <2>1
    <3> QED  BY <3>1 DEF Balanced
  <2>3. Due(m, record, S!Midway', time)
    BY <1>1, <2>1 DEF Due
  <2> QED  BY <2>1, <2>2, <2>3 DEF Counted
<1> HIDE DEF m
<1>6. mails' \in Mails
  BY <1>1, <1>3, <1>4, NoMailsAre
<1>7. Counts'
  <2>1. CASE hs = {}
    BY <1>4, <2>1 DEF SignUpInv, Counts
  <2>2. CASE hs # {}
    BY <1>4, <1>5, <2>2 DEF Counts
  <2> QED  BY <2>1, <2>2
<1> QED  BY <1>6, <1>7

LEMMA MailAgainKeeps ==
  ASSUME SignUpInv, NEW h \in Handlers, S!MailAgain(h)
  PROVE  SignUpInv'
<1> DEFINE s == [handling[h] EXCEPT !.at = "store"]
<1>1. /\ handling[h].at = "mail again" /\ handling' = [handling EXCEPT ![h].at = "store"]
      /\ queue' = queue \cup {handling[h].code}
      /\ S!Tell([sent |-> mails.sent + 1, cut |-> mails.cut, due |-> time + 1])
      /\ UNCHANGED <<record, drawn, inbox, lost, time, tried, stale, raced>>
  BY DEF S!MailAgain
<1>2. handling[h] \in HandlingStates
  BY DEF SignUpInv, SignUpTypes
<1>3. /\ handling[h] = [at |-> "mail again", code |-> handling[h].code, seen |-> handling[h].seen]
      /\ handling[h].code \in Codes /\ handling[h].seen \in Stored
  BY <1>1, <1>2, HandlingIs
<1>4. s = [at |-> "store", code |-> handling[h].code, seen |-> handling[h].seen]
  <2> DEFINE x == handling[h]   c == handling[h].code   e == handling[h].seen
  <2>1. x = [at |-> "mail again", code |-> c, seen |-> e] /\ s = [x EXCEPT !.at = "store"]
    BY <1>3
  <2> HIDE DEF s, x, c, e
  <2>2. s = [at |-> "store", code |-> c, seen |-> e]
    BY <2>1
  <2> QED  BY <2>2 DEF c, e
<1>5. S!Goto(h, s)
  BY <1>1, <1>4 DEF S!Goto, SignUpInv, SignUpTypes
<1>6. s \in HandlingStates /\ s.at = "store" /\ s.code = handling[h].code
      /\ s.seen = handling[h].seen
  <2> DEFINE n == [at |-> "store", code |-> handling[h].code, seen |-> handling[h].seen]
  <2>1. n \in HandlingStates
    BY <1>3 DEF HandlingStates
  <2>2. n.at = "store" /\ n.code = handling[h].code /\ n.seen = handling[h].seen
    OBVIOUS
  <2>3. s = n
    BY <1>4
  <2> HIDE DEF s, n
  <2> QED  BY <2>1, <2>2, <2>3
<1> HIDE DEF s
<1>7. h \notin stale' => Tells(s, record, time)
  BY <1>1, <1>6 DEF SignUpInv, FreshReads, Tells
<1>8. Handed \subseteq Handed' /\ handling[h].code \in Handed'
  BY <1>1 DEF Handed
<1>9. drawn' \in Nat
  BY <1>1 DEF SignUpInv, SignUpTypes
<1>10. S!Midway' = S!Midway \cup {h} /\ h \notin S!Midway
  BY <1>1, <1>5, <1>6, OneMoves DEF SignUpInv, S!Midway
<1>11. Counts' /\ mails' \in Mails
  BY <1>1, <1>10, OneMoreMailed
<1> QED  BY <1>1, <1>5, <1>6, <1>7, <1>8, <1>9, <1>11, MoveKeeps

LEMMA RegisterFailsKeeps ==
  ASSUME SignUpInv, NEW h \in Handlers, S!RegisterFails(h)
  PROVE  SignUpInv'
<1> DEFINE hs == S!Midway \cap {h}
<1>1. /\ S!Goto(h, S!Idle) /\ lost' = lost \cup ({handling[h].code} \ (queue \cup inbox))
      /\ S!Cut(hs)
      /\ UNCHANGED <<record, drawn, queue, inbox, time, tried, stale, raced>>
  BY DEF S!RegisterFails
<1>2. Handed \subseteq Handed' /\ handling[h].code \in Handed'
  BY <1>1 DEF Handed
<1>3. drawn' \in Nat
  BY <1>1 DEF SignUpInv, SignUpTypes
<1>4. S!Midway' = S!Midway \ hs
  BY <1>1, OneMoves, IdleIsState DEF SignUpInv, S!Midway
<1>5. Cardinality(S!Midway) = Cardinality(S!Midway') + Cardinality(hs)
  <2>1. S!Midway \in SUBSET Handlers
    BY DEF S!Midway
  <2>2. Cardinality(S!Midway) \in Nat
    BY <2>1, SomeHandlers
  <2>3. CASE h \in S!Midway
    <3>1. hs = {h} /\ S!Midway' = S!Midway \ {h} /\ Cardinality({h}) = 1
      BY <1>4, <2>3, FS_Singleton
    <3>2. Cardinality(S!Midway \ {h}) = Cardinality(S!Midway) - 1
      BY <2>1, <2>3, SomeHandlers
    <3> QED  BY <2>2, <3>1, <3>2
  <2>4. CASE h \notin S!Midway
    <3>1. hs = {} /\ S!Midway' = S!Midway /\ Cardinality({}) = 0
      BY <1>4, <2>4, FS_EmptySet
    <3> QED  BY <2>2, <3>1
  <2> QED  BY <2>3, <2>4
<1>6. Counts' /\ mails' \in Mails
  BY <1>1, <1>4, <1>5, CutCounts
<1> HIDE DEF hs
<1> QED  BY <1>1, <1>2, <1>3, <1>6, IdleIsState, IdleTells, MoveKeeps

LEMMA VerifyKeeps ==
  ASSUME SignUpInv, NEW h \in Handlers, NEW right \in BOOLEAN, S!Verify(h, right)
  PROVE  SignUpInv'
<1> DEFINE ok == record # S!NoRecord /\ record.checks <= LimitCheck /\ ~ right
           s == IF ok THEN [at |-> "wrong", seen |-> record] ELSE S!Idle
<1>1. /\ handling[h] = S!Idle /\ stale' = stale \ {h}
      /\ UNCHANGED <<record, drawn, queue, inbox, lost, time, mails, tried, raced>>
  BY DEF S!Verify
<1>2. S!Goto(h, s)
  <2>1. CASE ok
    BY <2>1 DEF S!Verify
  <2>2. CASE ~ ok
    <3>1. handling' = handling
      BY <2>2 DEF S!Verify
    <3> QED  BY <1>1, <2>2, <3>1 DEF S!Goto, SignUpInv, SignUpTypes
  <2> QED  BY <2>1, <2>2
<1>3. s \in HandlingStates /\ s.at \in {"wrong", "idle"} /\ Tells(s, record, time)
      /\ (s.at = "wrong" => OnItsWay(s.seen.otp, Handed, handling))
  <2>1. CASE ok
    <3>1. record \in Stored
      BY <2>1 DEF SignUpInv, SignUpTypes
    <3>2. OnItsWay(record.otp, Handed, handling)
      BY <2>1 DEF SignUpInv, NoneForgotten
    <3> QED  BY <2>1, <3>1, <3>2 DEF HandlingStates, Tells
  <2>2. CASE ~ ok
    BY <2>2, IdleIsState, IdleTells
  <2> QED  BY <2>1, <2>2
<1> HIDE DEF s, ok
<1>4. Handed' = Handed /\ drawn' \in Nat /\ handling[h].at = "idle"
  BY <1>1, IdleIsState DEF Handed, SignUpInv, SignUpTypes
<1>5. Counts' /\ mails' \in Mails
  BY <1>1, <1>2, <1>3, <1>4, QuietCounts
<1> QED  BY <1>1, <1>2, <1>3, <1>4, <1>5, MoveKeeps

LEMMA StoreFirstKeeps ==
  ASSUME SignUpInv, NEW h \in Handlers, S!StoreFirst(h)
  PROVE  SignUpInv'
<1> DEFINE r == [otp |-> handling[h].code, sends |-> 1, checks |-> 1,
                 next |-> handling[h].next, until |-> time + Life]
           s == [at |-> "mail", code |-> handling[h].code]
           m == [sent |-> 1, cut |-> 0, due |-> handling[h].next]
<1>1. /\ handling[h].at = "first" /\ S!Write(h, r, m, 0) /\ S!Goto(h, s)
      /\ UNCHANGED <<drawn, queue, inbox, lost, time>>
  BY DEF S!StoreFirst
<1>2. handling[h] \in HandlingStates /\ time \in Nat
  BY DEF SignUpInv, SignUpTypes
<1>3. handling[h].code \in Codes /\ handling[h].next \in Nat
  BY <1>1, <1>2, HandlingIs
<1>4. r \in Stored /\ s \in HandlingStates /\ m \in Mails
  <2>1. time + Life \in Nat
    BY <1>2, LimitsAre
  <2>2. r \in Stored
    BY <1>3, <2>1 DEF Stored
  <2>3. s \in HandlingStates
    BY <1>3 DEF HandlingStates
  <2>4. m \in Mails
    BY <1>3 DEF Mails
  <2> QED  BY <2>2, <2>3, <2>4
<1>5. ASSUME ~ raced, h \notin stale PROVE Counted(m, r, S!Midway \ {h}, time, 0)
  <2>1. handling[h].next <= time + 1
    BY <1>1, <1>5 DEF SignUpInv, FreshReads, Tells
  <2>2. Limited(r, 0)
    BY LimitsAre DEF Limited
  <2>3. Cardinality(S!Midway \ {h}) \in Nat
    BY SomeHandlers DEF S!Midway
  <2>4. Balanced(m, r, S!Midway \ {h})
    <3>1. 1 <= 1 + Cardinality(S!Midway \ {h}) + 0
      BY <2>3
    <3> QED  BY <3>1 DEF Balanced
  <2>5. Due(m, r, S!Midway \ {h}, time)
    BY <1>3, <2>1 DEF Due
  <2> QED  BY <2>2, <2>4, <2>5 DEF Counted
<1>6. s.at = "mail" /\ s.code = r.otp
  OBVIOUS
<1> HIDE DEF r, s, m
<1> QED  BY <1>1, <1>4, <1>5, <1>6, WriteKeeps

LEMMA StoreAgainKeeps ==
  ASSUME SignUpInv, NEW h \in Handlers, S!StoreAgain(h)
  PROVE  SignUpInv'
<1> DEFINE seen == handling[h].seen
           r == [otp |-> handling[h].code, sends |-> seen.sends + 1, checks |-> 1,
                 next |-> time + 1, until |-> time + Life]
<1>1. /\ handling[h].at = "store" /\ S!Write(h, r, mails, 0) /\ S!Goto(h, S!Idle)
      /\ UNCHANGED <<drawn, queue, inbox, lost, time>>
  BY DEF S!StoreAgain
<1>2. handling[h] \in HandlingStates /\ time \in Nat /\ mails \in Mails
  BY DEF SignUpInv, SignUpTypes
<1>3. handling[h].code \in Codes /\ seen \in Stored
  BY <1>1, <1>2, HandlingIs
<1>4. seen.sends \in Nat /\ seen # S!NoRecord
  BY <1>3, StoredIsReal DEF Stored
<1>5. r \in Stored
  BY <1>2, <1>3, <1>4, LimitsAre DEF Stored
<1>6. OnItsWay(r.otp, Handed, handling)
  BY <1>1 DEF SignUpInv, NoneForgotten
<1>7. ASSUME ~ raced, h \notin stale PROVE Counted(mails, r, S!Midway \ {h}, time, 0)
  <2>1. record = seen /\ seen.sends <= LimitSend
    BY <1>1, <1>7 DEF SignUpInv, FreshReads, Tells
  <2>2. Counted(mails, seen, S!Midway, time, tried)
    BY <1>4, <1>7, <2>1 DEF SignUpInv, Counts
  <2>3. h \in S!Midway /\ S!Midway \in SUBSET Handlers
    BY <1>1 DEF S!Midway
  <2>4. /\ Cardinality(S!Midway) \in Nat
        /\ Cardinality(S!Midway \ {h}) = Cardinality(S!Midway) - 1
    BY <2>3, SomeHandlers
  <2>5. Limited(r, 0)
    BY <1>4, <2>1, LimitsAre DEF Limited
  <2>6. Balanced(mails, r, S!Midway \ {h})
    <3>1. mails.sent \in Nat /\ mails.cut \in Nat
      BY <1>2 DEF Mails
    <3>2. mails.sent <= seen.sends + Cardinality(S!Midway) + mails.cut
      BY <2>2 DEF Counted, Balanced
    <3>3. mails.sent <= (seen.sends + 1) + Cardinality(S!Midway \ {h}) + mails.cut
      BY <1>4, <2>4, <3>1, <3>2
    <3> QED  BY <3>3 DEF Balanced
  <2>7. Due(mails, r, S!Midway \ {h}, time)
    BY <2>2 DEF Counted, Due
  <2> QED  BY <2>5, <2>6, <2>7 DEF Counted
<1> HIDE DEF r, seen
<1> QED  BY <1>1, <1>2, <1>5, <1>6, <1>7, IdleIsState, WriteKeeps

LEMMA WrongCounted ==
  ASSUME NEW x \in Stored, NEW y, NEW z
  PROVE  [x EXCEPT !.checks = y, !.until = z] =
           [otp |-> x.otp, sends |-> x.sends, checks |-> y, next |-> x.next, until |-> z]
<1> DEFINE w == [x EXCEPT !.checks = y]
<1>1. x = [otp |-> x.otp, sends |-> x.sends, checks |-> x.checks, next |-> x.next,
           until |-> x.until]
  BY DEF Stored
<1>2. w = [otp |-> x.otp, sends |-> x.sends, checks |-> y, next |-> x.next, until |-> x.until]
  BY <1>1
<1>3. [x EXCEPT !.checks = y, !.until = z] = [w EXCEPT !.until = z]
  OBVIOUS
<1> HIDE DEF w
<1> QED  BY <1>2, <1>3

LEMMA StoreWrongKeeps ==
  ASSUME SignUpInv, NEW h \in Handlers, S!StoreWrong(h)
  PROVE  SignUpInv'
<1> DEFINE seen == handling[h].seen
           r == [seen EXCEPT !.checks = @ + 1, !.until = S!Never]
<1>1. /\ handling[h].at = "wrong" /\ S!Write(h, r, mails, tried + 1) /\ S!Goto(h, S!Idle)
      /\ UNCHANGED <<drawn, queue, inbox, lost, time>>
  BY DEF S!StoreWrong
<1>2. handling[h] \in HandlingStates /\ mails \in Mails /\ tried \in Nat
  BY DEF SignUpInv, SignUpTypes
<1>3. seen \in Stored
  BY <1>1, <1>2, HandlingIs
<1>4. seen.checks \in Nat /\ seen # S!NoRecord
  BY <1>3, StoredIsReal DEF Stored
<1>5. /\ r \in Stored /\ r.otp = seen.otp /\ r.sends = seen.sends /\ r.next = seen.next
      /\ r.checks = seen.checks + 1
  <2>1. seen.otp \in Codes /\ seen.sends \in Nat /\ seen.next \in Nat /\ seen.checks + 1 \in Nat
    BY <1>3 DEF Stored
  <2>2. r = [otp |-> seen.otp, sends |-> seen.sends, checks |-> seen.checks + 1,
             next |-> seen.next, until |-> S!Never]
    BY <1>3, WrongCounted
  <2> HIDE DEF r, seen
  <2> QED  BY <2>1, <2>2, LimitsAre DEF Stored
<1>6. OnItsWay(r.otp, Handed, handling)
  BY <1>1, <1>5 DEF SignUpInv, NoneForgotten
<1>7. ASSUME ~ raced, h \notin stale PROVE Counted(mails, r, S!Midway \ {h}, time, tried + 1)
  <2>1. record = seen /\ seen.checks <= LimitCheck
    BY <1>1, <1>7 DEF SignUpInv, FreshReads, Tells
  <2>2. Counted(mails, seen, S!Midway, time, tried)
    BY <1>4, <1>7, <2>1 DEF SignUpInv, Counts
  <2>3. S!Midway \ {h} = S!Midway
    BY <1>1 DEF S!Midway
  <2>4. Limited(r, tried + 1)
    BY <1>2, <1>4, <1>5, <2>1, <2>2, LimitsAre DEF Counted, Limited
  <2>5. Balanced(mails, r, S!Midway) /\ Due(mails, r, S!Midway, time)
    BY <1>5, <2>2 DEF Counted, Balanced, Due
  <2> QED  BY <2>3, <2>4, <2>5 DEF Counted
<1>8. tried + 1 \in Nat
  BY <1>2
<1> HIDE DEF r, seen
<1> QED  BY <1>1, <1>2, <1>5, <1>6, <1>7, <1>8, IdleIsState, WriteKeeps

\* The queue works, Redis drops the record, the process dies.
LEMMA DeliveryKeeps ==
  ASSUME SignUpInv, NEW c \in queue, S!Deliver(c) \/ S!MailFails(c)
  PROVE  SignUpInv'
<1>1. UNCHANGED <<record, drawn, time, handling, mails, tried, stale, raced>>
  BY DEF S!Deliver, S!MailFails
<1>2. Handed \subseteq Handed'
  BY DEF S!Deliver, S!MailFails, Handed
<1>3. \A d : OnItsWay(d, Handed, handling) => OnItsWay(d, Handed', handling')
  BY <1>1, <1>2 DEF OnItsWay
<1>4. SignUpTypes' /\ FreshReads' /\ Counts'
  BY <1>1 DEF SignUpInv, SignUpTypes, FreshReads, Counts, S!Midway
<1>5. NoneForgotten'
  BY <1>1, <1>3 DEF SignUpInv, NoneForgotten
<1> QED  BY <1>4, <1>5 DEF SignUpInv

LEMMA TickKeeps ==
  ASSUME SignUpInv, S!Tick
  PROVE  SignUpInv'
<1>1. time' = time + 1 /\ time \in Nat /\ UNCHANGED <<drawn, queue, inbox, lost, handling>>
  BY DEF S!Tick, SignUpInv, SignUpTypes
<1>2. Handed' = Handed
  BY <1>1 DEF Handed
<1>3. CASE UNCHANGED <<record, mails, tried, stale, raced>>
  <2>1. SignUpTypes'
    BY <1>1, <1>3 DEF SignUpInv, SignUpTypes
  <2>2. FreshReads'
    <3> SUFFICES ASSUME NEW g \in Handlers, g \notin stale' PROVE Tells(handling'[g], record', time')
      BY DEF FreshReads
    <3>1. Tells(handling[g], record, time)
      BY <1>3 DEF SignUpInv, FreshReads
    <3>2. handling[g] \in HandlingStates
      BY DEF SignUpInv, SignUpTypes
    <3>3. handling[g].at \in {"mail again", "store"} => handling[g].seen.next \in Nat
      <4>1. handling[g].at \in {"mail again", "store"} => handling[g].seen \in Stored
        BY <3>2, HandlingIs
      <4> QED  BY <4>1 DEF Stored
    <3>4. handling'[g] = handling[g] /\ record' = record
      BY <1>1, <1>3
    <3>5. \A n \in Nat : n <= time => n <= time'
      BY <1>1
    <3>6. handling[g].at \in {"mail again", "store"} =>
            record = handling[g].seen /\ handling[g].seen.sends <= LimitSend
            /\ handling[g].seen.next <= time'
      <4> SUFFICES ASSUME handling[g].at \in {"mail again", "store"}
                   PROVE  record = handling[g].seen /\ handling[g].seen.sends <= LimitSend
                          /\ handling[g].seen.next <= time'
        OBVIOUS
      <4>1. record = handling[g].seen /\ handling[g].seen.sends <= LimitSend
            /\ handling[g].seen.next <= time
        BY <3>1, Zenon DEF Tells
      <4>2. handling[g].seen.next \in Nat
        BY <3>3
      <4> QED  BY <3>5, <4>1, <4>2, Zenon
    <3>7. handling[g].at = "first" => record = S!NoRecord /\ handling[g].next <= time' + 1
      <4> SUFFICES ASSUME handling[g].at = "first"
                   PROVE  record = S!NoRecord /\ handling[g].next <= time' + 1
        OBVIOUS
      <4>1. record = S!NoRecord /\ handling[g].next <= time + 1
        BY <3>1, Zenon DEF Tells
      <4>2. handling[g].next \in Nat
        BY <3>2, HandlingIs
      <4>3. \A n \in Nat : n <= time + 1 => n <= time' + 1
        BY <1>1
      <4> QED  BY <4>1, <4>2, <4>3, Zenon
    <3> QED  BY <3>1, <3>4, <3>6, <3>7, Zenon DEF Tells
  <2>3. Counts'
    <3>1. mails.due \in Nat /\ S!Midway' = S!Midway
      BY <1>1 DEF SignUpInv, SignUpTypes, Mails, S!Midway
    <3>2. mails.due <= time + 1 => mails.due <= time' + 1
      BY <1>1, <3>1
    <3> QED  BY <1>3, <3>1, <3>2 DEF SignUpInv, Counts, Counted, Due
  <2>4. NoneForgotten'
    BY <1>1, <1>2, <1>3 DEF SignUpInv, NoneForgotten
  <2> QED  BY <2>1, <2>2, <2>3, <2>4 DEF SignUpInv
<1>4. CASE record' = S!NoRecord /\ mails' = S!NoMails /\ tried' = 0 /\ stale' = S!InFlight /\ raced' = FALSE
  <2>1. SignUpTypes'
    <3>1. time' \in Nat /\ mails' \in Mails /\ tried' \in Nat
      BY <1>1, <1>4, NoMailsAre
    <3>2. raced' \in BOOLEAN
      BY <1>4
    <3>3. record' \in {S!NoRecord} \cup Stored
      BY <1>4
    <3> QED  BY <1>1, <3>1, <3>2, <3>3 DEF SignUpInv, SignUpTypes
  <2>2. FreshReads'
    BY <1>1, <1>4, IdleTells DEF FreshReads, S!InFlight
  <2>3. Counts'
    BY <1>4 DEF Counts
  <2>4. NoneForgotten'
    BY <1>1, <1>2, <1>4 DEF SignUpInv, NoneForgotten
  <2> QED  BY <2>1, <2>2, <2>3, <2>4 DEF SignUpInv
<1> QED  BY <1>3, <1>4 DEF S!Tick

LEMMA CrashKeeps ==
  ASSUME SignUpInv, S!Crash
  PROVE  SignUpInv'
<1>1. /\ handling' = [h \in Handlers |-> S!Idle]
      /\ S!Cut(S!Midway)
      /\ UNCHANGED <<record, drawn, queue, inbox, time, tried, stale, raced>>
  BY DEF S!Crash
<1>2. \A h \in Handlers : handling'[h] = S!Idle
  BY <1>1
<1>3. SignUpTypes' /\ Counts'
  <2>1. S!Midway' = S!Midway \ S!Midway /\ S!Midway' = {}
    BY <1>2, IdleIsState DEF S!Midway
  <2>2. Cardinality(S!Midway') = 0 /\ Cardinality(S!Midway) \in Nat
    BY <2>1, FS_EmptySet, SomeHandlers DEF S!Midway
  <2>3. Cardinality(S!Midway) = Cardinality(S!Midway') + Cardinality(S!Midway)
    BY <2>2
  <2>4. Counts' /\ mails' \in Mails
    BY <1>1, <2>1, <2>3, CutCounts
  <2> QED  BY <1>1, <2>4, IdleIsState DEF SignUpInv, SignUpTypes
<1>4. FreshReads'
  BY <1>2, IdleTells DEF FreshReads
<1>5. Handed \subseteq Handed'
  BY DEF S!Crash, Handed
<1>6. \A h \in Handlers : handling[h].at = "mail" => handling[h].code \in Handed'
  BY DEF S!Crash, Handed
<1>7. \A c : OnItsWay(c, Handed, handling) => c \in Handed'
  BY <1>5, <1>6 DEF OnItsWay
<1>8. NoneForgotten'
  BY <1>1, <1>2, <1>7, IdleIsState DEF SignUpInv, NoneForgotten, OnItsWay
<1> QED  BY <1>3, <1>4, <1>8 DEF SignUpInv

LEMMA SignUpStepKeeps ==
  ASSUME SignUpInv, NEW registered, S!Next(registered)
  PROVE  SignUpInv'
<1>1. CASE \E h \in Handlers : \/ S!Register(h, registered) \/ S!SignUp(h)
                             \/ \E right \in BOOLEAN : S!Verify(h, right)
  <2>1. PICK h \in Handlers : \/ S!Register(h, registered) \/ S!SignUp(h)
                             \/ \E right \in BOOLEAN : S!Verify(h, right)
    BY <1>1
  <2>2. CASE S!Register(h, registered)
    BY <2>2, RegisterKeeps
  <2>3. CASE S!SignUp(h)
    BY <2>3, StoreFirstKeeps, MailFirstKeeps, ReadRecordKeeps, MailAgainKeeps, StoreAgainKeeps,
       StoreWrongKeeps, RegisterFailsKeeps DEF S!SignUp
  <2>4. CASE \E right \in BOOLEAN : S!Verify(h, right)
    BY <2>4, VerifyKeeps
  <2> QED  BY <2>1, <2>2, <2>3, <2>4
<1>2. CASE \E c \in queue : S!Deliver(c) \/ S!MailFails(c)
  BY <1>2, DeliveryKeeps
<1>3. CASE S!Tick \/ S!Crash
  BY <1>3, TickKeeps, CrashKeeps
<1> QED  BY <1>1, <1>2, <1>3 DEF S!Next

-----------------------------------------------------------------------------
(* The theorems.                                                           *)

LEMMA CreateStutters == CreateInv /\ UNCHANGED createVars => CreateInv'
<1> SUFFICES ASSUME CreateInv, UNCHANGED createVars PROVE CreateInv'
  OBVIOUS
<1>1. UNCHANGED <<free, rows, draft, logged, creating>>
  BY DEF createVars
<1> QED  BY <1>1 DEF CreateInv, CreateTypes, InStep, KeysDiffer, CommittedWhole

LEMMA SignUpStutters == SignUpInv /\ UNCHANGED signUpVars => SignUpInv'
<1> SUFFICES ASSUME SignUpInv, UNCHANGED signUpVars PROVE SignUpInv'
  OBVIOUS
<1>1. UNCHANGED <<record, drawn, queue, inbox, lost, clients, time, handling,
                  mails, tried, stale, raced>>
  BY DEF signUpVars
<1> QED  BY <1>1 DEF SignUpInv, SignUpTypes, FreshReads, Counts, NoneForgotten, Handed,
     S!Midway

\* CreateInv and SignUpInv hold in every state: neither use case disturbs the
\* other.
THEOREM InvariantsHold == Spec => [](CreateInv /\ SignUpInv)
<1>1. Init => CreateInv /\ SignUpInv
  BY CreateInitially, SignUpInitially DEF Init
<1>2. (CreateInv /\ SignUpInv) /\ [Next]_vars => (CreateInv /\ SignUpInv)'
  <2> SUFFICES ASSUME CreateInv, SignUpInv, [Next]_vars PROVE CreateInv' /\ SignUpInv'
    OBVIOUS
  <2>1. CASE CreateStep
    BY <2>1, CreateStepKeeps, SignUpStutters DEF CreateStep
  <2>2. CASE SignUpStep
    BY <2>2, SignUpStepKeeps, CreateStutters DEF SignUpStep
  <2>3. CASE UNCHANGED vars
    BY <2>3, CreateStutters, SignUpStutters DEF vars
  <2> QED  BY <2>1, <2>2, <2>3 DEF Next
<1> QED  BY <1>1, <1>2, PTL DEF Spec

\* The unique columns keep members apart although the contact is checked on what
\* is committed, outside the transaction (ensureUniqueContact).
THEOREM ContactsAreUniqueHolds == Spec => []ContactsAreUnique
<1>1. CreateInv => ContactsAreUnique
  BY DEF CreateInv, KeysDiffer, Clash, ContactsAreUnique, C!ContactsAreUnique
<1> QED  BY <1>1, InvariantsHold, PTL

\* A member comes with role, place in the tree and audit rows, or not at all.
THEOREM MembersAreWholeHolds == Spec => []MembersAreWhole
<1>1. CreateInv => MembersAreWhole
  BY DEF CreateInv, CommittedWhole, MembersAreWhole, C!MembersAreWhole
<1> QED  BY <1>1, InvariantsHold, PTL

\* However the requests overlap, fail and die between queueing a code and storing
\* it (RegisterUserUseCase.execute), the codes mailed exceed the count in the record
\* by no more than those requests, and both counts keep their limits, as long as
\* no handler writes back a record that was replaced meanwhile.
THEOREM CodesAreLimitedHolds == Spec => []CodesAreLimited
<1>1. SignUpInv => CodesAreLimited
  BY SameNumbers DEF SignUpInv, Counts, Counted, Limited, Balanced, CodesAreLimited,
     S!CountersAreTrue
<1> QED  BY <1>1, InvariantsHold, PTL

\* lastTime is taken before a first code is stored and after another one is
\* queued: with the same exceptions, a code is mailed again no sooner than a minute
\* after the one before it.
THEOREM OneCodeAMinuteHolds == Spec => OneCodeAMinute
<1>1. SignUpInv => S!MinutePasses
  <2> SUFFICES ASSUME SignUpInv, NEW h \in Handlers \ stale, handling[h].at = "mail again",
                      ~ raced, S!Midway = {}
               PROVE  time >= mails.due
    BY DEF S!MinutePasses
  <2>1. handling[h] \in HandlingStates /\ time \in Nat /\ mails.due \in Nat
    BY DEF SignUpInv, SignUpTypes, Mails
  <2>2. handling[h].seen \in Stored
    BY <2>1, HandlingIs
  <2>3. record = handling[h].seen /\ handling[h].seen.next <= time
    BY DEF SignUpInv, FreshReads, Tells
  <2>4. record # S!NoRecord /\ record.next \in Nat
    BY <2>2, <2>3, StoredIsReal DEF Stored
  <2>5. mails.due <= record.next
    BY <2>4 DEF SignUpInv, Counts, Counted, Due
  <2>6. record.next <= time
    BY <2>3, Zenon
  <2> QED  BY <2>1, <2>4, <2>5, <2>6, InOrder, Zenon
<1> QED  BY <1>1, InvariantsHold, PTL DEF OneCodeAMinute

\* The code in the record is on its way by mail or has come to an end,
\* wherever the process dies between queueing and storing it.
THEOREM StoredCodeWasSentHolds == Spec => []StoredCodeWasSent
<1>1. SignUpInv => StoredCodeWasSent
  BY DEF SignUpInv, NoneForgotten, OnItsWay, Handed, StoredCodeWasSent, S!StoredCodeWasSent
<1> QED  BY <1>1, InvariantsHold, PTL
=============================================================================
