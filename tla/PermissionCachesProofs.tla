----------------------- MODULE PermissionCachesProofs -----------------------
(***************************************************************************)
(* Proofs about PermissionCaches for every value of its constants.         *)
(*                                                                         *)
(* An answer is followed on its way: out of the database, into the access  *)
(* service's cache, back to the gateway and into its cache.  At each stop  *)
(* the invariant bounds how long ago the grants may have changed if the    *)
(* answer differs from them: the time the answer has waited (Sound) or the *)
(* time the entry has left (EntrySound) tells how old it is.  An answer    *)
(* that is not marked as raced is the truth as long as it is on its way,   *)
(* and in a cache until a change is announced.                             *)
(***************************************************************************)
EXTENDS PermissionCaches, TLAPS

\* The longest an entry that differs from the grants can have been wrong, when
\* it has no time left.
Late(n) == IF n \in Instance THEN MaxLatency + AccessTtl
           ELSE 2 * MaxLatency + AccessTtl + GatewayTtl - 1

\* Somebody will be told, or is being told.
Announced(n, u) ==
  IF n \in Instance THEN \E t \in unpublished[n] : About(t, u)
  ELSE \/ \E i \in Instance : \E t \in unpublished[i] : About(t, u)
       \/ \E t \in User \cup {Everyone} : <<n, t>> \in event /\ About(t, u)

\* An entry e of n, where the grants are P and changed ago, and told says that
\* the change is announced.
EntrySound(n, e, P, ago, told) ==
  /\ e \in EntryType
  /\ e.left <= TtlOf(n)
  /\ e.left > 0 /\ e.permissions # P => ago + e.left <= Late(n) /\ (e.raced \/ told)

\* A request l.
Sound(l) ==
  /\ l \in LookupType
  /\ l.phase # "idle" => l.user \in User /\ l.at \in Instance
  /\ l.phase \in {"read", "answered"} =>
       /\ ~l.raced => l.permissions = permission_user[l.user]
       /\ l.permissions # permission_user[l.user]
            => since[l.user] <= IF l.phase = "read" THEN l.wait
                                ELSE l.wait + MaxLatency + AccessTtl - 1

GrantsShape ==
  /\ permission \subseteq Permission
  /\ permission_user \in [User -> SUBSET permission]
  /\ since \in [User -> 0 .. Horizon]

EventsShape ==
  /\ unpublished \in [Instance -> SUBSET (User \cup {Everyone})]
  /\ event \subseteq Gateway \X (User \cup {Everyone})

EntriesInv ==
  /\ cache \in [Node -> [User -> EntryType]]
  /\ \A n \in Node, u \in User :
       EntrySound(n, cache[n][u], permission_user[u], since[u], Announced(n, u))

LookupsInv ==
  /\ lookup \in [Slot -> LookupType]
  /\ \A s \in Slot : Sound(lookup[s])

\* The inductive invariant.
CachesInv == GrantsShape /\ EventsShape /\ EntriesInv /\ LookupsInv

-----------------------------------------------------------------------------
LEMMA NoEntrySound ==
  ASSUME NEW n, NEW P, NEW ago, NEW told
  PROVE  EntrySound(n, NoEntry, P, ago, told)
BY CachesAssumption DEF EntrySound, NoEntry, EntryType, TtlOf

LEMMA InitInv == Init => CachesInv
<1> SUFFICES ASSUME Init PROVE CachesInv
  OBVIOUS
<1> USE CachesAssumption DEF Init, GrantsInit, OutboxInit
<1>1. GrantsShape /\ EventsShape
  BY DEF GrantsShape, EventsShape, Horizon
<1>2. NoEntry \in EntryType /\ Idle \in LookupType
  BY DEF NoEntry, EntryType, Idle, LookupType
<1>3. EntriesInv
  BY <1>2, NoEntrySound DEF EntriesInv
<1>4. \A s \in Slot : Sound(lookup[s])
  BY <1>2 DEF Sound, Idle
<1> QED BY <1>1, <1>2, <1>3, <1>4 DEF CachesInv, LookupsInv

-----------------------------------------------------------------------------
LEMMA RequestChanged ==
  ASSUME LookupsInv, NEW s \in Slot, NEW l, Sound(l),
         lookup' = [lookup EXCEPT ![s] = l], UNCHANGED <<permission_user, since>>
  PROVE  LookupsInv'
<1>1. \A r \in Slot : lookup'[r] = l \/ lookup'[r] = lookup[r]
  BY DEF LookupsInv
<1> QED BY <1>1 DEF LookupsInv, Sound

\* The steps of a request that store nothing leave the entries alone.
LEMMA RequestStep ==
  ASSUME CachesInv, NEW s \in Slot, NEW l, Sound(l),
         lookup' = [lookup EXCEPT ![s] = l],
         UNCHANGED <<permission, permission_user, cache, unpublished, event, since>>
  PROVE  CachesInv'
<1>2. LookupsInv'
  BY RequestChanged DEF CachesInv
<1>3. GrantsShape' /\ EventsShape'
  BY DEF CachesInv, GrantsShape, EventsShape
<1>4. EntriesInv'
  BY DEF CachesInv, EntriesInv, Announced
<1> QED BY <1>2, <1>3, <1>4 DEF CachesInv

LEMMA MissInv ==
  ASSUME CachesInv, NEW s \in Slot, NEW u \in User, NEW i \in Instance, GatewayMiss(s, u, i)
  PROVE  CachesInv'
<1> DEFINE l == [Idle EXCEPT !.phase = "asked", !.user = u, !.at = i]
<1>1. Idle \in LookupType
  BY CachesAssumption DEF Idle, LookupType
<1>2. l \in LookupType /\ l.phase = "asked" /\ l.user = u /\ l.at = i
  BY <1>1 DEF LookupType
<1>3. Sound(l)
  <2> HIDE DEF l
  <2> QED BY <1>2 DEF Sound
<1> QED BY <1>3, RequestStep DEF GatewayMiss

LEMMA FailInv ==
  ASSUME CachesInv, NEW s \in Slot, Fail(s)
  PROVE  CachesInv'
<1>1. Sound(Idle)
  BY CachesAssumption DEF Sound, LookupType, Idle
<1> QED BY <1>1, RequestStep DEF Fail

LEMMA AccessMissInv ==
  ASSUME CachesInv, NEW s \in Slot, AccessMiss(s)
  PROVE  CachesInv'
<1> DEFINE o == lookup[s]
           l == [o EXCEPT !.phase = "reading"]
<1>1. Sound(o) /\ o.phase = "asked"
  BY DEF CachesInv, LookupsInv, AccessMiss
<1>2. o \in LookupType /\ o.user \in User /\ o.at \in Instance
  BY <1>1 DEF Sound
<1>3. l \in LookupType /\ l.phase = "reading" /\ l.user = o.user /\ l.at = o.at
  BY <1>2 DEF LookupType
<1>4. Sound(l)
  <2> HIDE DEF o, l
  <2> QED BY <1>2, <1>3 DEF Sound
<1> QED BY <1>4, RequestStep DEF AccessMiss

LEMMA ReadInv ==
  ASSUME CachesInv, NEW s \in Slot, Read(s)
  PROVE  CachesInv'
<1> DEFINE o == lookup[s]
           P == permission_user[o.user]
           l == [o EXCEPT !.phase = "read", !.wait = 0, !.permissions = P]
<1>1. Sound(o) /\ o.phase = "reading"
  BY DEF CachesInv, LookupsInv, Read
<1>2. o \in LookupType /\ o.user \in User /\ o.at \in Instance
  BY <1>1 DEF Sound
<1>3. P \in SUBSET Permission
  BY <1>2 DEF CachesInv, GrantsShape
<1>4. l \in LookupType
  <2>1. 0 \in 0 .. MaxLatency
    BY CachesAssumption
  <2> HIDE DEF o, P
  <2> QED BY <1>2, <1>3, <2>1 DEF LookupType
<1>5. /\ l.phase = "read" /\ l.user = o.user /\ l.at = o.at
      /\ l.permissions = permission_user[l.user]
  BY <1>2 DEF LookupType
<1>6. Sound(l)
  <2> HIDE DEF o, P, l
  <2> QED BY <1>2, <1>4, <1>5 DEF Sound
<1> QED BY <1>6, RequestStep DEF Read

LEMMA HitInv ==
  ASSUME CachesInv, NEW s \in Slot, AccessHit(s)
  PROVE  CachesInv'
<1> DEFINE o == lookup[s]
           u == o.user
           i == o.at
           entry == cache[i][u]
           raced == entry.raced \/ \E t \in unpublished[i] : About(t, u)
           l == [o EXCEPT !.phase = "answered", !.wait = 0,
                          !.permissions = entry.permissions, !.raced = raced]
<1>1. Sound(o) /\ o.phase = "asked"
  BY DEF CachesInv, LookupsInv, AccessHit
<1>2. o \in LookupType /\ u \in User /\ i \in Instance /\ i \in Node
  BY <1>1 DEF Sound, Node
<1>3. entry \in EntryType /\ entry.left > 0 /\ Fresh(i, u)
  BY <1>2 DEF CachesInv, EntriesInv, Fresh, AccessHit
<1>4. since[u] \in Nat
  BY <1>2 DEF CachesInv, GrantsShape, Horizon
<1>5. entry.permissions # permission_user[u] => since[u] <= MaxLatency + AccessTtl - 1
  <2>1. entry.permissions # permission_user[u] => since[u] + entry.left <= Late(i)
    BY <1>2, <1>3 DEF CachesInv, EntriesInv, EntrySound
  <2> QED BY <2>1, <1>2, <1>3, <1>4, CachesAssumption DEF Late, EntryType
<1>6. ~raced => entry.permissions = permission_user[u]
  BY <1>2, <1>3 DEF CachesInv, EntriesInv, EntrySound, Announced
<1>7. raced \in BOOLEAN
  BY <1>3 DEF EntryType
<1>8. l \in LookupType
  <2>1. entry.permissions \in SUBSET Permission
    BY <1>3 DEF EntryType
  <2>2. 0 \in 0 .. MaxLatency
    BY CachesAssumption
  <2>3. ASSUME NEW P \in SUBSET Permission, NEW b \in BOOLEAN
        PROVE  [o EXCEPT !.phase = "answered", !.wait = 0, !.permissions = P, !.raced = b]
                 \in LookupType
    <3> HIDE DEF o
    <3> QED BY <1>2, <2>2, <2>3 DEF LookupType
  <2> HIDE DEF o, u, i, entry, raced
  <2> QED BY <1>7, <2>1, <2>3
<1>9. /\ l.phase = "answered" /\ l.user = u /\ l.at = i /\ l.wait = 0
      /\ l.permissions = entry.permissions /\ l.raced = raced
  <2> HIDE DEF o, u, i, entry, raced
  <2> QED BY <1>2 DEF LookupType, o, u, i
<1>10. Sound(l)
  <2> HIDE DEF o, u, i, entry, raced, l
  <2>1. ~l.raced => l.permissions = permission_user[l.user]
    BY <1>6, <1>9
  <2>2. l.permissions # permission_user[l.user]
          => since[l.user] <= IF l.phase = "read" THEN l.wait
                              ELSE l.wait + MaxLatency + AccessTtl - 1
    BY <1>4, <1>5, <1>9, CachesAssumption
  <2> QED BY <1>2, <1>8, <1>9, <2>1, <2>2 DEF Sound
<1> QED BY <1>10, RequestStep DEF AccessHit

\* An answer is stored: the new entry is the answer, another entry is as it was
\* or gone.
LEMMA StoreKeeps ==
  ASSUME CachesInv, NEW n \in Node, NEW u \in User, NEW P, NEW raced, NEW evicted,
         cache' = [cache EXCEPT ![n] = Stored(n, u, P, raced, evicted)],
         UNCHANGED <<permission_user, unpublished, event, since>>,
         EntrySound(n, [permissions |-> P, left |-> TtlOf(n), raced |-> raced],
                    permission_user[u], since[u], FALSE)
  PROVE  EntriesInv'
<1> DEFINE e == [permissions |-> P, left |-> TtlOf(n), raced |-> raced]
<1>1. \A m \in Node, v \in User :
        \/ cache'[m][v] = cache[m][v]
        \/ cache'[m][v] = NoEntry
        \/ m = n /\ v = u /\ cache'[m][v] = e
  BY DEF Stored, CachesInv, EntriesInv
<1>2. NoEntry \in EntryType /\ e \in EntryType
  BY DEF NoEntry, EntryType, EntrySound
<1>3. cache' \in [Node -> [User -> EntryType]]
  BY <1>2 DEF CachesInv, EntriesInv, Stored
<1>4. ASSUME NEW m \in Node, NEW v \in User
      PROVE  EntrySound(m, cache[m][v], permission_user[v], since[v], Announced(m, v))'
  <2>1. Announced(m, v)' <=> Announced(m, v)
    BY DEF Announced
  <2>2. EntrySound(m, cache[m][v], permission_user[v], since[v], Announced(m, v))
    BY DEF CachesInv, EntriesInv
  <2>3. CASE cache'[m][v] = cache[m][v]
    BY <2>1, <2>2, <2>3 DEF EntrySound
  <2>4. CASE cache'[m][v] = NoEntry
    BY <2>4, NoEntrySound DEF EntrySound
  <2>5. CASE m = n /\ v = u /\ cache'[m][v] = e
    BY <2>5 DEF EntrySound
  <2> QED BY <1>1, <2>3, <2>4, <2>5
<1> QED BY <1>3, <1>4 DEF EntriesInv

LEMMA AccessStoreInv ==
  ASSUME CachesInv, NEW s \in Slot, AccessStore(s)
  PROVE  CachesInv'
<1> DEFINE o == lookup[s]
           u == o.user
           i == o.at
           e == [permissions |-> o.permissions, left |-> TtlOf(i), raced |-> o.raced]
           l == [o EXCEPT !.phase = "answered", !.wait = 0]
<1>1. Sound(o) /\ o.phase = "read"
  BY DEF CachesInv, LookupsInv, AccessStore
<1>2. /\ o \in LookupType /\ u \in User /\ i \in Instance /\ i \in Node
      /\ since[u] \in Nat /\ o.wait \in 0 .. MaxLatency
  BY <1>1 DEF Sound, LookupType, Node, CachesInv, GrantsShape, Horizon
<1>3. /\ ~o.raced => o.permissions = permission_user[u]
      /\ o.permissions # permission_user[u] => since[u] <= o.wait
  BY <1>1 DEF Sound
<1>4. EntrySound(i, e, permission_user[u], since[u], FALSE)
  <2>1. e \in EntryType /\ e.left = AccessTtl
    BY <1>2, CachesAssumption DEF EntryType, LookupType, TtlOf
  <2>2. Late(i) = MaxLatency + AccessTtl /\ TtlOf(i) = AccessTtl
    BY <1>2 DEF Late, TtlOf
  <2>3. o.permissions # permission_user[u] => since[u] + AccessTtl <= Late(i)
    BY <1>2, <1>3, <2>2, CachesAssumption
  <2> HIDE DEF o, u, i
  <2> QED BY <1>3, <2>1, <2>2, <2>3, CachesAssumption DEF EntrySound
<1>5. EntriesInv'
  <2>1. PICK evicted : cache' = [cache EXCEPT ![i] = Stored(i, u, o.permissions, o.raced, evicted)]
    BY DEF AccessStore
  <2> QED BY <1>2, <1>4, <2>1, StoreKeeps DEF AccessStore
<1>6. l \in LookupType
  <2>1. 0 \in 0 .. MaxLatency
    BY CachesAssumption
  <2> HIDE DEF o
  <2> QED BY <1>2, <2>1 DEF LookupType
<1>7. /\ l.phase = "answered" /\ l.wait = 0 /\ l.user = u /\ l.at = i
      /\ l.permissions = o.permissions /\ l.raced = o.raced
  <2> HIDE DEF o
  <2> QED BY <1>2 DEF LookupType
<1>8. Sound(l)
  <2>1. o.permissions # permission_user[u] => since[u] <= MaxLatency + AccessTtl - 1
    BY <1>2, <1>3, CachesAssumption
  <2>2. l.permissions # permission_user[l.user]
          => since[l.user] <= IF l.phase = "read" THEN l.wait
                              ELSE l.wait + MaxLatency + AccessTtl - 1
    <3> HIDE DEF o, l
    <3> QED BY <1>2, <1>7, <2>1, CachesAssumption
  <2> HIDE DEF o, u, i, l
  <2>3. ~l.raced => l.permissions = permission_user[l.user]
    BY <1>3, <1>7
  <2> QED BY <1>2, <1>6, <1>7, <2>2, <2>3 DEF Sound
<1>9. LookupsInv'
  BY <1>8, RequestChanged DEF AccessStore, CachesInv
<1> QED BY <1>5, <1>9 DEF CachesInv, GrantsShape, EventsShape, AccessStore

LEMMA GatewayStoreInv ==
  ASSUME CachesInv, NEW s \in Slot, GatewayStore(s)
  PROVE  CachesInv'
<1> DEFINE o == lookup[s]
           u == o.user
           g == GatewayOf[s]
           e == [permissions |-> o.permissions, left |-> TtlOf(g), raced |-> o.raced]
<1>1. Sound(o) /\ o.phase = "answered"
  BY DEF CachesInv, LookupsInv, GatewayStore
<1>2. /\ o \in LookupType /\ u \in User /\ since[u] \in Nat /\ o.wait \in 0 .. MaxLatency
      /\ g \in Gateway /\ g \in Node /\ g \notin Instance
  BY <1>1, CachesAssumption DEF Sound, LookupType, Node, CachesInv, GrantsShape, Horizon
<1>3. /\ ~o.raced => o.permissions = permission_user[u]
      /\ o.permissions # permission_user[u] => since[u] <= o.wait + MaxLatency + AccessTtl - 1
  BY <1>1 DEF Sound
<1>4. EntrySound(g, e, permission_user[u], since[u], FALSE)
  <2>1. e \in EntryType /\ e.left = GatewayTtl
    BY <1>2, CachesAssumption DEF EntryType, LookupType, TtlOf
  <2>2. Late(g) = 2 * MaxLatency + AccessTtl + GatewayTtl - 1 /\ TtlOf(g) = GatewayTtl
    BY <1>2 DEF Late, TtlOf
  <2>3. o.permissions # permission_user[u] => since[u] + GatewayTtl <= Late(g)
    BY <1>2, <1>3, <2>2, CachesAssumption
  <2> HIDE DEF o, u, g
  <2> QED BY <1>3, <2>1, <2>2, <2>3, CachesAssumption DEF EntrySound
<1>5. EntriesInv'
  <2>1. PICK evicted : cache' = [cache EXCEPT ![g] = Stored(g, u, o.permissions, o.raced, evicted)]
    BY DEF GatewayStore
  <2> QED BY <1>2, <1>4, <2>1, StoreKeeps DEF GatewayStore
<1>6. Sound(Idle)
  BY CachesAssumption DEF Sound, LookupType, Idle
<1>7. LookupsInv'
  BY <1>6, RequestChanged DEF GatewayStore, CachesInv
<1> QED BY <1>5, <1>7 DEF CachesInv, GrantsShape, EventsShape, GatewayStore

-----------------------------------------------------------------------------
\* Changes.

\* An entry whose grants have just changed is young enough, and is sound once
\* the change is announced or the entry is marked.
LEMMA JustChanged ==
  ASSUME NEW n, NEW e, NEW P, NEW ago, NEW told, EntrySound(n, e, P, ago, told),
         NEW Q
  PROVE  /\ EntrySound(n, e, Q, 0, TRUE)
         /\ EntrySound(n, [e EXCEPT !.raced = TRUE], Q, 0, FALSE)
<1>1. e \in EntryType /\ e.left <= TtlOf(n) /\ e.left \in Nat
  BY DEF EntrySound, EntryType
<1>2. TtlOf(n) <= Late(n) /\ TtlOf(n) \in Nat /\ Late(n) \in Nat
  BY CachesAssumption DEF TtlOf, Late
<1>3. 0 + e.left <= Late(n)
  BY <1>1, <1>2
<1>4. EntrySound(n, e, Q, 0, TRUE)
  BY <1>1, <1>3 DEF EntrySound
<1> DEFINE m == [e EXCEPT !.raced = TRUE]
<1>5. EntrySound(n, m, Q, 0, FALSE)
  <2>1. m \in EntryType /\ m.left = e.left
    BY <1>1 DEF EntryType
  <2>2. m.raced
    BY <1>1 DEF EntryType
  <2> HIDE DEF m
  <2>3. m.left <= TtlOf(n) /\ 0 + m.left <= Late(n)
    BY <1>1, <1>3, <2>1
  <2> QED BY <2>1, <2>2, <2>3 DEF EntrySound
<1> QED BY <1>4, <1>5

LEMMA RacedRequest ==
  ASSUME NEW l, l \in LookupType
  PROVE  LET m == [l EXCEPT !.raced = TRUE] IN
         /\ m \in LookupType /\ m.raced = TRUE /\ m.phase = l.phase /\ m.user = l.user
         /\ m.at = l.at /\ m.wait = l.wait
BY DEF LookupType

LEMMA CommittedInv ==
  ASSUME CachesInv, NEW i \in Instance, NEW T \in SUBSET (User \cup {Everyone}),
         Committed(i, T),
         permission' \subseteq Permission, permission_user' \in [User -> SUBSET permission'],
         \A u \in User : permission_user'[u] # permission_user[u] => \E t \in T : About(t, u)
  PROVE  CachesInv'
<1> DEFINE changed == {u \in User : permission_user'[u] # permission_user[u]}
<1>1. GrantsShape' /\ EventsShape'
  <2>1. 0 \in 0 .. Horizon
    BY CachesAssumption DEF Horizon
  <2> QED BY <2>1 DEF CachesInv, GrantsShape, EventsShape, Committed
<1>2. \A u \in changed : since'[u] = 0
  BY DEF Committed
<1>3. \A u \in User \ changed : since'[u] = since[u] /\ permission_user'[u] = permission_user[u]
  BY DEF Committed
<1>4. \A n \in Node, u \in User : Announced(n, u) => Announced(n, u)'
  <2>1. \A j \in Instance : unpublished[j] \subseteq unpublished'[j]
    BY DEF Committed, CachesInv, EventsShape
  <2>2. event' = event
    BY DEF Committed
  <2> QED BY <2>1, <2>2 DEF Announced
<1>5. \A n \in Node \ (Instance \ {i}), u \in changed : Announced(n, u)'
  <2>1. unpublished'[i] = unpublished[i] \cup T
    BY DEF Committed, CachesInv, EventsShape
  <2> QED BY <2>1 DEF Announced
<1>6. \A n \in Node, u \in User :
        EntrySound(n, cache[n][u], permission_user[u], since[u], Announced(n, u))
  BY DEF CachesInv, EntriesInv
<1>7. ASSUME NEW n \in Node, NEW u \in User
      PROVE  EntrySound(n, cache'[n][u], permission_user'[u], since'[u], Announced(n, u)')
  <2>1. cache'[n][u] = IF n \in Instance \ {i} /\ u \in changed /\ cache[n][u].left > 0
                       THEN [cache[n][u] EXCEPT !.raced = TRUE] ELSE cache[n][u]
    BY DEF Committed, Raced, CachesInv, EntriesInv
  <2>2. CASE u \notin changed
    BY <1>3, <1>4, <1>6, <2>1, <2>2 DEF EntrySound
  <2>3. CASE u \in changed /\ n \notin Instance \ {i}
    <3>1. Announced(n, u)' /\ since'[u] = 0 /\ cache'[n][u] = cache[n][u]
      BY <1>2, <1>5, <2>1, <2>3
    <3>2. EntrySound(n, cache[n][u], permission_user'[u], 0, TRUE)
      BY <1>6, JustChanged
    <3> QED BY <3>1, <3>2 DEF EntrySound
  <2>4. CASE u \in changed /\ n \in Instance \ {i} /\ cache[n][u].left > 0
    <3>1. since'[u] = 0 /\ cache'[n][u] = [cache[n][u] EXCEPT !.raced = TRUE]
      BY <1>2, <2>1, <2>4
    <3>2. EntrySound(n, [cache[n][u] EXCEPT !.raced = TRUE], permission_user'[u], 0, FALSE)
      BY <1>6, JustChanged
    <3>3. EntrySound(n, cache'[n][u], permission_user'[u], 0, FALSE)
      BY <3>1, <3>2, Zenon
    <3> QED BY <3>1, <3>3 DEF EntrySound
  <2>5. CASE u \in changed /\ ~(cache[n][u].left > 0)
    BY <1>6, <2>1, <2>5 DEF EntrySound
  <2> QED BY <2>2, <2>3, <2>4, <2>5
<1>8. cache' \in [Node -> [User -> EntryType]]
  <2>1. \A n \in Node, u \in User : cache'[n][u] \in EntryType
    BY <1>7 DEF EntrySound
  <2>2. cache' = [n \in Node |-> IF n \in Instance \ {i} THEN Raced(cache[n], changed)
                                 ELSE cache[n]]
    BY DEF Committed
  <2>3. \A n \in Node : cache'[n] = [u \in User |-> cache'[n][u]]
    BY <2>2 DEF Raced, CachesInv, EntriesInv
  <2> QED BY <2>1, <2>2, <2>3
<1>9. EntriesInv'
  BY <1>7, <1>8 DEF EntriesInv
<1>10. ASSUME NEW s \in Slot PROVE Sound(lookup[s])'
  <2> DEFINE o == lookup[s]
  <2>1. Sound(o)
    BY DEF CachesInv, LookupsInv
  <2>2. lookup'[s] = IF Holds(s) /\ o.user \in changed
                     THEN [o EXCEPT !.raced = TRUE] ELSE o
    BY DEF Committed
  <2>3. CASE ~Holds(s)
    BY <2>1, <2>2, <2>3 DEF Sound, Holds
  <2>4. CASE Holds(s) /\ o.user \notin changed
    <3>1. o.user \in User \ changed
      BY <2>1, <2>4 DEF Sound, Holds
    <3> QED BY <1>3, <2>1, <2>2, <2>4, <3>1 DEF Sound
  <2>5. CASE Holds(s) /\ o.user \in changed
    <3> DEFINE m == [o EXCEPT !.raced = TRUE]
    <3>1. o \in LookupType /\ o.user \in User /\ o.at \in Instance /\ o.wait \in Nat
      BY <2>1, <2>5 DEF Sound, Holds, LookupType
    <3>2. /\ m \in LookupType /\ m.raced = TRUE /\ m.phase = o.phase /\ m.user = o.user
          /\ m.at = o.at /\ m.wait = o.wait
      BY <3>1, RacedRequest
    <3>3. lookup'[s] = m /\ since'[o.user] = 0
      BY <1>2, <2>2, <2>5
    <3> HIDE DEF m, o
    <3> QED BY <3>1, <3>2, <3>3, CachesAssumption DEF Sound
  <2> QED BY <2>3, <2>4, <2>5
<1>11. lookup' \in [Slot -> LookupType]
  <2>1. \A s \in Slot : lookup'[s] \in LookupType
    BY <1>10 DEF Sound
  <2> QED BY <2>1 DEF Committed
<1>12. LookupsInv'
  BY <1>10, <1>11 DEF LookupsInv
<1> QED BY <1>1, <1>9, <1>12 DEF CachesInv

LEMMA GrantInv ==
  ASSUME CachesInv, NEW i \in Instance, NEW u \in User, NEW P \in SUBSET Permission,
         NEW r \in Request, Grant(i, u, P, r)
  PROVE  CachesInv'
<1> DEFINE granted == Missing(u, P) \ permission_user[u]
           T == IF Missing(u, P) # {} THEN {u} ELSE {}
<1>1. /\ permission_user' = [permission_user EXCEPT ![u] = @ \cup granted]
      /\ permission' = permission /\ P \subseteq permission /\ Committed(i, T)
  BY DEF Grant, GrantPermissions, SetGrants
<1>2. permission' \subseteq Permission /\ permission_user' \in [User -> SUBSET permission']
  BY <1>1 DEF CachesInv, GrantsShape, Missing
<1>3. ASSUME NEW v \in User, permission_user'[v] # permission_user[v]
      PROVE  \E t \in T : About(t, v)
  <2>1. v = u /\ granted # {}
    BY <1>1, <1>3 DEF CachesInv, GrantsShape
  <2>2. Missing(u, P) # {}
    BY <2>1
  <2> QED BY <2>1, <2>2 DEF About
<1>4. T \in SUBSET (User \cup {Everyone})
  OBVIOUS
<1> QED BY <1>1, <1>2, <1>3, <1>4, CommittedInv

LEMMA RevokeInv ==
  ASSUME CachesInv, NEW i \in Instance, NEW actor \in User, NEW u \in User,
         NEW p \in Permission, NEW r \in Request, Revoke(i, actor, u, p, r)
  PROVE  CachesInv'
<1>1. /\ permission_user' = [permission_user EXCEPT ![u] = @ \ {p}]
      /\ permission' = permission /\ Committed(i, {u})
  BY DEF Revoke, RevokePermission, SetGrants
<1>2. permission' \subseteq Permission /\ permission_user' \in [User -> SUBSET permission']
  BY <1>1 DEF CachesInv, GrantsShape
<1>3. \A v \in User : permission_user'[v] # permission_user[v] => \E t \in {u} : About(t, v)
  BY <1>1 DEF CachesInv, GrantsShape, About
<1> QED BY <1>1, <1>2, <1>3, CommittedInv

\* Creating, deleting and describing a permission is announced to everyone.
LEMMA CatalogueInv ==
  ASSUME CachesInv, NEW i \in Instance, NEW p \in Permission,
         Create(i, p) \/ Delete(i, p) \/ UpdateDescription(i)
  PROVE  CachesInv'
<1>1. permission' \subseteq Permission /\ permission_user' \in [User -> SUBSET permission']
  BY DEF CachesInv, GrantsShape, Create, CreatePermission, Delete, DeletePermission,
         UpdateDescription
<1>2. Committed(i, {Everyone})
  BY DEF Create, Delete, UpdateDescription
<1>3. \A v \in User : \E t \in {Everyone} : About(t, v)
  BY DEF About
<1> QED BY <1>1, <1>2, <1>3, CommittedInv

-----------------------------------------------------------------------------
\* Announcements and restarts: an entry goes, stays and is as announced as it
\* was, or is marked.
LEMMA EntriesStep ==
  ASSUME EntriesInv, UNCHANGED <<permission_user, since>>,
         cache' = [n \in Node |-> [u \in User |-> cache'[n][u]]],
         \A n \in Node, u \in User :
           \/ cache'[n][u] = NoEntry
           \/ cache'[n][u] = cache[n][u] /\ (Announced(n, u) => Announced(n, u)')
           \/ cache'[n][u] = cache[n][u] /\ ~(cache[n][u].left > 0)
           \/ cache'[n][u] = [cache[n][u] EXCEPT !.raced = TRUE]
  PROVE  EntriesInv'
<1>1. ASSUME NEW n \in Node, NEW u \in User
      PROVE  EntrySound(n, cache'[n][u], permission_user'[u], since'[u], Announced(n, u)')
  <2> DEFINE e == cache[n][u]
             m == [e EXCEPT !.raced = TRUE]
  <2>1. EntrySound(n, e, permission_user[u], since[u], Announced(n, u))
    BY DEF EntriesInv
  <2>2. CASE cache'[n][u] = NoEntry
    BY <2>2, NoEntrySound DEF EntrySound
  <2>3. CASE cache'[n][u] = e /\ (Announced(n, u) => Announced(n, u)')
    BY <2>1, <2>3 DEF EntrySound
  <2>4. CASE cache'[n][u] = e /\ ~(e.left > 0)
    BY <2>1, <2>4 DEF EntrySound
  <2>5. CASE cache'[n][u] = m
    <3>1. e \in EntryType
      BY <2>1 DEF EntrySound
    <3>2. m \in EntryType /\ m.left = e.left /\ m.permissions = e.permissions
      BY <3>1 DEF EntryType
    <3>3. m.raced
      BY <3>1 DEF EntryType
    <3>4. e.left > 0 /\ e.permissions # permission_user[u] => since[u] + e.left <= Late(n)
      BY <2>1 DEF EntrySound
    <3>5. e.left <= TtlOf(n)
      BY <2>1 DEF EntrySound
    <3> HIDE DEF m, e
    <3>6. EntrySound(n, m, permission_user[u], since[u], Announced(n, u)')
      BY <3>2, <3>3, <3>4, <3>5 DEF EntrySound
    <3> QED BY <2>5, <3>6
  <2> QED BY <2>2, <2>3, <2>4, <2>5
<1>2. \A n \in Node, u \in User : cache'[n][u] \in EntryType
  BY <1>1 DEF EntrySound
<1> QED BY <1>1, <1>2 DEF EntriesInv

LEMMA RequestsKept ==
  ASSUME LookupsInv, UNCHANGED <<permission_user, lookup, since>>
  PROVE  LookupsInv'
BY DEF LookupsInv, Sound

LEMMA PublishInv ==
  ASSUME CachesInv, NEW i \in Instance, NEW t \in User \cup {Everyone}, Publish(i, t)
  PROVE  CachesInv'
<1>1. /\ cache' = [cache EXCEPT ![i] = Without(@, t)]
      /\ unpublished' = [unpublished EXCEPT ![i] = @ \ {t}]
      /\ event' = event \cup (Gateway \X {t})
      /\ UNCHANGED <<permission, permission_user, lookup, since>>
  BY DEF Publish
<1>2. GrantsShape' /\ EventsShape'
  BY <1>1 DEF CachesInv, GrantsShape, EventsShape
<1>3. LookupsInv'
  BY <1>1, RequestsKept DEF CachesInv
<1>4. \A n \in Node, u \in User :
        cache'[n][u] = IF n = i /\ About(t, u) THEN NoEntry ELSE cache[n][u]
  BY <1>1 DEF CachesInv, EntriesInv, Without, Node
<1>5. cache' = [n \in Node |-> [u \in User |-> cache'[n][u]]]
  BY <1>1 DEF CachesInv, EntriesInv, Without, Node
<1>6. ASSUME NEW n \in Node, NEW u \in User, ~(n = i /\ About(t, u)), Announced(n, u)
      PROVE  Announced(n, u)'
  <2>1. CASE n \in Instance
    <3>1. PICK x \in unpublished[n] : About(x, u)
      BY <1>6, <2>1 DEF Announced
    <3>2. x \in unpublished'[n]
      BY <1>1, <1>6, <2>1, <3>1 DEF CachesInv, EventsShape
    <3> QED BY <2>1, <3>1, <3>2 DEF Announced
  <2>2. CASE n \notin Instance
    <3>0. n \in Gateway
      BY <2>2 DEF Node
    <3>1. CASE \E x \in User \cup {Everyone} : <<n, x>> \in event /\ About(x, u)
      BY <1>1, <2>2, <3>1 DEF Announced
    <3>2. CASE \E j \in Instance : \E x \in unpublished[j] : About(x, u)
      <4>1. PICK j \in Instance : \E x \in unpublished[j] : About(x, u)
        BY <3>2
      <4>2. PICK x \in unpublished[j] : About(x, u)
        BY <4>1
      <4>3. CASE x = t
        <5>1. <<n, t>> \in event'
          BY <1>1, <3>0
        <5> QED BY <2>2, <4>2, <4>3, <5>1 DEF Announced
      <4>4. CASE x # t
        <5>1. x \in unpublished'[j]
          BY <1>1, <4>2, <4>4 DEF CachesInv, EventsShape
        <5> QED BY <2>2, <4>2, <5>1 DEF Announced
      <4> QED BY <4>3, <4>4
    <3> QED BY <1>6, <2>2, <3>1, <3>2 DEF Announced
  <2> QED BY <2>1, <2>2
<1>7. EntriesInv'
  BY <1>1, <1>4, <1>5, <1>6, EntriesStep DEF CachesInv
<1> QED BY <1>2, <1>3, <1>7 DEF CachesInv

\* Nobody is told of t any more; what it was about is marked.
LEMMA PublishThrowsInv ==
  ASSUME CachesInv, NEW i \in Instance, NEW t \in User \cup {Everyone}, PublishThrows(i, t)
  PROVE  CachesInv'
<1>1. /\ unpublished' = [unpublished EXCEPT ![i] = @ \ {t}]
      /\ UNCHANGED <<permission, permission_user, lookup, event, since>>
  BY DEF PublishThrows
<1>2. GrantsShape' /\ EventsShape'
  BY <1>1 DEF CachesInv, GrantsShape, EventsShape
<1>3. LookupsInv'
  BY <1>1, RequestsKept DEF CachesInv
<1>4. \A n \in Node, u \in User :
        cache'[n][u] = IF n \in Gateway \cup {i} /\ About(t, u) /\ cache[n][u].left > 0
                       THEN [cache[n][u] EXCEPT !.raced = TRUE] ELSE cache[n][u]
  BY DEF CachesInv, EntriesInv, Raced, PublishThrows
<1>5. cache' = [n \in Node |-> [u \in User |-> cache'[n][u]]]
  BY DEF CachesInv, EntriesInv, Raced, PublishThrows
<1>6. ASSUME NEW n \in Node, NEW u \in User, ~(n \in Gateway \cup {i} /\ About(t, u)),
             Announced(n, u)
      PROVE  Announced(n, u)'
  <2>1. \A j \in Instance : \A x \in unpublished[j] : x # t => x \in unpublished'[j]
    BY <1>1 DEF CachesInv, EventsShape
  <2>2. CASE n \in Instance
    <3>1. PICK x \in unpublished[n] : About(x, u)
      BY <1>6, <2>2 DEF Announced
    <3>2. CASE n = i
      BY <1>6, <2>1, <2>2, <3>1, <3>2 DEF Announced
    <3>3. CASE n # i
      <4>1. unpublished'[n] = unpublished[n]
        BY <1>1, <2>2, <3>3 DEF CachesInv, EventsShape
      <4> QED BY <2>2, <3>1, <4>1 DEF Announced
    <3> QED BY <3>2, <3>3
  <2>3. CASE n \notin Instance
    <3>1. ~About(t, u)
      BY <1>6, <2>3 DEF Node
    <3> QED BY <1>1, <1>6, <2>1, <2>3, <3>1 DEF Announced
  <2> QED BY <2>2, <2>3
<1>7. EntriesInv'
  <2>1. ASSUME NEW n \in Node, NEW u \in User
        PROVE  \/ cache'[n][u] = NoEntry
               \/ cache'[n][u] = cache[n][u] /\ (Announced(n, u) => Announced(n, u)')
               \/ cache'[n][u] = cache[n][u] /\ ~(cache[n][u].left > 0)
               \/ cache'[n][u] = [cache[n][u] EXCEPT !.raced = TRUE]
    BY <1>4, <1>6, Zenon
  <2> QED BY <1>1, <1>5, <2>1, EntriesStep DEF CachesInv
<1> QED BY <1>2, <1>3, <1>7 DEF CachesInv

\* An event about t leaves event; what it announced is removed or marked.
LEMMA EventGone ==
  ASSUME CachesInv, NEW g \in Gateway, NEW t \in User \cup {Everyone},
         event' = event \ {<<g, t>>}, UNCHANGED unpublished,
         NEW n \in Node, NEW u \in User, ~(n = g /\ About(t, u)), Announced(n, u)
  PROVE  Announced(n, u)'
<1>1. CASE n \in Instance \/ \E j \in Instance : \E x \in unpublished[j] : About(x, u)
  BY <1>1 DEF Announced
<1>2. CASE /\ n \notin Instance
           /\ \E x \in User \cup {Everyone} : <<n, x>> \in event /\ About(x, u)
  <2>1. PICK x \in User \cup {Everyone} : <<n, x>> \in event /\ About(x, u)
    BY <1>2
  <2>2. <<n, x>> # <<g, t>>
    BY <2>1
  <2>3. <<n, x>> \in event'
    BY <2>1, <2>2
  <2> QED BY <1>2, <2>1, <2>3 DEF Announced
<1> QED BY <1>1, <1>2 DEF Announced

LEMMA InvalidateInv ==
  ASSUME CachesInv, NEW g \in Gateway, NEW t \in User \cup {Everyone}, Invalidate(g, t)
  PROVE  CachesInv'
<1>1. /\ cache' = [cache EXCEPT ![g] = Without(@, t)] /\ event' = event \ {<<g, t>>}
      /\ UNCHANGED <<permission, permission_user, lookup, unpublished, since>>
  BY DEF Invalidate
<1>2. GrantsShape' /\ EventsShape' /\ LookupsInv'
  BY <1>1, RequestsKept DEF CachesInv, GrantsShape, EventsShape
<1>3. \A n \in Node, u \in User :
        cache'[n][u] = IF n = g /\ About(t, u) THEN NoEntry ELSE cache[n][u]
  BY <1>1 DEF CachesInv, EntriesInv, Without, Node
<1>4. cache' = [n \in Node |-> [u \in User |-> cache'[n][u]]]
  BY <1>1 DEF CachesInv, EntriesInv, Without, Node
<1>5. EntriesInv'
  BY <1>1, <1>3, <1>4, EventGone, EntriesStep DEF CachesInv
<1> QED BY <1>2, <1>5 DEF CachesInv

LEMMA LoseInv ==
  ASSUME CachesInv, NEW g \in Gateway, NEW t \in User \cup {Everyone}, Lose(g, t)
  PROVE  CachesInv'
<1>1. /\ cache' = [cache EXCEPT ![g] = Raced(@, {u \in User : About(t, u)})]
      /\ event' = event \ {<<g, t>>}
      /\ UNCHANGED <<permission, permission_user, lookup, unpublished, since>>
  BY DEF Lose
<1>2. GrantsShape' /\ EventsShape' /\ LookupsInv'
  BY <1>1, RequestsKept DEF CachesInv, GrantsShape, EventsShape
<1>3. \A n \in Node, u \in User :
        cache'[n][u] = IF n = g /\ About(t, u) /\ cache[n][u].left > 0
                       THEN [cache[n][u] EXCEPT !.raced = TRUE] ELSE cache[n][u]
  BY <1>1 DEF CachesInv, EntriesInv, Raced, Node
<1>4. cache' = [n \in Node |-> [u \in User |-> cache'[n][u]]]
  BY <1>1 DEF CachesInv, EntriesInv, Raced, Node
<1>5. ASSUME NEW n \in Node, NEW u \in User
      PROVE  \/ cache'[n][u] = cache[n][u] /\ (Announced(n, u) => Announced(n, u)')
             \/ cache'[n][u] = cache[n][u] /\ ~(cache[n][u].left > 0)
             \/ cache'[n][u] = [cache[n][u] EXCEPT !.raced = TRUE]
  BY <1>1, <1>3, EventGone, Zenon
<1>6. EntriesInv'
  BY <1>1, <1>4, <1>5, EntriesStep DEF CachesInv
<1> QED BY <1>2, <1>6 DEF CachesInv

LEMMA RestartInstanceInv ==
  ASSUME CachesInv, NEW i \in Instance, RestartInstance(i)
  PROVE  CachesInv'
<1> DEFINE untold == {u \in User : \E t \in unpublished[i] : About(t, u)}
<1>1. /\ unpublished' = [unpublished EXCEPT ![i] = {}]
      /\ UNCHANGED <<permission, permission_user, event, since>>
  BY DEF RestartInstance
<1>2. GrantsShape' /\ EventsShape'
  BY <1>1 DEF CachesInv, GrantsShape, EventsShape
<1>3. LookupsInv'
  <2>1. Idle \in LookupType /\ Idle.phase = "idle"
    BY CachesAssumption DEF LookupType, Idle
  <2>2. \A s \in Slot : lookup'[s] = Idle \/ lookup'[s] = lookup[s]
    BY DEF RestartInstance
  <2>3. lookup' \in [Slot -> LookupType]
    BY <2>1 DEF CachesInv, LookupsInv, RestartInstance
  <2> QED BY <1>1, <2>1, <2>2, <2>3 DEF CachesInv, LookupsInv, Sound
<1>4. \A n \in Node, u \in User :
        cache'[n][u] = IF n = i THEN NoEntry
                       ELSE IF n \in Gateway /\ u \in untold /\ cache[n][u].left > 0
                       THEN [cache[n][u] EXCEPT !.raced = TRUE] ELSE cache[n][u]
  BY DEF CachesInv, EntriesInv, Raced, RestartInstance
<1>5. cache' = [n \in Node |-> [u \in User |-> cache'[n][u]]]
  BY DEF CachesInv, EntriesInv, Raced, RestartInstance
<1>6. ASSUME NEW n \in Node, NEW u \in User, n # i, ~(n \in Gateway /\ u \in untold),
             Announced(n, u)
      PROVE  Announced(n, u)'
  <2>1. \A j \in Instance \ {i} : unpublished'[j] = unpublished[j]
    BY <1>1 DEF CachesInv, EventsShape
  <2>2. CASE n \in Instance
    BY <1>6, <2>1, <2>2 DEF Announced
  <2>3. CASE n \notin Instance
    <3>1. ~ \E t \in unpublished[i] : About(t, u)
      BY <1>6, <2>3 DEF Node
    <3> QED BY <1>1, <1>6, <2>1, <2>3, <3>1 DEF Announced
  <2> QED BY <2>2, <2>3
<1>7. EntriesInv'
  <2>1. ASSUME NEW n \in Node, NEW u \in User
        PROVE  \/ cache'[n][u] = NoEntry
               \/ cache'[n][u] = cache[n][u] /\ (Announced(n, u) => Announced(n, u)')
               \/ cache'[n][u] = cache[n][u] /\ ~(cache[n][u].left > 0)
               \/ cache'[n][u] = [cache[n][u] EXCEPT !.raced = TRUE]
    BY <1>4, <1>6, Zenon
  <2> QED BY <1>1, <1>5, <2>1, EntriesStep DEF CachesInv
<1> QED BY <1>2, <1>3, <1>7 DEF CachesInv

LEMMA RestartGatewayInv ==
  ASSUME CachesInv, NEW g \in Gateway, RestartGateway(g)
  PROVE  CachesInv'
<1>1. /\ cache' = [cache EXCEPT ![g] = [u \in User |-> NoEntry]]
      /\ event' = {e \in event : e[1] # g}
      /\ UNCHANGED <<permission, permission_user, unpublished, since>>
  BY DEF RestartGateway
<1>2. GrantsShape' /\ EventsShape'
  BY <1>1 DEF CachesInv, GrantsShape, EventsShape
<1>3. LookupsInv'
  <2>1. Idle \in LookupType /\ Idle.phase = "idle"
    BY CachesAssumption DEF LookupType, Idle
  <2>2. \A s \in Slot : lookup'[s] = Idle \/ lookup'[s] = lookup[s]
    BY DEF RestartGateway
  <2>3. lookup' \in [Slot -> LookupType]
    BY <2>1 DEF CachesInv, LookupsInv, RestartGateway
  <2> QED BY <1>1, <2>1, <2>2, <2>3 DEF CachesInv, LookupsInv, Sound
<1>4. \A n \in Node, u \in User :
        cache'[n][u] = IF n = g THEN NoEntry ELSE cache[n][u]
  BY <1>1 DEF CachesInv, EntriesInv, Node
<1>5. cache' = [n \in Node |-> [u \in User |-> cache'[n][u]]]
  BY <1>1 DEF CachesInv, EntriesInv, Node
<1>6. ASSUME NEW n \in Node, NEW u \in User, n # g, Announced(n, u)
      PROVE  Announced(n, u)'
  <2>1. \A x \in User \cup {Everyone} : <<n, x>> \in event => <<n, x>> \in event'
    BY <1>1, <1>6
  <2> QED BY <1>1, <1>6, <2>1 DEF Announced
<1>7. EntriesInv'
  BY <1>1, <1>4, <1>5, <1>6, EntriesStep DEF CachesInv
<1> QED BY <1>2, <1>3, <1>7 DEF CachesInv

LEMMA TickInv ==
  ASSUME CachesInv, Tick
  PROVE  CachesInv'
<1>1. UNCHANGED <<permission, permission_user, unpublished, event>>
  BY DEF Tick
<1>2. \A u \in User : /\ since[u] \in 0 .. Horizon /\ since'[u] \in 0 .. Horizon
                      /\ since'[u] <= since[u] + 1
  <2>1. Horizon \in Nat
    BY CachesAssumption DEF Horizon
  <2> QED BY <2>1 DEF Tick, CachesInv, GrantsShape
<1>3. GrantsShape' /\ EventsShape'
  BY <1>1, <1>2 DEF CachesInv, GrantsShape, EventsShape, Tick
<1>4. ASSUME NEW n \in Node, NEW u \in User
      PROVE  EntrySound(n, cache'[n][u], permission_user'[u], since'[u], Announced(n, u)')
  <2> DEFINE e == cache[n][u]
             m == [e EXCEPT !.left = @ - 1]
  <2>1. EntrySound(n, e, permission_user[u], since[u], Announced(n, u))
    BY DEF CachesInv, EntriesInv
  <2>2. e \in EntryType /\ e.left \in Nat /\ e.left <= TtlOf(n)
    BY <2>1 DEF EntrySound, EntryType
  <2>3. TtlOf(n) \in Nat /\ Late(n) \in Nat
    BY CachesAssumption DEF TtlOf, Late
  <2>4. cache'[n][u] = IF e.left > 1 THEN m ELSE NoEntry
    BY DEF Tick
  <2>5. Announced(n, u)' <=> Announced(n, u)
    BY <1>1 DEF Announced
  <2>6. CASE e.left > 1
    <3>1. m \in EntryType /\ m.left = e.left - 1 /\ m.permissions = e.permissions
      BY <2>2, <2>6 DEF EntryType
    <3>2. m.raced <=> e.raced
      BY <2>2 DEF EntryType
    <3>0. e.left > 0
      BY <2>2, <2>6
    <3>3. e.permissions # permission_user[u]
            => since[u] + e.left <= Late(n) /\ (e.raced \/ Announced(n, u))
      BY <2>1, <3>0, Zenon DEF EntrySound
    <3> HIDE DEF m, e
    <3>4. m.left <= TtlOf(n)
      BY <2>2, <2>3, <3>1
    <3>5. m.permissions # permission_user[u] => since'[u] + m.left <= Late(n)
      BY <1>2, <2>2, <2>3, <3>1, <3>3
    <3>6. m.permissions # permission_user[u] => m.raced \/ Announced(n, u)'
      BY <2>5, <3>1, <3>2, <3>3
    <3>7. EntrySound(n, m, permission_user[u], since'[u], Announced(n, u)')
      BY <3>1, <3>4, <3>5, <3>6 DEF EntrySound
    <3> QED BY <1>1, <2>4, <2>6, <3>7
  <2>7. CASE ~(e.left > 1)
    BY <2>4, <2>7, NoEntrySound
  <2> QED BY <2>6, <2>7
<1>5. cache' \in [Node -> [User -> EntryType]]
  <2>1. \A n \in Node, u \in User : cache'[n][u] \in EntryType
    BY <1>4 DEF EntrySound
  <2>2. cache' = [n \in Node |-> [u \in User |-> cache'[n][u]]]
    BY DEF Tick
  <2> QED BY <2>1, <2>2
<1>6. EntriesInv'
  BY <1>4, <1>5 DEF EntriesInv
<1>7. ASSUME NEW s \in Slot PROVE Sound(lookup[s])'
  <2> DEFINE o == lookup[s]
             m == [o EXCEPT !.wait = @ + 1]
  <2>1. Sound(o)
    BY DEF CachesInv, LookupsInv
  <2>2. lookup'[s] = IF Holds(s) THEN m ELSE o
    BY DEF Tick
  <2>3. CASE ~Holds(s)
    BY <2>1, <2>2, <2>3 DEF Sound, Holds
  <2>4. CASE Holds(s)
    <3>1. o \in LookupType /\ o.user \in User /\ o.at \in Instance /\ o.wait \in 0 .. MaxLatency
      BY <2>1, <2>4 DEF Sound, Holds, LookupType
    <3>2. o.wait + 1 \in 0 .. MaxLatency
      BY <2>4, <3>1, CachesAssumption DEF Tick
    <3>3. o.phase \in {"read", "answered"}
      BY <2>4 DEF Holds
    <3>4. /\ ~o.raced => o.permissions = permission_user[o.user]
          /\ o.permissions # permission_user[o.user]
               => since[o.user] <= IF o.phase = "read" THEN o.wait
                                   ELSE o.wait + MaxLatency + AccessTtl - 1
      BY <2>1, <3>3 DEF Sound
    <3>5. /\ m \in LookupType /\ m.phase = o.phase /\ m.user = o.user /\ m.at = o.at
          /\ m.wait = o.wait + 1 /\ m.permissions = o.permissions
      <4> HIDE DEF o
      <4> QED BY <3>1, <3>2 DEF LookupType
    <3>6. m.raced <=> o.raced
      <4> HIDE DEF o
      <4> QED BY <3>1 DEF LookupType
    <3>7. permission_user' = permission_user /\ since'[o.user] <= since[o.user] + 1
          /\ since[o.user] \in Int /\ since'[o.user] \in Int
      BY <1>1, <1>2, <3>1
    <3>8. lookup'[s] = m
      BY <2>2, <2>4
    <3> HIDE DEF m, o
    <3>9. m.permissions # permission_user'[m.user]
            => since'[m.user] <= IF m.phase = "read" THEN m.wait
                                 ELSE m.wait + MaxLatency + AccessTtl - 1
      BY <3>1, <3>4, <3>5, <3>7, CachesAssumption
    <3>10. ~m.raced => m.permissions = permission_user'[m.user]
      BY <3>4, <3>5, <3>6, <3>7
    <3> QED BY <3>1, <3>3, <3>5, <3>8, <3>9, <3>10 DEF Sound
  <2> QED BY <2>3, <2>4
<1>8. lookup' \in [Slot -> LookupType]
  <2>1. \A s \in Slot : lookup'[s] \in LookupType
    BY <1>7 DEF Sound
  <2> QED BY <2>1 DEF Tick
<1>9. LookupsInv'
  BY <1>7, <1>8 DEF LookupsInv
<1> QED BY <1>3, <1>6, <1>9 DEF CachesInv

-----------------------------------------------------------------------------
LEMMA StepInv == CachesInv /\ [Next]_vars => CachesInv'
<1> SUFFICES ASSUME CachesInv, [Next]_vars PROVE CachesInv'
  OBVIOUS
<1>1. ASSUME NEW i \in Instance, Change(i) PROVE CachesInv'
  <2>1. ASSUME NEW u \in User, NEW r \in Request, NEW P \in SUBSET Permission,
               Grant(i, u, P, r)
        PROVE  CachesInv'
    BY <2>1, GrantInv
  <2>2. ASSUME NEW u \in User, NEW actor \in User, NEW r \in Request,
               NEW p \in Permission, Revoke(i, actor, u, p, r)
        PROVE  CachesInv'
    BY <2>2, RevokeInv
  <2>3. ASSUME NEW p \in Permission, Create(i, p) \/ Delete(i, p) PROVE CachesInv'
    BY <2>3, CatalogueInv
  <2>4. CASE UpdateDescription(i)
    <3>1. PICK p \in Permission : TRUE
      BY <2>4 DEF UpdateDescription, CachesInv, GrantsShape
    <3> QED BY <2>4, <3>1, CatalogueInv
  <2>5. ASSUME NEW t \in User \cup {Everyone}, Publish(i, t) \/ PublishThrows(i, t)
        PROVE  CachesInv'
    BY <2>5, PublishInv, PublishThrowsInv
  <2> QED BY <1>1, <2>1, <2>2, <2>3, <2>4, <2>5 DEF Change
<1>2. ASSUME NEW i \in Instance, RestartInstance(i) PROVE CachesInv'
  BY <1>2, RestartInstanceInv
<1>3. ASSUME NEW s \in Slot, LookupStep(s) PROVE CachesInv'
  BY <1>3, MissInv, HitInv, AccessMissInv, ReadInv, AccessStoreInv, GatewayStoreInv, FailInv
     DEF LookupStep
<1>4. ASSUME NEW g \in Gateway, NEW t \in User \cup {Everyone},
             Invalidate(g, t) \/ Lose(g, t)
      PROVE  CachesInv'
  BY <1>4, InvalidateInv, LoseInv
<1>5. ASSUME NEW g \in Gateway, RestartGateway(g) PROVE CachesInv'
  BY <1>5, RestartGatewayInv
<1>6. CASE Tick
  BY <1>6, TickInv
<1>7. CASE UNCHANGED vars
  BY <1>7 DEF vars, CachesInv, GrantsShape, EventsShape, EntriesInv, LookupsInv, Sound,
              Announced
<1> QED BY <1>1, <1>2, <1>3, <1>4, <1>5, <1>6, <1>7 DEF Next

\* The bounds and the marks hold in every reachable state.
THEOREM InvHolds == Spec => []CachesInv
<1> QED BY InitInv, StepInv, PTL DEF Spec

\* Type correctness of the tables, the caches and the requests in progress
\* (access.service.ts, access.cache.ts, permission-cache.ts).
THEOREM TypesHold == Spec => []CachesTypeOK
<1>1. CachesInv => CachesTypeOK
  BY DEF CachesInv, GrantsShape, EventsShape, EntriesInv, LookupsInv, EntrySound, Sound,
         CachesTypeOK
<1> QED BY <1>1, InvHolds, PTL

\* For any number of processes and requests, any times to live and any delay: a
\* cached answer that differs from the grants is about a change made less than
\* the stated time ago (PermissionLookupCache and GatewayPermissionCache).
THEOREM StalenessIsBounded == Spec => []StalenessBounded
<1>1. CachesInv => StalenessBounded
  <2> SUFFICES ASSUME CachesInv, NEW n \in Node, NEW u \in User, Fresh(n, u),
                      cache[n][u].permissions # permission_user[u]
               PROVE  since[u] < IF n \in Instance THEN AccessStaleness ELSE GatewayStaleness
    BY DEF StalenessBounded
  <2>1. since[u] \in Nat /\ cache[n][u].left \in Nat /\ cache[n][u].left > 0
    BY DEF CachesInv, GrantsShape, EntriesInv, EntryType, Fresh, Horizon
  <2>2. since[u] + cache[n][u].left <= Late(n)
    BY <2>1 DEF CachesInv, EntriesInv, EntrySound
  <2> QED BY <2>1, <2>2, CachesAssumption DEF Late, AccessStaleness, GatewayStaleness
<1> QED BY <1>1, InvHolds, PTL

\* For the same range of systems: an answer no event was overtaken, lost or kept
\* from being sent for differs from the grants only while the change is still
\* being announced (AccessService.publish and both invalidate).
THEOREM StalenessIsExplained == Spec => []StalenessExplained
<1>1. CachesInv => StalenessExplained
  <2> SUFFICES ASSUME CachesInv, NEW n \in Node, NEW u \in User, Fresh(n, u),
                      ~cache[n][u].raced, cache[n][u].permissions # permission_user[u]
               PROVE  Announced(n, u)
    BY DEF StalenessExplained, Announced
  <2>1. EntrySound(n, cache[n][u], permission_user[u], since[u], Announced(n, u))
    BY DEF CachesInv, EntriesInv
  <2> QED BY <2>1, Zenon DEF EntrySound, Fresh
<1> QED BY <1>1, InvHolds, PTL
=============================================================================
