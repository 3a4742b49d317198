-------------------------- MODULE PermissionCaches --------------------------
(***************************************************************************)
(* What a user may do, as the gateway sees it: the gateway asks an         *)
(* instance of the access service, each keeps the answers it gave in a     *)
(* cache with a time to live, and a change of the grants is announced      *)
(* after its commit by an event that may be sent or arrive late or never.  *)
(*                                                                         *)
(* The two caches are one class twice: get deletes the expired entry,      *)
(* awaits the answer, stores it with a new time to live and trims;         *)
(* invalidate deletes.  Any number of requests may be between the await    *)
(* and the store; a slot is such a request of a gateway, followed down to  *)
(* the database.  A hit changes nothing and is a stuttering step.          *)
(*                                                                         *)
(* Times are relative: left is expiresAt - now of an entry (0 once it is   *)
(* expired, which get does not tell from absent), wait is the time a       *)
(* request has held its answer, and since is the time since the grants of  *)
(* a user changed, cut off where every cached answer is fresh.  MaxLatency *)
(* bounds how long an answer is on its way; the code sets no such bound.   *)
(***************************************************************************)
EXTENDS AccessGrants, Integers, FiniteSets

CONSTANTS
  Instance,    \* processes of the access service
  Gateway,     \* processes of the gateway
  Slot,        \* requests that may be in progress
  GatewayOf,   \* Slot -> Gateway
  AccessTtl,   \* cacheTtlMs of the access service
  GatewayTtl,  \* GATEWAY_PERMISSION_CACHE_TTL_MS
  MaxEntries,  \* the size either cache is trimmed to
  MaxLatency   \* bound: time between an answer and its storing

ASSUME CachesAssumption ==
  /\ GatewayOf \in [Slot -> Gateway]
  /\ Instance \cap Gateway = {}
  /\ AccessTtl \in Nat \ {0} /\ GatewayTtl \in Nat \ {0}
  /\ MaxEntries \in Nat \ {0}
  /\ MaxLatency \in Nat
  /\ NULL \notin User \cup Instance

VARIABLES
  cache,        \* by process and user: the entry
  lookup,       \* by slot: the request in progress
  unpublished,  \* by instance: changes committed and not yet published
  event,        \* events on their way: <<gateway, whom they are about>>
  since         \* history, by user: time since the grants changed

cacheVars == <<cache, lookup, unpublished, event, since>>
vars == <<permission, permission_user, queued, completed,
          cache, lookup, unpublished, event, since>>

-----------------------------------------------------------------------------
Node == Instance \cup Gateway
TtlOf(n) == IF n \in Instance THEN AccessTtl ELSE GatewayTtl

\* An event is about one user, or, without a userId, about all of them.
Everyone == NULL
About(t, u) == t \in {u, Everyone}

\* raced is history: the protocol of events cannot remove the entry any more,
\* because the change was made elsewhere, overtook the request, or its event
\* was not sent or was lost.
NoEntry == [permissions |-> {}, left |-> 0, raced |-> FALSE]
Idle == [phase |-> "idle", user |-> NULL, at |-> NULL, permissions |-> {},
         wait |-> 0, raced |-> FALSE]

Fresh(n, u) == cache[n][u].left > 0
Holds(s) == lookup[s].phase \in {"read", "answered"}

\* The longest time for which an answer can be out of date when it is used.
AccessStaleness == AccessTtl + MaxLatency
GatewayStaleness == AccessTtl + GatewayTtl + 2 * MaxLatency - 1
Horizon == AccessTtl + GatewayTtl + 2 * MaxLatency

\* entries.delete(userId), or entries.clear()
Without(entries, t) == [u \in User |-> IF About(t, u) THEN NoEntry ELSE entries[u]]

Raced(entries, U) ==
  [u \in User |-> IF u \in U /\ entries[u].left > 0
                  THEN [entries[u] EXCEPT !.raced = TRUE] ELSE entries[u]]

\* Mutation of Stored: an entry keeps the time to live it has left.
StoredExtending(n, u, P, raced, evicted) ==
  [cache[n] EXCEPT ![u] = [permissions |-> P, left |-> TtlOf(n) + @.left, raced |-> raced]]

\* entries.set(...) and trim(): the oldest entries of others make room.
Stored(n, u, P, raced, evicted) ==
  [v \in User |-> IF v = u THEN [permissions |-> P, left |-> TtlOf(n), raced |-> raced]
                  ELSE IF v \in evicted THEN NoEntry ELSE cache[n][v]]

Evictable(u) == IF Cardinality(User) > MaxEntries THEN SUBSET (User \ {u}) ELSE {{}}

Init ==
  /\ GrantsInit /\ OutboxInit
  /\ cache = [n \in Node |-> [u \in User |-> NoEntry]]
  /\ lookup = [s \in Slot |-> Idle]
  /\ unpublished = [i \in Instance |-> {}]
  /\ event = {}
  /\ since = [u \in User |-> Horizon]

-----------------------------------------------------------------------------
\* Changes, at an instance of the access service.  T is what will be published.
Committed(i, T) ==
  LET changed == {u \in User : permission_user'[u] # permission_user[u]} IN
  /\ unpublished' = [unpublished EXCEPT ![i] = @ \cup T]
  /\ since' = [u \in User |-> IF u \in changed THEN 0 ELSE since[u]]
  /\ cache' = [n \in Node |-> IF n \in Instance \ {i} THEN Raced(cache[n], changed) ELSE cache[n]]
  /\ lookup' = [s \in Slot |->
                 IF Holds(s) /\ lookup[s].user \in changed
                 THEN [lookup[s] EXCEPT !.raced = TRUE] ELSE lookup[s]]
  /\ UNCHANGED event

Grant(i, u, P, r) ==
  /\ GrantPermissions(u, P, r, permission_user[u])
  /\ Committed(i, IF Missing(u, P) # {} THEN {u} ELSE {})

Revoke(i, actor, u, p, r) ==
  /\ RevokePermission(actor, u, p, r, permission_user[u])
  /\ Committed(i, {u})

Create(i, p) == CreatePermission(p) /\ Committed(i, {Everyone})
Delete(i, p) == DeletePermission(p) /\ Committed(i, {Everyone})

\* updatePermission changes a description only, and is published all the same.
UpdateDescription(i) ==
  /\ permission # {}
  /\ UNCHANGED <<permission, permission_user, queued, completed>>
  /\ Committed(i, {Everyone})

\* Mutation of Publish: the event is sent and the own cache is left alone.
PublishOnly(i, t) ==
  /\ t \in unpublished[i]
  /\ unpublished' = [unpublished EXCEPT ![i] = @ \ {t}]
  /\ event' = event \cup (Gateway \X {t})
  /\ UNCHANGED <<permission, permission_user, queued, completed,
                 cache, lookup, since>>

\* publish: the event, then the instance's own cache, without an await between.
Publish(i, t) ==
  /\ t \in unpublished[i]
  /\ unpublished' = [unpublished EXCEPT ![i] = @ \ {t}]
  /\ event' = event \cup (Gateway \X {t})
  /\ cache' = [cache EXCEPT ![i] = Without(@, t)]
  /\ UNCHANGED <<permission, permission_user, queued, completed,
                 lookup, since>>

\* messaging.publish throws (the connection is closed or draining), or the answer
\* to COMMIT is lost and publish is never called: the change stands, nobody is
\* told, and the instance's own cache is not invalidated either.
PublishThrows(i, t) ==
  /\ t \in unpublished[i]
  /\ unpublished' = [unpublished EXCEPT ![i] = @ \ {t}]
  /\ cache' = [n \in Node |-> IF n \in Gateway \cup {i}
                              THEN Raced(cache[n], {u \in User : About(t, u)})
                              ELSE cache[n]]
  /\ UNCHANGED <<permission, permission_user, queued, completed,
                 lookup, event, since>>

-----------------------------------------------------------------------------
\* The event arrives at a gateway, or does not.
Invalidate(g, t) ==
  /\ <<g, t>> \in event
  /\ event' = event \ {<<g, t>>}
  /\ cache' = [cache EXCEPT ![g] = Without(@, t)]
  /\ UNCHANGED <<permission, permission_user, queued, completed,
                 lookup, unpublished, since>>

Lose(g, t) ==
  /\ <<g, t>> \in event
  /\ event' = event \ {<<g, t>>}
  /\ cache' = [cache EXCEPT ![g] = Raced(@, {u \in User : About(t, u)})]
  /\ UNCHANGED <<permission, permission_user, queued, completed,
                 lookup, unpublished, since>>

-----------------------------------------------------------------------------
\* A request misses at the gateway and asks an instance.
GatewayMiss(s, u, i) ==
  /\ lookup[s].phase = "idle"
  /\ ~Fresh(GatewayOf[s], u)
  /\ lookup' = [lookup EXCEPT ![s] = [Idle EXCEPT !.phase = "asked", !.user = u, !.at = i]]
  /\ UNCHANGED <<permission, permission_user, queued, completed,
                 cache, unpublished, event, since>>

\* The instance answers from its cache; until it has published a change it may
\* answer with what the change replaced.
AccessHit(s) ==
  LET u == lookup[s].user  i == lookup[s].at IN
  /\ lookup[s].phase = "asked"
  /\ Fresh(i, u)
  /\ lookup' = [lookup EXCEPT ![s] =
       [@ EXCEPT !.phase = "answered", !.wait = 0,
                 !.permissions = cache[i][u].permissions,
                 !.raced = cache[i][u].raced \/ \E t \in unpublished[i] : About(t, u)]]
  /\ UNCHANGED <<permission, permission_user, queued, completed,
                 cache, unpublished, event, since>>

AccessMiss(s) ==
  /\ lookup[s].phase = "asked"
  /\ ~Fresh(lookup[s].at, lookup[s].user)
  /\ lookup' = [lookup EXCEPT ![s] = [@ EXCEPT !.phase = "reading"]]
  /\ UNCHANGED <<permission, permission_user, queued, completed,
                 cache, unpublished, event, since>>

\* lookupPermissions sees the grants of this moment.
Read(s) ==
  /\ lookup[s].phase = "reading"
  /\ lookup' = [lookup EXCEPT ![s] =
       [@ EXCEPT !.phase = "read", !.wait = 0,
                 !.permissions = permission_user[lookup[s].user]]]
  /\ UNCHANGED <<permission, permission_user, queued, completed,
                 cache, unpublished, event, since>>

AccessStore(s) ==
  LET u == lookup[s].user  i == lookup[s].at IN
  /\ lookup[s].phase = "read"
  /\ \E evicted \in Evictable(u) :
       cache' = [cache EXCEPT ![i] = Stored(i, u, lookup[s].permissions, lookup[s].raced, evicted)]
  /\ lookup' = [lookup EXCEPT ![s] = [@ EXCEPT !.phase = "answered", !.wait = 0]]
  /\ UNCHANGED <<permission, permission_user, queued, completed,
                 unpublished, event, since>>

GatewayStore(s) ==
  LET u == lookup[s].user  g == GatewayOf[s] IN
  /\ lookup[s].phase = "answered"
  /\ \E evicted \in Evictable(u) :
       cache' = [cache EXCEPT ![g] = Stored(g, u, lookup[s].permissions, lookup[s].raced, evicted)]
  /\ lookup' = [lookup EXCEPT ![s] = Idle]
  /\ UNCHANGED <<permission, permission_user, queued, completed,
                 unpublished, event, since>>

\* The request fails on its way: permission_lookup_failed, nothing is stored.
Fail(s) ==
  /\ lookup[s].phase # "idle"
  /\ lookup' = [lookup EXCEPT ![s] = Idle]
  /\ UNCHANGED <<permission, permission_user, queued, completed,
                 cache, unpublished, event, since>>

-----------------------------------------------------------------------------
\* An instance dies: what it has committed is never published.
RestartInstance(i) ==
  /\ cache' = [n \in Node |->
                 IF n = i THEN [u \in User |-> NoEntry]
                 ELSE IF n \in Gateway
                 THEN Raced(cache[n], {u \in User : \E t \in unpublished[i] : About(t, u)})
                 ELSE cache[n]]
  /\ lookup' = [s \in Slot |-> IF lookup[s].at = i /\ lookup[s].phase # "answered"
                               THEN Idle ELSE lookup[s]]
  /\ unpublished' = [unpublished EXCEPT ![i] = {}]
  /\ UNCHANGED <<permission, permission_user, queued, completed, event, since>>

RestartGateway(g) ==
  /\ cache' = [cache EXCEPT ![g] = [u \in User |-> NoEntry]]
  /\ lookup' = [s \in Slot |-> IF GatewayOf[s] = g THEN Idle ELSE lookup[s]]
  /\ event' = {e \in event : e[1] # g}
  /\ UNCHANGED <<permission, permission_user, queued, completed, unpublished, since>>

\* One unit of time, which no answer on its way outlasts.
Tick ==
  /\ \A s \in Slot : Holds(s) => lookup[s].wait < MaxLatency
  /\ cache' = [n \in Node |-> [u \in User |->
                 IF cache[n][u].left > 1 THEN [cache[n][u] EXCEPT !.left = @ - 1] ELSE NoEntry]]
  /\ lookup' = [s \in Slot |-> IF Holds(s) THEN [lookup[s] EXCEPT !.wait = @ + 1] ELSE lookup[s]]
  /\ since' = [u \in User |-> IF since[u] < Horizon THEN since[u] + 1 ELSE Horizon]
  /\ UNCHANGED <<permission, permission_user, queued, completed, unpublished, event>>

Change(i) ==
  \/ \E u \in User, r \in Request, P \in SUBSET Permission : Grant(i, u, P, r)
  \/ \E u, actor \in User, r \in Request, p \in Permission : Revoke(i, actor, u, p, r)
  \/ \E p \in Permission : Create(i, p) \/ Delete(i, p)
  \/ UpdateDescription(i)
  \/ \E t \in User \cup {Everyone} : Publish(i, t) \/ PublishThrows(i, t)

LookupStep(s) ==
  \/ \E u \in User, i \in Instance : GatewayMiss(s, u, i)
  \/ AccessHit(s) \/ AccessMiss(s) \/ Read(s) \/ AccessStore(s) \/ GatewayStore(s)
  \/ Fail(s)

Next ==
  \/ \E i \in Instance : Change(i) \/ RestartInstance(i)
  \/ \E s \in Slot : LookupStep(s)
  \/ \E g \in Gateway : \/ \E t \in User \cup {Everyone} : Invalidate(g, t) \/ Lose(g, t)
                        \/ RestartGateway(g)
  \/ Tick

Spec == Init /\ [][Next]_vars

-----------------------------------------------------------------------------
EntryType == [permissions : SUBSET Permission, left : Nat, raced : BOOLEAN]
LookupType ==
  [phase : {"idle", "asked", "reading", "read", "answered"},
   user : User \cup {NULL}, at : Instance \cup {NULL},
   permissions : SUBSET Permission, wait : 0 .. MaxLatency, raced : BOOLEAN]

\* Types of the tables, the caches and the requests in progress; an entry never
\* has more time left than its cache gives, and grants are of permissions that
\* exist (access.service.ts, access.cache.ts, permission-cache.ts).
CachesTypeOK ==
  /\ permission \subseteq Permission
  /\ permission_user \in [User -> SUBSET permission]
  /\ cache \in [Node -> [User -> EntryType]]
  /\ \A n \in Node, u \in User : cache[n][u].left <= TtlOf(n)
  /\ lookup \in [Slot -> LookupType]
  /\ \A s \in Slot : lookup[s].phase # "idle" => lookup[s].user \in User /\ lookup[s].at \in Instance
  /\ unpublished \in [Instance -> SUBSET (User \cup {Everyone})]
  /\ event \subseteq Gateway \X (User \cup {Everyone})
  /\ since \in [User -> 0 .. Horizon]

\* However requests, changes, lost events and restarts fall together, an answer
\* a cache still gives out differs from the grants only if these changed less
\* than a fixed time ago: one time to live and one delay at the access service,
\* both times to live and both delays at the gateway.  A revoked permission
\* stops working, and a granted one works, within that time (AccessService,
\* PermissionLookupCache.get and GatewayPermissionCache.get together).
StalenessBounded ==
  \A n \in Node, u \in User :
    Fresh(n, u) /\ cache[n][u].permissions # permission_user[u]
      => since[u] < IF n \in Instance THEN AccessStaleness ELSE GatewayStaleness

\* Within that time an answer that differs is explained: its change is about to
\* be published, its event is on its way, or no event can reach the entry (the
\* change was made at another instance, it overtook the request that stored
\* the entry, or its event was never sent or was lost).  In particular an
\* instance that answers alone is never out of date once publish has returned,
\* unless a request was between its read and its store (AccessService.publish
\* and both invalidate).
StalenessExplained ==
  \A n \in Node, u \in User :
    Fresh(n, u) /\ ~cache[n][u].raced /\ cache[n][u].permissions # permission_user[u]
      => IF n \in Instance THEN \E t \in unpublished[n] : About(t, u)
         ELSE \/ \E i \in Instance : \E t \in unpublished[i] : About(t, u)
              \/ \E t \in User \cup {Everyone} : <<n, t>> \in event /\ About(t, u)
=============================================================================
