---------------------------- MODULE AccessGrants ----------------------------
(***************************************************************************)
(* The access service's tables access.permission and                       *)
(* access.permission_user and the changes AccessService makes to them.     *)
(* Every change is one transaction, in which the notification of the user  *)
(* and the synchronisation of the user's capability are enqueued, and an   *)
(* action here is its commit.  A transaction may have read before another  *)
(* one committed: the view of an action is the grants as it read them.     *)
(* What happens after the commit (the event and the caches) is in          *)
(* PermissionCaches.  copyPermissions reads the source's grants and calls  *)
(* grantPermissions, so it is a call of GrantPermissions with those ids.   *)
(***************************************************************************)
EXTENDS Outbox

CONSTANTS
  Permission,       \* permission names
  AccessNamespace,  \* those of the namespace "access"
  JobsPermission,   \* 'jobs:job:read' and 'jobs:job:manage'
  Request           \* x-request-id headers of the administrators' calls

ASSUME GrantsAssumption ==
  /\ AccessNamespace \subseteq Permission
  /\ JobsPermission \subseteq Permission

VARIABLES
  permission,      \* the permissions that exist
  permission_user  \* by user: the permissions granted

grantVars == <<permission, permission_user>>

GrantsInit ==
  /\ permission = Permission
  /\ permission_user = [u \in User |-> {}]

-----------------------------------------------------------------------------
\* 'permission:<user>:<action>:<name>:<request>'
PermissionChanged(u, action, p, r) ==
  [type |-> "permission", user |-> u, action |-> action, permission |-> p, request |-> r]

\* 'recipient-capability:<user>:<canReadJobs>'
Capability(u, canReadJobs) ==
  [type |-> "capability", user |-> u, canReadJobs |-> canReadJobs]

CanReadJobs(granted) == granted \cap JobsPermission # {}

\* The grants of a user become P: the rows change and the jobs of the change are
\* enqueued.  seen are the grants the transaction reads at its end.
SetGrants(u, P, action, changed, r, seen) ==
  /\ permission_user' = [permission_user EXCEPT ![u] = P]
  /\ EnqueueIfDurable({PermissionChanged(u, action, p, r) : p \in changed}
                        \cup {Capability(u, CanReadJobs(seen))})
  /\ UNCHANGED permission

\* The permissions of P a user does not have yet.
Missing(u, P) == P \ permission_user[u]

\* grantPermissions: ids that the view shows as granted, or that another
\* transaction has inserted meanwhile, are skipped; the latter are seen at the
\* end, because the insertion waited for the other transaction.
GrantPermissions(u, P, r, view) ==
  /\ P # {} /\ P \subseteq permission
  /\ LET granted == Missing(u, P) \ view IN
     SetGrants(u, permission_user[u] \cup granted, "grant", granted, r, view \cup P)

\* revokePermission: nobody revokes their own access administration.
RevokePermission(actor, u, p, r, view) ==
  /\ p \in permission_user[u]
  /\ ~(actor = u /\ p \in AccessNamespace)
  /\ SetGrants(u, permission_user[u] \ {p}, "revoke", {p}, r, view \ {p})

\* createPermission: the name must be free.
CreatePermission(p) ==
  /\ p \notin permission
  /\ permission' = permission \cup {p}
  /\ UNCHANGED <<permission_user, queued, completed>>

\* deletePermission: the grants go with the row (ON DELETE CASCADE), without a
\* notification and without a capability job.
DeletePermission(p) ==
  /\ p \in permission \ AccessNamespace
  /\ permission' = permission \ {p}
  /\ permission_user' = [u \in User |-> permission_user[u] \ {p}]
  /\ UNCHANGED outboxVars
=============================================================================
