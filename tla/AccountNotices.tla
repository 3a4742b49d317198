--------------------------- MODULE AccountNotices ---------------------------
(***************************************************************************)
(* The user service and the access service change accounts and grants, and *)
(* the notification service learns of it through the durable queue.        *)
(* Nobody waits for the notification service, and its jobs run in any      *)
(* order, so what it knows about a user is a projection that lags behind.  *)
(* The invitation is a job of the auth service: it is completed, or it     *)
(* fails for good and the operators are told.                              *)
(***************************************************************************)
EXTENDS UserAccounts, AccessGrants, Notifications

CONSTANTS
  Row  \* rows a user may have at the start

ASSUME NoticesAssumption == Row \subseteq RowType /\ NULL \notin RowType

VARIABLES
  overlapped,  \* by user: the grants as a transaction may still read them
  granted      \* history: users who could read jobs at some time

vars == <<queued, completed, users, transactions, audit_trails, clock, trail,
          permission, permission_user, recipient, notification, delivery, disabled,
          attempt, ignored, stranded, overtaken, overlapped, granted>>

-----------------------------------------------------------------------------
\* At the start the users there are have been synchronised.
Init ==
  /\ OutboxInit
  /\ AccountsInit(Row)
  /\ GrantsInit
  /\ recipient = [u \in User |->
       IF users[u] = NULL THEN NULL
       ELSE [active |-> ~users[u].deleted, can_read_jobs |-> FALSE, at |-> 0]]
  /\ NotificationsInit
  /\ overlapped = permission_user
  /\ granted = {}

-----------------------------------------------------------------------------
\* A change of the grants commits.
Granting ==
  /\ clock < MaxChanges
  /\ clock' = clock + 1
  /\ overlapped' = permission_user
  /\ granted' = granted \cup {u \in User : CanReadJobs(permission_user'[u])}
  /\ UNCHANGED <<users, transactions, audit_trails, trail,
                 recipient, disabled, attempt, overtaken, noticeVars>>

Grant(u, P, r, view) == GrantPermissions(u, P, r, view) /\ Granting

Revoke(actor, u, p, r, view) == RevokePermission(actor, u, p, r, view) /\ Granting

Delete(p) == DeletePermission(p) /\ Granting

GrantStep ==
  \/ \E u \in User, r \in Request :
       \E view \in {permission_user[u], overlapped[u]} :
         \/ \E P \in SUBSET Permission : Grant(u, P, r, view)
         \/ \E actor \in Actor, p \in Permission : Revoke(actor, u, p, r, view)
  \/ \E p \in Permission : Delete(p)

-----------------------------------------------------------------------------
restOfGrants == <<permission, permission_user, overlapped, granted>>

\* The invitation's worker completes its job, or uses up its attempts, which
\* enqueues the notification of the failure (jobs.fail_job).
RunInvitation(u) ==
  /\ Invitation(u) \in queued
  /\ Ran(Invitation(u)) \/ Enqueue({JobFailure(u)})
  /\ UNCHANGED <<accountVars, notificationVars, restOfGrants>>

RunCapability(job) ==
  /\ job.type = "capability"
  /\ SyncCapability(job)
  /\ UNCHANGED <<accountVars, restOfGrants>>

Next ==
  \/ AccountStep /\ UNCHANGED <<notificationVars, restOfGrants>>
  \/ GrantStep
  \/ NotificationStep /\ UNCHANGED <<accountVars, restOfGrants>>
  \/ \E job \in queued : RunCapability(job)
  \/ \E u \in User : RunInvitation(u)

Spec == Init /\ [][Next]_vars

-----------------------------------------------------------------------------
\* The tables and the transactions of both services have their types
\* (UsersService, NotificationService).
NoticesTypeOK == AccountsTypeOK /\ NotificationsTypeOK

\* No synchronisation of this type is left to run for the user.
Synchronised(u, type) == \A job \in queued : ~(job.type = type /\ job.user = u)

Current(u) == recipient[u] # NULL /\ recipient[u].active = ~users[u].deleted

\* What the notification service believes about an account is what the user
\* service last committed, once no synchronisation is left to run, unless one
\* overtook another: no change of an account forgets its recipient
\* (UsersService.enqueueRecipientSync, NotificationService.syncRecipient).
RecipientFollowsAccount ==
  \A u \in User :
    Synchronised(u, "recipient") /\ u \notin overtaken /\ users[u] # NULL => Current(u)

\* "Given a user or permission change, when its durable projection job completes,
\* then the notification service has the current name, email, active state, and
\* job read capability" (docs/specs/0012, AC-10): with no job left to run the
\* projection says what the accounts and the grants say, in whatever order the
\* jobs ran and whichever of them were enqueued (AccessService.deletePermission
\* and enqueueRecipientCapabilitySync, NotificationService.syncRecipient).
ProjectionIsCurrent ==
  \A u \in User :
    Synchronised(u, "recipient") /\ Synchronised(u, "capability") /\ users[u] # NULL =>
      Current(u) /\ recipient[u].can_read_jobs = CanReadJobs(permission_user[u])

\* Failures of jobs are told to operators only: to users who, at some time, were
\* allowed to read jobs (NotificationService.fanoutJobFailure).
FailuresToOperators ==
  \A key \in notification : key.category = "operational" => key.user \in granted
=============================================================================
