---------------------------- MODULE UserAccounts ----------------------------
(***************************************************************************)
(* The user service's table "user".users and the changes UsersService      *)
(* makes to it: create, update, the six status actions and                 *)
(* setTotpRequirement.  A change is a transaction that locks the row, runs *)
(* the guards, changes the row, writes the audit entry and enqueues the    *)
(* jobs.  The audit entry is written on the connection of ActivityLog, not *)
(* on the transaction's, so it is there at once and stays when the         *)
(* transaction is rolled back.                                             *)
(*                                                                         *)
(* Change makes a transaction up to its audit entry in one step (nobody    *)
(* sees it before, and a failure before leaves no trace); Commit and       *)
(* Rollback end it.  updated_at is the start of the transaction and goes   *)
(* into the keys of its jobs; here it is the number of the change.         *)
(***************************************************************************)
EXTENDS Outbox, Naturals, Sequences

CONSTANTS
  Actor,      \* who may call: users and others
  MaxChanges  \* bound: changes of accounts and grants

ASSUME AccountsAssumption == MaxChanges \in Nat /\ NULL \notin User

VARIABLES
  users,        \* by user: the committed row, or NULL
  transactions, \* the open transactions, each as the change it makes
  audit_trails, \* entries of the module "users"
  clock,        \* changes so far
  trail         \* history, by user: the committed changes in order

accountVars == <<users, transactions, audit_trails, clock, trail>>

-----------------------------------------------------------------------------
\* deriveUserStatus
Status(row) ==
  CASE row.deleted -> "deleted"
    [] row.blocked /\ ~row.deleted -> "blocked"
    [] row.suspended /\ ~row.blocked /\ ~row.deleted -> "suspended"
    [] OTHER -> "active"

\* TRANSITIONS: the statuses an action may run from, and its patch: the
\* timestamp it owns and whether it sets or clears it.
TRANSITIONS ==
  [suspend   |-> [from |-> {"active"}, column |-> "suspended", set |-> TRUE],
   unsuspend |-> [from |-> {"suspended"}, column |-> "suspended", set |-> FALSE],
   block     |-> [from |-> {"active", "suspended"}, column |-> "blocked", set |-> TRUE],
   unblock   |-> [from |-> {"blocked"}, column |-> "blocked", set |-> FALSE],
   delete    |-> [from |-> {"active", "suspended", "blocked"}, column |-> "deleted", set |-> TRUE],
   restore   |-> [from |-> {"deleted"}, column |-> "deleted", set |-> FALSE]]

NewRow == [suspended |-> FALSE, blocked |-> FALSE, deleted |-> FALSE, totp_required |-> FALSE]

\* Mutation of Patched: the action leaves no other timestamp set.
PatchedAlone(row, action) ==
  [NewRow EXCEPT ![TRANSITIONS[action].column] = TRANSITIONS[action].set]

\* setStatusTimestamps: the columns the action does not own keep their value.
Patched(row, action) == [row EXCEPT ![TRANSITIONS[action].column] = TRANSITIONS[action].set]

\* What the audit trail keeps of a row: its status, or, of a change of the
\* requirement, whether there is one.
Audited(action, row) ==
  IF action \in {"totp_require", "totp_unrequire"}
  THEN IF row.totp_required THEN "required" ELSE "not_required"
  ELSE Status(row)

\* writeAudit
AuditEntry(u, change) ==
  [user |-> u, action |-> change.action, at |-> change.at,
   before |-> IF change.before = NULL THEN NULL ELSE Audited(change.action, change.before),
   after |-> Audited(change.action, change.after)]

-----------------------------------------------------------------------------
\* The jobs of a change.
Invitation(u) == [type |-> "invitation", user |-> u]
RecipientSync(u, at, row) == [type |-> "recipient", user |-> u, at |-> at, active |-> ~row.deleted]
AccountStatus(u, action, at) == [type |-> "account", user |-> u, action |-> action, at |-> at]

\* Mutation of JobsOf: the status actions do not synchronise the recipient.
JobsOfProfileOnly(u, action, at, row) ==
  IF action \in DOMAIN TRANSITIONS THEN {AccountStatus(u, action, at)}
  ELSE IF action = "update" THEN {RecipientSync(u, at, row)}
  ELSE IF action = "create" THEN {Invitation(u), RecipientSync(u, at, row)}
  ELSE {}

JobsOf(u, action, at, row) ==
  CASE action = "create" -> {Invitation(u), RecipientSync(u, at, row)}
    [] action = "update" -> {RecipientSync(u, at, row)}
    [] action \in DOMAIN TRANSITIONS -> {RecipientSync(u, at, row), AccountStatus(u, action, at)}
    [] OTHER -> {}

\* FOR UPDATE, or, for a new row, the unique index: nobody else's transaction
\* has the row.
Unlocked(u) == \A change \in transactions : change.user # u

\* The guards hold, the row is changed, and the audit entry is written.
ChangeUnlocked(u, action, before, after) ==
  LET change == [user |-> u, action |-> action, at |-> clock + 1,
                 before |-> before, after |-> after] IN
  /\ clock < MaxChanges
  /\ clock' = clock + 1
  /\ transactions' = transactions \cup {change}
  /\ audit_trails' = audit_trails \cup {AuditEntry(u, change)}
  /\ UNCHANGED <<users, trail, queued, completed>>

Change(u, action, before, after) ==
  Unlocked(u) /\ ChangeUnlocked(u, action, before, after)

CreateUser(u) ==
  /\ users[u] = NULL
  /\ Change(u, "create", NULL, NewRow)

\* update changes the name only, which no property is about.
UpdateUser(u) ==
  /\ users[u] # NULL
  /\ Status(users[u]) # "deleted"
  /\ Change(u, "update", users[u], users[u])

ApplyStatusAction(actor, u, action) ==
  /\ actor # u
  /\ users[u] # NULL
  /\ Status(users[u]) \in TRANSITIONS[action].from
  /\ Change(u, action, users[u], Patched(users[u], action))

\* No status is looked at, and no job is enqueued.
SetTotpRequirement(u, required) ==
  /\ users[u] # NULL
  /\ Change(u, IF required THEN "totp_require" ELSE "totp_unrequire", users[u],
            [users[u] EXCEPT !.totp_required = required])

\* The transaction commits, and with it the jobs are enqueued.
CommitChange(change) ==
  /\ LET u == change.user IN
     /\ users' = [users EXCEPT ![u] = change.after]
     /\ trail' = [trail EXCEPT ![u] = Append(@, change)]
     /\ EnqueueIfDurable(JobsOf(u, change.action, change.at, change.after))
  /\ transactions' = transactions \ {change}
  /\ UNCHANGED <<audit_trails, clock>>

\* Enqueueing fails, the process dies, or the connection is lost.
RollbackChange(change) ==
  /\ transactions' = transactions \ {change}
  /\ UNCHANGED <<users, audit_trails, clock, trail, queued, completed>>

AccountStep ==
  \/ \E u \in User :
       \/ CreateUser(u) \/ UpdateUser(u)
       \/ \E actor \in Actor, action \in DOMAIN TRANSITIONS : ApplyStatusAction(actor, u, action)
       \/ \E required \in BOOLEAN : SetTotpRequirement(u, required)
  \/ \E change \in transactions : CommitChange(change) \/ RollbackChange(change)

\* A row any sequence of changes can have left, unknown to history.
AccountsInit(Row) ==
  /\ users \in [User -> Row \cup {NULL}]
  /\ transactions = {}
  /\ audit_trails = {}
  /\ clock = 0
  /\ trail = [u \in User |-> <<>>]

-----------------------------------------------------------------------------
RowType == [suspended : BOOLEAN, blocked : BOOLEAN, deleted : BOOLEAN, totp_required : BOOLEAN]
ActionType == DOMAIN TRANSITIONS \cup {"create", "update", "totp_require", "totp_unrequire"}
ChangeType == [user : User, action : ActionType, at : 1 .. MaxChanges,
               before : RowType \cup {NULL}, after : RowType]

\* Types of the rows and the open transactions; of one user at most one
\* transaction is open (users.service.ts, findByIdForUpdate).
AccountsTypeOK ==
  /\ users \in [User -> RowType \cup {NULL}]
  /\ transactions \subseteq ChangeType
  /\ clock \in 0 .. MaxChanges
  /\ \A c, d \in transactions : c # d => c.user # d.user

\* The audit trail tells the story of every account without a gap: a committed
\* change is in it, starts from the row the change before it left, and the last
\* one left the row as it is.  (The converse does not hold: an entry may be of a
\* transaction that was rolled back.)  UsersService.applyStatusAction, update,
\* create, setTotpRequirement.
AuditTrailFaithful ==
  \A u \in User :
    /\ \A i \in DOMAIN trail[u] :
         /\ AuditEntry(u, trail[u][i]) \in audit_trails
         /\ i > 1 => trail[u][i].before = trail[u][i - 1].after
    /\ trail[u] # <<>> => users[u] = trail[u][Len(trail[u])].after

Undoes == {<<"suspend", "unsuspend">>, <<"block", "unblock">>, <<"delete", "restore">>}

\* An action that undoes another brings back the status from before it: a user
\* who was suspended, then deleted and restored is suspended again
\* (users.service.ts, TRANSITIONS and setStatusTimestamps).
UndoRestoresStatus ==
  \A u \in User : \A i, j \in DOMAIN trail[u] :
    /\ i < j
    /\ <<trail[u][i].action, trail[u][j].action>> \in Undoes
    /\ \A k \in i + 1 .. j - 1 : trail[u][k].action # trail[u][i].action
    => Status(trail[u][j].after) = Status(trail[u][i].before)
=============================================================================
