--------------------------- MODULE DatabaseRunner ---------------------------
(***************************************************************************)
(* packages/database: the commands of cli.ts on one database. Each runner  *)
(* is a process with one command: it refuses, takes the advisory lock or   *)
(* gives up, checks, and then applies or rolls back one file per           *)
(* transaction. Any of them may fail or die between two transactions.      *)
(*                                                                         *)
(* A file's effect and its tracking row are one transaction, so the row    *)
(* stands for both. What a file says is its checksum; the files of a       *)
(* runner are those of its release and do not change while it runs. The    *)
(* set Runner bounds the number of commands.                               *)
(***************************************************************************)
EXTENDS Integers, FiniteSets

CONSTANTS
  Runner,        \* the processes
  Migration,     \* names of migration files
  Seed,          \* names of seed files
  Scope,         \* DATABASE_SCOPES
  Checksum,
  Number,        \* the number in a file's name
  ScopeOf,       \* the scope directory of a file
  Fixture,       \* the seeds of the set 'fixtures'; the others are 'reference'
  Release,       \* Release[r][f]: the checksum of r's file f, NULL if it has none
  Production,    \* the runners with NODE_ENV=production
  MaxSteps,      \* bound of --steps
  NULL

File == Migration \cup Seed

ASSUME RunnerAssumption ==
  /\ Migration \cap Seed = {} /\ Fixture \subseteq Seed /\ Production \subseteq Runner
  /\ Number \in [File -> Nat]
  /\ ScopeOf \in [File -> Scope]
  /\ Release \in [Runner -> [File -> Checksum \cup {NULL}]]
  /\ \A r \in Runner, kind \in {Migration, Seed} : \A f, g \in kind :
       Release[r][f] # NULL /\ Release[r][g] # NULL /\ Number[f] = Number[g] => f = g
  /\ MaxSteps \in Nat

VARIABLES
  schema_migrations,   \* row of each migration, NULL if there is none
  seed_migrations,     \* row of each seed
  newer,               \* pairs of migrations with rows, the later applied_at first
  lock,                \* the session that holds the advisory lock
  pc,                  \* how far each runner is
  command,             \* its command, from the moment it has the lock
  todo,                \* the files it has still to apply or to roll back
  batch                \* the batch number it has taken

tables == <<schema_migrations, seed_migrations, newer>>
vars == <<tables, lock, pc, command, todo, batch>>

\* The columns, and (by) the process that wrote the row.
RowType == [checksum : Checksum, batch : Nat \ {0}, by : Runner]

ASSUME NullAssumption == NULL \notin Checksum \cup Runner \cup RowType

SeedSet == {"reference", "fixtures"}
Command ==
  [op : {"migrate", "seed", "reset", "down", "seed-reset"}, scope : Scope \cup {NULL},
   set : SeedSet \cup {NULL}, steps : 1..MaxSteps, seed : BOOLEAN]

\* parseCliArguments; a flag that a command ignores has its default here.
Accepted(c) ==
  /\ c.op = "reset" => c.scope = NULL
  /\ c.op = "seed-reset" => c.scope # NULL
  /\ c.seed => c.op = "reset"
  /\ c.set # NULL => c.op = "seed"
  /\ c.steps # 1 => c.op = "down"

\* What NODE_ENV=production refuses before it asks for the lock.
Refused(r, c) ==
  r \in Production /\ (c.op \in {"reset", "down"} \/ (c.op = "seed" /\ c.set = "fixtures"))

Holding == {"locked", "dropped", "applying", "validated", "seeding", "rolling", "ending"}
Init ==
  /\ schema_migrations = [m \in Migration |-> NULL]
  /\ seed_migrations = [s \in Seed |-> NULL]
  /\ newer = {}
  /\ lock = NULL
  /\ pc = [r \in Runner |-> "ready"]
  /\ command = [r \in Runner |-> NULL]
  /\ todo = [r \in Runner |-> {}]
  /\ batch = [r \in Runner |-> 0]
-----------------------------------------------------------------------------
Has(r, f) == Release[r][f] # NULL
Applied(m) == schema_migrations[m] # NULL
Seeded(s) == seed_migrations[s] # NULL
InScope(c, f) == c.scope = NULL \/ ScopeOf[f] = c.scope
InSet(c, s) == c.set = NULL \/ (c.set = "fixtures" <=> s \in Fixture)

\* Mutation of TakeBatch: the rows are counted.
TakeBatchCounted(r, rows) ==
  batch' = [batch EXCEPT ![r] = 1 + Cardinality({f \in DOMAIN rows : rows[f] # NULL})]

\* nextBatch: COALESCE(MAX(batch), 0) + 1
TakeBatch(r, rows) ==
  LET used == {0} \cup {rows[f].batch : f \in {g \in DOMAIN rows : rows[g] # NULL}} IN
  \E b \in used : /\ \A c \in used : c <= b
                  /\ batch' = [batch EXCEPT ![r] = b + 1]

\* assertAppliedChecksums, assertAppliedSeedChecksums: each row has its file.
Agrees(r) == \A m \in Migration : Applied(m) => schema_migrations[m].checksum = Release[r][m]
SeedsAgree(r) == \A s \in Seed : Seeded(s) => seed_migrations[s].checksum = Release[r][s]

Pending(r, c) == {m \in Migration : Has(r, m) /\ InScope(c, m) /\ ~Applied(m)}
PendingSeeds(r, c) == {s \in Seed : Has(r, s) /\ InScope(c, s) /\ InSet(c, s) /\ ~Seeded(s)}

\* Mutation of DependenciesMet: only the files of the scope itself are looked at.
DependenciesInScope(r, c) ==
  c.scope # NULL =>
    \A m \in Pending(r, c), n \in Migration :
      Has(r, n) /\ InScope(c, n) /\ Number[n] < Number[m] => Applied(n)

\* assertScopeDependencies: a scope's files wait for every file with a lower number,
\* a pending one of the same scope included.
DependenciesMet(r, c) ==
  c.scope # NULL =>
    \A m \in Pending(r, c), n \in Migration :
      Has(r, n) /\ Number[n] < Number[m] => Applied(n)

\* Mutation of Complete: only the scope to be seeded must be migrated.
CompleteInScope(r) ==
  \A m \in Migration : Has(r, m) /\ InScope(command[r], m) => Applied(m)

\* assertAllMigrationsApplied
Complete(r) == \A m \in Migration : Has(r, m) => Applied(m)

\* The last 'steps' migrations of a scope, as many as there are.
Candidates(c) ==
  {m \in Migration : /\ Applied(m) /\ InScope(c, m)
                     /\ Cardinality({n \in Migration : InScope(c, n) /\ <<n, m>> \in newer}) < c.steps}

\* The file of a set with the lowest number comes first.
First(files, f) == f \in files /\ \A g \in files : Number[f] <= Number[g]
Row(r, f) == [checksum |-> Release[r][f], batch |-> batch[r], by |-> r]
-----------------------------------------------------------------------------
At(r, place) == pc[r] = place
Goto(r, place) == pc' = [pc EXCEPT ![r] = place]

Refuse(r) ==
  /\ At(r, "ready")
  /\ \E c \in Command : Accepted(c) /\ Refused(r, c)
  /\ Goto(r, "done")
  /\ UNCHANGED <<tables, lock, command, todo, batch>>

\* The poll that gets the lock. What the command is shows from here on only.
TryLock(r) ==
  /\ At(r, "ready")
  /\ lock = NULL
  /\ \E c \in Command :
       /\ Accepted(c) /\ ~Refused(r, c)
       /\ command' = [command EXCEPT ![r] = c]
  /\ lock' = r
  /\ Goto(r, "locked")
  /\ UNCHANGED <<tables, todo, batch>>

\* The deadline passes: no poll got the lock.
TimeOut(r) ==
  /\ At(r, "ready")
  /\ Goto(r, "done")
  /\ UNCHANGED <<tables, lock, command, todo, batch>>

\* db:reset drops all schemas and both tracking tables in one statement.
Drop(r) ==
  /\ At(r, "locked") /\ command[r].op = "reset"
  /\ schema_migrations' = [m \in Migration |-> NULL]
  /\ seed_migrations' = [s \in Seed |-> NULL]
  /\ newer' = {}
  /\ Goto(r, "dropped")
  /\ UNCHANGED <<lock, command, todo, batch>>

PlanMigrations(r) ==
  /\ At(r, "dropped") \/ (At(r, "locked") /\ command[r].op = "migrate")
  /\ Agrees(r) /\ DependenciesMet(r, command[r])
  /\ todo' = [todo EXCEPT ![r] = Pending(r, command[r])]
  /\ TakeBatch(r, schema_migrations)
  /\ Goto(r, "applying")
  /\ UNCHANGED <<tables, lock, command>>

\* One migration and its row; the name is unique.
Apply(r) ==
  /\ At(r, "applying")
  /\ \E m \in todo[r] :
       /\ First(todo[r], m) /\ ~Applied(m)
       /\ schema_migrations' = [schema_migrations EXCEPT ![m] = Row(r, m)]
       /\ newer' = newer \cup {<<m, n>> : n \in {k \in Migration : Applied(k)}}
       /\ todo' = [todo EXCEPT ![r] = @ \ {m}]
  /\ UNCHANGED <<seed_migrations, lock, pc, command, batch>>

\* validateCatalog has found nothing.
Validated(r) ==
  /\ At(r, "applying") /\ todo[r] = {}
  /\ Goto(r, IF command[r].seed THEN "validated" ELSE "ending")
  /\ UNCHANGED <<tables, lock, command, todo, batch>>

PlanSeeds(r) ==
  /\ \/ At(r, "validated")
     \/ /\ At(r, "locked") /\ command[r].op = "seed"
        /\ Complete(r) /\ Agrees(r) /\ SeedsAgree(r)
  /\ todo' = [todo EXCEPT ![r] = PendingSeeds(r, command[r])]
  /\ TakeBatch(r, seed_migrations)
  /\ Goto(r, "seeding")
  /\ UNCHANGED <<tables, lock, command>>

\* One seed and its row. The retired role seed writes the row only.
ApplySeed(r) ==
  /\ At(r, "seeding")
  /\ \E s \in todo[r] :
       /\ First(todo[r], s) /\ ~Seeded(s)
       /\ seed_migrations' = [seed_migrations EXCEPT ![s] = Row(r, s)]
       /\ todo' = [todo EXCEPT ![r] = @ \ {s}]
  /\ UNCHANGED <<schema_migrations, newer, lock, pc, command, batch>>

PlanRollback(r) ==
  /\ At(r, "locked") /\ command[r].op = "down"
  /\ Agrees(r)
  /\ todo' = [todo EXCEPT ![r] = Candidates(command[r])]
  /\ Goto(r, "rolling")
  /\ UNCHANGED <<tables, lock, command, batch>>

\* The newest candidate. Seeds keep their rows.
RollBack(r) ==
  /\ At(r, "rolling")
  /\ \E m \in todo[r] :
       /\ ~\E n \in todo[r] : <<n, m>> \in newer
       /\ Has(r, m)
       /\ schema_migrations' = [schema_migrations EXCEPT ![m] = NULL]
       /\ newer' = {p \in newer : m \notin {p[1], p[2]}}
       /\ todo' = [todo EXCEPT ![r] = @ \ {m}]
  /\ UNCHANGED <<seed_migrations, lock, pc, command, batch>>

\* db:seed:reset looks at no file.
ClearSeeds(r) ==
  /\ At(r, "locked") /\ command[r].op = "seed-reset"
  /\ seed_migrations' =
       [s \in Seed |-> IF ScopeOf[s] = command[r].scope THEN NULL ELSE seed_migrations[s]]
  /\ Goto(r, "ending")
  /\ UNCHANGED <<schema_migrations, newer, lock, command, todo, batch>>

Finish(r) ==
  /\ pc[r] \in {"seeding", "rolling"} /\ todo[r] = {}
  /\ Goto(r, "ending")
  /\ UNCHANGED <<tables, lock, command, todo, batch>>

\* A check throws or a statement fails: what was committed stays.
Fail(r) ==
  /\ pc[r] \in Holding \ {"ending"}
  /\ Goto(r, "ending")
  /\ UNCHANGED <<tables, lock, command, todo, batch>>

Forgotten(r) ==
  /\ command' = [command EXCEPT ![r] = NULL]
  /\ todo' = [todo EXCEPT ![r] = {}]
  /\ batch' = [batch EXCEPT ![r] = 0]

\* Mutation of Unlock: the lock is given back after a success only.
UnlockAfterSuccess(r) ==
  /\ At(r, "ending")
  /\ lock' = IF todo[r] = {} THEN NULL ELSE lock
  /\ Goto(r, "done")
  /\ Forgotten(r)
  /\ UNCHANGED tables

Unlock(r) ==
  /\ At(r, "ending")
  /\ lock' = NULL
  /\ Goto(r, "done")
  /\ Forgotten(r)
  /\ UNCHANGED tables

\* The process or its session ends: PostgreSQL rolls back and frees the lock.
Crash(r) ==
  /\ pc[r] \in Holding
  /\ lock' = IF lock = r THEN NULL ELSE lock
  /\ Goto(r, "done")
  /\ Forgotten(r)
  /\ UNCHANGED tables

Next ==
  \E r \in Runner :
    \/ Refuse(r) \/ TryLock(r) \/ TimeOut(r)
    \/ Drop(r) \/ PlanMigrations(r) \/ Apply(r) \/ Validated(r)
    \/ PlanSeeds(r) \/ ApplySeed(r)
    \/ PlanRollback(r) \/ RollBack(r) \/ ClearSeeds(r)
    \/ Finish(r) \/ Fail(r) \/ Unlock(r) \/ Crash(r)

Spec == Init /\ [][Next]_vars
-----------------------------------------------------------------------------
\* Rows have the shape of their table, the migrations with rows are ordered, and
\* the lock is with a runner exactly while it works (withLock).
RunnerTypeOK ==
  /\ schema_migrations \in [Migration -> RowType \cup {NULL}]
  /\ seed_migrations \in [Seed -> RowType \cup {NULL}]
  /\ \A m, n \in Migration :
       <<m, n>> \in newer => m # n /\ Applied(m) /\ Applied(n) /\ <<n, m>> \notin newer
  /\ \A m, n \in Migration :
       m # n /\ Applied(m) /\ Applied(n) => <<m, n>> \in newer \/ <<n, m>> \in newer
  /\ todo \in [Runner -> SUBSET File]
  /\ \A r \in Runner : lock = r <=> pc[r] \in Holding

\* A migration is applied to a database that has every earlier file of its
\* release, each with the same contents, and no other: whatever was rolled back
\* or left unfinished before, by whichever release (applyMigrations).
AppliedInOrder ==
  [][\A m \in Migration :
       ~Applied(m) /\ Applied(m)' =>
         LET r == schema_migrations'[m].by IN
         \A n \in Migration :
           /\ Applied(n) => schema_migrations[n].checksum = Release[r][n]
           /\ Has(r, n) /\ Number[n] < Number[m] => Applied(n)]_vars

\* A seed is applied to a database that has exactly the migrations of its
\* release (seed, and reset with --seed).
SeededOnItsSchema ==
  [][\A s \in Seed :
       ~Seeded(s) /\ Seeded(s)' =>
         LET r == seed_migrations'[s].by IN
         \A m \in Migration :
           /\ Has(r, m) => Applied(m)
           /\ Applied(m) => schema_migrations[m].checksum = Release[r][m]]_vars

\* Rows of one batch were written by one command, although rolled back rows give
\* their numbers free (nextBatch).
BatchIsOneCommand ==
  \A rows \in {schema_migrations, seed_migrations} :
    \A f, g \in DOMAIN rows :
      rows[f] # NULL /\ rows[g] # NULL /\ rows[f].batch = rows[g].batch => rows[f].by = rows[g].by
=============================================================================
