------------------------ MODULE DatabaseRunnerProofs ------------------------
(***************************************************************************)
(* The properties of DatabaseRunner for any number of commands, releases   *)
(* and files. What a runner found out when it made its plan stays true     *)
(* while it holds the lock: RunnerInv says what that is, phase by phase,   *)
(* and each action is shown to keep it for the runner that acts; nobody    *)
(* else is at work (Others).                                               *)
(***************************************************************************)
EXTENDS DatabaseRunner, TLAPS

VarTypes ==
  /\ lock \in Runner \cup {NULL}
  /\ pc \in [Runner -> Holding \cup {"ready", "done"}]
  /\ command \in [Runner -> Command \cup {NULL}]
  /\ batch \in [Runner -> Nat]

\* Rows that have batch number b are r's.
Own(r, b, rows) == \A f \in DOMAIN rows : rows[f] # NULL /\ rows[f].batch = b => rows[f].by = r

\* Rows of one batch were written by one command.
Whole(rows) ==
  \A f, g \in DOMAIN rows :
    rows[f] # NULL /\ rows[g] # NULL /\ rows[f].batch = rows[g].batch => rows[f].by = rows[g].by

\* Of the migrations r has still to apply: nothing older is missing but what is
\* among them itself, and nothing of the scope is missing but them.
Applying(r) ==
  /\ Agrees(r)
  /\ batch[r] # 0 /\ Own(r, batch[r], schema_migrations)
  /\ \A m \in todo[r] : m \in Migration /\ Has(r, m)
  /\ \A m \in todo[r], n \in Migration :
       Has(r, n) /\ Number[n] < Number[m] => Applied(n) \/ n \in todo[r]
  /\ \A m \in Migration : Has(r, m) /\ InScope(command[r], m) => Applied(m) \/ m \in todo[r]

Seeding(r) ==
  /\ batch[r] # 0 /\ Own(r, batch[r], seed_migrations)
  /\ \A s \in todo[r] : s \in Seed /\ Has(r, s)

Rolling(r) == \A m \in todo[r] : m \in Migration

Plan(r) ==
  /\ pc[r] \in Holding => command[r] \in Command /\ Accepted(command[r])
  /\ pc[r] = "dropped" => command[r].op = "reset"
  /\ pc[r] = "applying" => Applying(r)
  /\ pc[r] \in {"validated", "seeding"} => Agrees(r) /\ Complete(r)
  /\ pc[r] = "seeding" => Seeding(r)
  /\ pc[r] = "rolling" => Rolling(r)

\* What only the tables decide, and what they do not.
RowsOK ==
  /\ schema_migrations \in [Migration -> RowType \cup {NULL}]
  /\ seed_migrations \in [Seed -> RowType \cup {NULL}]
  /\ \A m, n \in Migration :
       <<m, n>> \in newer => m # n /\ Applied(m) /\ Applied(n) /\ <<n, m>> \notin newer
  /\ \A m, n \in Migration :
       m # n /\ Applied(m) /\ Applied(n) => <<m, n>> \in newer \/ <<n, m>> \in newer
  /\ BatchIsOneCommand

WorkOK ==
  /\ VarTypes
  /\ todo \in [Runner -> SUBSET File]
  /\ \A r \in Runner : lock = r <=> pc[r] \in Holding

RunnerInv ==
  /\ RunnerTypeOK
  /\ VarTypes
  /\ BatchIsOneCommand
  /\ \A r \in Runner : Plan(r)
-----------------------------------------------------------------------------
LEMMA Parts == RunnerInv <=> RowsOK /\ WorkOK /\ \A r \in Runner : Plan(r)
BY DEF RunnerInv, RunnerTypeOK, RowsOK, WorkOK

LEMMA PartsNext == RunnerInv' <=> RowsOK' /\ WorkOK' /\ \A r \in Runner : Plan(r)'
BY DEF RunnerInv, RunnerTypeOK, RowsOK, WorkOK

LEMMA RowsKept == RowsOK /\ UNCHANGED tables => RowsOK'
BY DEF RowsOK, tables, BatchIsOneCommand, Applied

\* A runner without the lock has no plan to keep.
LEMMA Idle == \A p \in Runner : pc'[p] \notin Holding => Plan(p)'
BY DEF Plan, Holding

\* While one runner has the lock the others do nothing.
LEMMA Others ==
  ASSUME RunnerInv, NEW r \in Runner, pc[r] \in Holding
  PROVE  lock = r /\ \A p \in Runner \ {r} : pc[p] \notin Holding
BY DEF RunnerInv, RunnerTypeOK

\* A step of the runner that has the lock, and keeps it.
LEMMA Works ==
  ASSUME RunnerInv, NEW r \in Runner, pc[r] \in Holding,
         NEW place \in Holding, pc' = [pc EXCEPT ![r] = place],
         lock' = lock, command' = command,
         batch' \in [Runner -> Nat], todo' \in [Runner -> SUBSET File],
         RowsOK', Plan(r)'
  PROVE  RunnerInv'
<1>1. lock = r /\ \A p \in Runner \ {r} : pc[p] \notin Holding
  BY Others
<1>2. WorkOK
  BY Parts
<1>3. /\ pc' \in [Runner -> Holding \cup {"ready", "done"}]
      /\ pc'[r] \in Holding
      /\ \A p \in Runner \ {r} : pc'[p] = pc[p]
  BY <1>2 DEF WorkOK, VarTypes
<1>4. WorkOK'
  BY <1>1, <1>2, <1>3 DEF WorkOK, VarTypes
<1>5. \A p \in Runner : Plan(p)'
  BY <1>1, <1>3, Idle
<1> QED
  BY <1>4, <1>5, PartsNext

\* A step of the runner that has the lock, and gives it back.
LEMMA Leaves ==
  ASSUME RunnerInv, NEW r \in Runner, pc[r] \in Holding,
         Goto(r, "done"), lock' = NULL, Forgotten(r), UNCHANGED tables
  PROVE  RunnerInv'
<1>1. lock = r /\ \A p \in Runner \ {r} : pc[p] \notin Holding
  BY Others
<1>2. WorkOK /\ RowsOK
  BY Parts
<1>3. /\ pc' \in [Runner -> Holding \cup {"ready", "done"}]
      /\ pc'[r] = "done"
      /\ \A p \in Runner \ {r} : pc'[p] = pc[p]
  BY <1>2 DEF WorkOK, VarTypes, Goto
<1>4. \A p \in Runner : pc'[p] \notin Holding
  BY <1>1, <1>3 DEF Holding
<1>5. command' \in [Runner -> Command \cup {NULL}] /\ batch' \in [Runner -> Nat]
      /\ todo' \in [Runner -> SUBSET File]
  BY <1>2 DEF WorkOK, VarTypes, Forgotten
<1>6. WorkOK'
  BY <1>3, <1>4, <1>5, NullAssumption DEF WorkOK, VarTypes
<1>7. \A p \in Runner : Plan(p)'
  BY <1>4, Idle
<1> QED
  BY <1>2, <1>6, <1>7, PartsNext, RowsKept

\* A runner that gives up without the lock.
LEMMA GivesUp ==
  ASSUME RunnerInv, NEW r \in Runner, At(r, "ready"), Goto(r, "done"),
         UNCHANGED <<tables, lock, command, todo, batch>>
  PROVE  RunnerInv'
<1>1. WorkOK /\ RowsOK /\ \A p \in Runner : Plan(p)
  BY Parts
<1>2. /\ pc' \in [Runner -> Holding \cup {"ready", "done"}]
      /\ pc[r] \notin Holding /\ pc'[r] \notin Holding
      /\ \A p \in Runner \ {r} : pc'[p] = pc[p]
  BY <1>1 DEF WorkOK, VarTypes, Goto, At, Holding
<1>3. WorkOK'
  BY <1>1, <1>2 DEF WorkOK, VarTypes
<1>4. ASSUME NEW p \in Runner, p # r PROVE Plan(p)'
  BY <1>1, <1>2, <1>4 DEF Plan, Applying, Seeding, Rolling, Agrees, Own, Complete, Applied, Has, InScope, tables
<1> QED
  BY <1>1, <1>2, <1>3, <1>4, PartsNext, RowsKept, Idle

LEMMA TryLockInv ==
  ASSUME RunnerInv, NEW r \in Runner, TryLock(r)
  PROVE  RunnerInv'
<1>1. WorkOK /\ RowsOK
  BY Parts
<1>2. \A p \in Runner : pc[p] \notin Holding
  BY <1>1, NullAssumption DEF WorkOK, TryLock
<1>3. PICK c \in Command : Accepted(c) /\ command' = [command EXCEPT ![r] = c]
  BY DEF TryLock
<1>4. /\ pc' \in [Runner -> Holding \cup {"ready", "done"}]
      /\ pc'[r] = "locked"
      /\ \A p \in Runner \ {r} : pc'[p] = pc[p]
  BY <1>1 DEF WorkOK, VarTypes, TryLock, Goto, Holding
<1>5. command' \in [Runner -> Command \cup {NULL}] /\ command'[r] = c
  BY <1>1, <1>3 DEF WorkOK, VarTypes
<1>6. WorkOK'
  BY <1>1, <1>2, <1>4, <1>5 DEF WorkOK, VarTypes, TryLock, Holding
<1>7. Plan(r)'
  BY <1>3, <1>4, <1>5 DEF Plan
<1>8. RowsOK'
  BY <1>1, RowsKept DEF TryLock
<1> QED
  BY <1>2, <1>4, <1>6, <1>7, <1>8, PartsNext, Idle

LEMMA DropInv ==
  ASSUME RunnerInv, NEW r \in Runner, Drop(r)
  PROVE  RunnerInv'
<1>1. WorkOK /\ Plan(r)
  BY Parts
<1>2. pc[r] \in Holding /\ "dropped" \in Holding
  BY DEF Drop, At, Holding
<1>3. RowsOK'
  BY DEF Drop, RowsOK, BatchIsOneCommand, Applied
<1>4. pc'[r] = "dropped"
  BY <1>1 DEF Drop, Goto, WorkOK, VarTypes
<1>5. Plan(r)'
  BY <1>1, <1>2, <1>4 DEF Plan, Drop
<1>6. batch' \in [Runner -> Nat] /\ todo' \in [Runner -> SUBSET File]
  BY <1>1 DEF Drop, WorkOK, VarTypes
<1> QED
  BY <1>2, <1>3, <1>5, <1>6, Works DEF Drop, Goto

\* nextBatch gives a number above zero that no row has.
LEMMA FreshBatch ==
  ASSUME NEW r \in Runner, NEW S, NEW rows \in [S -> RowType \cup {NULL}],
         batch \in [Runner -> Nat], TakeBatch(r, rows)
  PROVE  /\ batch' \in [Runner -> Nat] /\ batch'[r] # 0
         /\ \A f \in S : rows[f] # NULL => rows[f].batch # batch'[r]
<1> DEFINE used == {0} \cup {rows[f].batch : f \in {g \in S : rows[g] # NULL}}
<1>1. \A f \in S : rows[f] # NULL => rows[f].batch \in Nat
  BY DEF RowType
<1>2. used \subseteq Nat
  BY <1>1
<1>3. PICK b \in used : (\A c \in used : c <= b) /\ batch' = [batch EXCEPT ![r] = b + 1]
  BY DEF TakeBatch
<1>4. b \in Nat /\ batch' \in [Runner -> Nat] /\ batch'[r] = b + 1
  BY <1>2, <1>3
<1>5. ASSUME NEW f \in S, rows[f] # NULL PROVE rows[f].batch # b + 1
  <2>1. rows[f].batch \in used
    BY <1>5
  <2> HIDE DEF used
  <2>2. rows[f].batch <= b /\ rows[f].batch \in Nat
    BY <2>1, <1>2, <1>3
  <2> QED
    BY <2>2, <1>4
<1> QED
  BY <1>4, <1>5

LEMMA PlanMigrationsInv ==
  ASSUME RunnerInv, NEW r \in Runner, PlanMigrations(r)
  PROVE  RunnerInv'
<1>1. WorkOK /\ RowsOK /\ Plan(r)
  BY Parts
<1>2. pc[r] \in Holding /\ "applying" \in Holding
  BY DEF PlanMigrations, At, Holding
<1>3. RowsOK'
  BY <1>1, RowsKept DEF PlanMigrations
<1>4. pc'[r] = "applying"
  BY <1>1 DEF PlanMigrations, Goto, WorkOK, VarTypes
<1>5. command[r] \in Command /\ Accepted(command[r])
  BY <1>1, <1>2 DEF Plan
<1>6. /\ batch' \in [Runner -> Nat] /\ batch'[r] # 0
      /\ \A m \in Migration :
           schema_migrations[m] # NULL => schema_migrations[m].batch # batch'[r]
  <2>1. /\ schema_migrations \in [Migration -> RowType \cup {NULL}]
        /\ batch \in [Runner -> Nat] /\ TakeBatch(r, schema_migrations)
    BY <1>1 DEF RowsOK, WorkOK, VarTypes, PlanMigrations
  <2> QED
    BY <2>1, FreshBatch
<1>7. /\ todo' \in [Runner -> SUBSET File]
      /\ todo'[r] = Pending(r, command[r])
  BY <1>1 DEF WorkOK, PlanMigrations, Pending, File
<1>8. Applying(r)'
  <2>1. Agrees(r)'
    BY DEF PlanMigrations, Agrees, Applied, tables
  <2>2. Own(r, batch[r], schema_migrations)'
    BY <1>1, <1>6 DEF Own, PlanMigrations, tables, RowsOK
  <2>3. ASSUME NEW m \in todo'[r], NEW n \in Migration, Has(r, n), Number[n] < Number[m]
        PROVE  Applied(n) \/ n \in todo'[r]
    <3>1. CASE command[r].scope = NULL
      BY <1>7, <2>3, <3>1 DEF Pending, InScope
    <3>2. CASE command[r].scope # NULL
      BY <1>7, <2>3, <3>2 DEF PlanMigrations, DependenciesMet
    <3> QED
      BY <3>1, <3>2
  <2>4. /\ \A m \in todo'[r] : m \in Migration /\ Has(r, m)
        /\ \A m \in Migration : Has(r, m) /\ InScope(command[r], m) => Applied(m) \/ m \in todo'[r]
    BY <1>7 DEF Pending
  <2>5. UNCHANGED <<schema_migrations, command>>
    BY DEF PlanMigrations, tables
  <2> QED
    BY <1>6, <2>1, <2>2, <2>3, <2>4, <2>5 DEF Applying, Applied, InScope, Has
<1>9. Plan(r)'
  BY <1>4, <1>5, <1>8 DEF Plan, PlanMigrations
<1> QED
  BY <1>2, <1>3, <1>6, <1>7, <1>9, Works DEF PlanMigrations, Goto

\* A row with a batch number of its own, or of its own command, keeps batches whole.
LEMMA RowAdded ==
  ASSUME NEW r \in Runner, NEW b, NEW S, NEW f \in S,
         NEW rows \in [S -> RowType \cup {NULL}], Own(r, b, rows), Whole(rows),
         NEW row \in RowType, row.by = r, row.batch = b,
         NEW new \in [S -> RowType \cup {NULL}],
         new[f] = row, \A g \in S : g # f => new[g] = rows[g]
  PROVE  row # NULL /\ Own(r, b, new) /\ Whole(new)
<1>1. row \in RowType /\ row.by = r /\ row.batch = b
  OBVIOUS
<1>2. new \in [S -> RowType \cup {NULL}] /\ new[f] = row /\ \A g \in S : g # f => new[g] = rows[g]
  OBVIOUS
<1>3. row # NULL
  BY <1>1, NullAssumption
<1>4. Own(r, b, new)
  BY <1>1, <1>2 DEF Own
<1>5. ASSUME NEW a \in S, NEW c \in S, new[a] # NULL, new[c] # NULL, new[a].batch = new[c].batch
      PROVE  new[a].by = new[c].by
  <2>1. CASE a = f /\ c = f
    BY <2>1
  <2>2. CASE a = f /\ c # f
    BY <1>1, <1>2, <1>5, <2>2 DEF Own
  <2>3. CASE a # f /\ c = f
    BY <1>1, <1>2, <1>5, <2>3 DEF Own
  <2>4. CASE a # f /\ c # f
    BY <1>2, <1>5, <2>4 DEF Whole
  <2> QED
    BY <2>1, <2>2, <2>3, <2>4
<1>6. Whole(new)
  BY <1>2, <1>5 DEF Whole
<1> QED
  BY <1>3, <1>4, <1>6

LEMMA RowTyped ==
  ASSUME NEW r \in Runner, NEW f \in File, Has(r, f), batch[r] \in Nat, batch[r] # 0
  PROVE  Row(r, f) \in RowType /\ Row(r, f).by = r /\ Row(r, f).batch = batch[r]
<1>1. Release[r][f] \in Checksum
  BY RunnerAssumption DEF Has
<1> QED
  BY <1>1 DEF Row, RowType

LEMMA ApplyInv ==
  ASSUME RunnerInv, NEW r \in Runner, Apply(r)
  PROVE  RunnerInv'
<1>1. WorkOK /\ RowsOK /\ Plan(r)
  BY Parts
<1>2. pc[r] = "applying" /\ pc[r] \in Holding
  BY DEF Apply, At, Holding
<1>3. Applying(r) /\ command[r] \in Command /\ Accepted(command[r])
  BY <1>1, <1>2 DEF Plan
<1>4. PICK m \in todo[r] :
        /\ First(todo[r], m) /\ ~Applied(m)
        /\ schema_migrations' = [schema_migrations EXCEPT ![m] = Row(r, m)]
        /\ newer' = newer \cup {<<m, n>> : n \in {k \in Migration : Applied(k)}}
        /\ todo' = [todo EXCEPT ![r] = @ \ {m}]
  BY DEF Apply
<1>5. m \in Migration /\ m \in File /\ Has(r, m)
  BY <1>3 DEF Applying, File
<1>6. UNCHANGED <<seed_migrations, lock, pc, command, batch>>
  BY DEF Apply
<1>7. /\ schema_migrations' \in [Migration -> RowType \cup {NULL}]
      /\ schema_migrations'[m] # NULL /\ schema_migrations'[m] = Row(r, m)
      /\ \A n \in Migration : n # m => schema_migrations'[n] = schema_migrations[n]
      /\ Own(r, batch[r], schema_migrations') /\ Whole(schema_migrations')
  <2>1. schema_migrations \in [Migration -> RowType \cup {NULL}]
    BY <1>1 DEF RowsOK
  <2>2. batch[r] \in Nat /\ batch[r] # 0 /\ Own(r, batch[r], schema_migrations)
    BY <1>1, <1>3 DEF WorkOK, VarTypes, Applying
  <2>3. Whole(schema_migrations)
    BY <1>1 DEF RowsOK, BatchIsOneCommand, Whole
  <2>4. Row(r, m) \in RowType /\ Row(r, m).by = r /\ Row(r, m).batch = batch[r]
    BY <1>5, <2>2, RowTyped
  <2>5. /\ schema_migrations' \in [Migration -> RowType \cup {NULL}]
        /\ schema_migrations'[m] = Row(r, m)
        /\ \A g \in Migration : g # m => schema_migrations'[g] = schema_migrations[g]
    BY <1>4, <1>5, <2>1, <2>4
  <2>6. /\ Row(r, m) # NULL
        /\ Own(r, batch[r], schema_migrations') /\ Whole(schema_migrations')
    BY <1>5, <2>1, <2>2, <2>3, <2>4, <2>5, RowAdded
  <2> QED
    BY <2>5, <2>6
<1>8. \A n \in Migration : Applied(n)' <=> Applied(n) \/ n = m
  BY <1>4, <1>5, <1>7 DEF Applied
<1>9. RowsOK'
  <2>1. ASSUME NEW a \in Migration, NEW b \in Migration
        PROVE  <<a, b>> \in newer' <=> <<a, b>> \in newer \/ (a = m /\ Applied(b))
    BY <1>4
  <2>2. \A a, b \in Migration :
          (<<a, b>> \in newer => a # b /\ Applied(a) /\ Applied(b) /\ <<b, a>> \notin newer)'
    BY <1>1, <1>4, <1>8, <2>1 DEF RowsOK
  <2>3. \A a, b \in Migration :
          (a # b /\ Applied(a) /\ Applied(b) => <<a, b>> \in newer \/ <<b, a>> \in newer)'
    BY <1>1, <1>8, <2>1 DEF RowsOK
  <2>4. BatchIsOneCommand'
    BY <1>1, <1>6, <1>7 DEF RowsOK, BatchIsOneCommand, Whole
  <2>5. seed_migrations' \in [Seed -> RowType \cup {NULL}]
    BY <1>1, <1>6 DEF RowsOK
  <2> QED
    BY <1>7, <2>2, <2>3, <2>4, <2>5 DEF RowsOK
<1>10. todo' \in [Runner -> SUBSET File] /\ todo'[r] = todo[r] \ {m} /\ batch' \in [Runner -> Nat]
  BY <1>1, <1>4, <1>6 DEF WorkOK, VarTypes
<1>11. Applying(r)'
  <2>1. Agrees(r)'
    BY <1>3, <1>7, <1>8 DEF Applying, Agrees, Applied, Row
  <2>2. \A k \in todo'[r] : k \in Migration /\ Has(r, k)
    BY <1>3, <1>10 DEF Applying
  <2>3. \A k \in todo'[r], n \in Migration :
          Has(r, n) /\ Number[n] < Number[k] => Applied(n)' \/ n \in todo'[r]
    BY <1>3, <1>8, <1>10 DEF Applying
  <2>4. \A k \in Migration : Has(r, k) /\ InScope(command[r], k) => Applied(k)' \/ k \in todo'[r]
    BY <1>3, <1>8, <1>10 DEF Applying
  <2>5. batch'[r] # 0 /\ Own(r, batch[r], schema_migrations)'
    BY <1>3, <1>6, <1>7 DEF Applying, Own
  <2> QED
    BY <1>6, <2>1, <2>2, <2>3, <2>4, <2>5 DEF Applying, Has, InScope
<1>12. Plan(r)'
  BY <1>2, <1>3, <1>6, <1>11 DEF Plan
<1>13. pc' = [pc EXCEPT ![r] = "applying"]
  BY <1>1, <1>2, <1>6 DEF WorkOK, VarTypes
<1> QED
  BY <1>2, <1>6, <1>9, <1>10, <1>12, <1>13, Works DEF Holding

LEMMA ValidatedInv ==
  ASSUME RunnerInv, NEW r \in Runner, Validated(r)
  PROVE  RunnerInv'
<1> DEFINE place == IF command[r].seed THEN "validated" ELSE "ending"
<1>1. WorkOK /\ RowsOK /\ Plan(r)
  BY Parts
<1>2. pc[r] = "applying" /\ pc[r] \in Holding /\ place \in Holding
  BY DEF Validated, At, Holding
<1>3. Applying(r) /\ command[r] \in Command /\ Accepted(command[r])
  BY <1>1, <1>2 DEF Plan
<1>4. pc' = [pc EXCEPT ![r] = place] /\ pc'[r] = place
  BY <1>1 DEF Validated, Goto, WorkOK, VarTypes
<1>5. RowsOK'
  BY <1>1, RowsKept DEF Validated
<1>6. ASSUME command[r].seed PROVE Plan(r)'
  <2>1. command[r].scope = NULL
    BY <1>3, <1>6 DEF Accepted
  <2>2. Agrees(r) /\ Complete(r)
    BY <1>3, <2>1 DEF Validated, Applying, Complete, InScope
  <2>3. (Agrees(r) /\ Complete(r))'
    BY <2>2 DEF Validated, tables, Agrees, Complete, Applied, Has
  <2> QED
    BY <1>3, <1>4, <1>6, <2>3 DEF Plan, Validated
<1>7. ASSUME ~command[r].seed PROVE Plan(r)'
  BY <1>3, <1>4, <1>7 DEF Plan, Validated
<1>8. Plan(r)'
  BY <1>6, <1>7
<1>9. todo' \in [Runner -> SUBSET File] /\ batch' \in [Runner -> Nat]
  BY <1>1 DEF Validated, WorkOK, VarTypes
<1> HIDE DEF place
<1> QED
  BY <1>2, <1>4, <1>5, <1>8, <1>9, Works DEF Validated

LEMMA PlanSeedsInv ==
  ASSUME RunnerInv, NEW r \in Runner, PlanSeeds(r)
  PROVE  RunnerInv'
<1>1. WorkOK /\ RowsOK /\ Plan(r)
  BY Parts
<1>2. pc[r] \in Holding /\ "seeding" \in Holding
  BY DEF PlanSeeds, At, Holding
<1>3. pc' = [pc EXCEPT ![r] = "seeding"] /\ pc'[r] = "seeding"
  BY <1>1 DEF PlanSeeds, Goto, WorkOK, VarTypes
<1>4. RowsOK'
  BY <1>1, RowsKept DEF PlanSeeds
<1>5. Agrees(r) /\ Complete(r)
  BY <1>1 DEF PlanSeeds, Plan, At
<1>6. (Agrees(r) /\ Complete(r))'
  BY <1>5 DEF PlanSeeds, tables, Agrees, Complete, Applied, Has
<1>7. /\ batch' \in [Runner -> Nat] /\ batch'[r] # 0
      /\ \A s \in Seed : seed_migrations[s] # NULL => seed_migrations[s].batch # batch'[r]
  <2>1. /\ seed_migrations \in [Seed -> RowType \cup {NULL}]
        /\ batch \in [Runner -> Nat] /\ TakeBatch(r, seed_migrations)
    BY <1>1 DEF RowsOK, WorkOK, VarTypes, PlanSeeds
  <2> QED
    BY <2>1, FreshBatch
<1>8. todo' \in [Runner -> SUBSET File] /\ todo'[r] = PendingSeeds(r, command[r])
  BY <1>1 DEF WorkOK, PlanSeeds, PendingSeeds, File
<1>9. Seeding(r)'
  <2>1. Own(r, batch[r], seed_migrations)'
    BY <1>1, <1>7 DEF Own, PlanSeeds, tables, RowsOK
  <2> QED
    BY <1>7, <1>8, <2>1 DEF Seeding, PendingSeeds, Has
<1>10. command' = command /\ lock' = lock
  BY DEF PlanSeeds
<1>11. command[r] \in Command /\ Accepted(command[r])
  BY <1>1, <1>2 DEF Plan
<1>12. Plan(r)'
  BY <1>3, <1>6, <1>9, <1>10, <1>11 DEF Plan
<1> QED
  BY <1>2, <1>3, <1>4, <1>7, <1>8, <1>10, <1>12, Works

LEMMA ApplySeedInv ==
  ASSUME RunnerInv, NEW r \in Runner, ApplySeed(r)
  PROVE  RunnerInv'
<1>1. WorkOK /\ RowsOK /\ Plan(r)
  BY Parts
<1>2. pc[r] = "seeding" /\ pc[r] \in Holding
  BY DEF ApplySeed, At, Holding
<1>3. Seeding(r) /\ Agrees(r) /\ Complete(r)
  BY <1>1, <1>2 DEF Plan
<1>4. PICK s \in todo[r] :
        /\ seed_migrations' = [seed_migrations EXCEPT ![s] = Row(r, s)]
        /\ todo' = [todo EXCEPT ![r] = @ \ {s}]
  BY DEF ApplySeed
<1>5. s \in Seed /\ s \in File /\ Has(r, s)
  BY <1>3 DEF Seeding, File
<1>6. UNCHANGED <<schema_migrations, newer, lock, pc, command, batch>>
  BY DEF ApplySeed
<1>7. /\ seed_migrations' \in [Seed -> RowType \cup {NULL}]
      /\ Own(r, batch[r], seed_migrations') /\ Whole(seed_migrations')
  <2>1. seed_migrations \in [Seed -> RowType \cup {NULL}]
    BY <1>1 DEF RowsOK
  <2>2. batch[r] \in Nat /\ batch[r] # 0 /\ Own(r, batch[r], seed_migrations)
    BY <1>1, <1>3 DEF WorkOK, VarTypes, Seeding
  <2>3. Whole(seed_migrations)
    BY <1>1 DEF RowsOK, BatchIsOneCommand, Whole
  <2>4. Row(r, s) \in RowType /\ Row(r, s).by = r /\ Row(r, s).batch = batch[r]
    BY <1>5, <2>2, RowTyped
  <2>5. /\ seed_migrations' \in [Seed -> RowType \cup {NULL}]
        /\ seed_migrations'[s] = Row(r, s)
        /\ \A g \in Seed : g # s => seed_migrations'[g] = seed_migrations[g]
    BY <1>4, <1>5, <2>1, <2>4
  <2>6. /\ Row(r, s) # NULL
        /\ Own(r, batch[r], seed_migrations') /\ Whole(seed_migrations')
    BY <1>5, <2>1, <2>2, <2>3, <2>4, <2>5, RowAdded
  <2> QED
    BY <2>5, <2>6
<1>8. RowsOK'
  BY <1>1, <1>6, <1>7 DEF RowsOK, BatchIsOneCommand, Applied, Whole
<1>9. todo' \in [Runner -> SUBSET File] /\ todo'[r] = todo[r] \ {s} /\ batch' \in [Runner -> Nat]
  BY <1>1, <1>4, <1>6 DEF WorkOK, VarTypes
<1>10. Seeding(r)'
  BY <1>3, <1>6, <1>7, <1>9 DEF Seeding, Own, Has
<1>11. (Agrees(r) /\ Complete(r))'
  BY <1>3, <1>6 DEF Agrees, Complete, Applied, Has
<1>12. Plan(r)'
  BY <1>1, <1>2, <1>6, <1>10, <1>11 DEF Plan
<1>13. pc' = [pc EXCEPT ![r] = "seeding"]
  BY <1>1, <1>2, <1>6 DEF WorkOK, VarTypes
<1> QED
  BY <1>2, <1>6, <1>8, <1>9, <1>12, <1>13, Works DEF Holding

LEMMA PlanRollbackInv ==
  ASSUME RunnerInv, NEW r \in Runner, PlanRollback(r)
  PROVE  RunnerInv'
<1>1. WorkOK /\ RowsOK /\ Plan(r)
  BY Parts
<1>2. pc[r] \in Holding /\ "rolling" \in Holding
  BY DEF PlanRollback, At, Holding
<1>3. pc' = [pc EXCEPT ![r] = "rolling"] /\ pc'[r] = "rolling"
  BY <1>1 DEF PlanRollback, Goto, WorkOK, VarTypes
<1>4. RowsOK'
  BY <1>1, RowsKept DEF PlanRollback
<1>5. todo' \in [Runner -> SUBSET File] /\ todo'[r] = Candidates(command[r])
  BY <1>1 DEF WorkOK, PlanRollback, Candidates, File
<1>6. batch' \in [Runner -> Nat] /\ command' = command /\ lock' = lock
  BY <1>1 DEF WorkOK, VarTypes, PlanRollback
<1>7. command[r] \in Command /\ Accepted(command[r])
  BY <1>1, <1>2 DEF Plan
<1>8. Plan(r)'
  BY <1>3, <1>5, <1>6, <1>7 DEF Plan, Rolling, Candidates
<1> QED
  BY <1>2, <1>3, <1>4, <1>5, <1>6, <1>8, Works

LEMMA RollBackInv ==
  ASSUME RunnerInv, NEW r \in Runner, RollBack(r)
  PROVE  RunnerInv'
<1>1. WorkOK /\ RowsOK /\ Plan(r)
  BY Parts
<1>2. pc[r] = "rolling" /\ pc[r] \in Holding
  BY DEF RollBack, At, Holding
<1>3. PICK m \in todo[r] :
        /\ schema_migrations' = [schema_migrations EXCEPT ![m] = NULL]
        /\ newer' = {p \in newer : m \notin {p[1], p[2]}}
        /\ todo' = [todo EXCEPT ![r] = @ \ {m}]
  BY DEF RollBack
<1>4. UNCHANGED <<seed_migrations, lock, pc, command, batch>>
  BY DEF RollBack
<1>5. m \in Migration
  BY <1>1, <1>2 DEF Plan, Rolling
<1>6. /\ schema_migrations' \in [Migration -> RowType \cup {NULL}]
      /\ schema_migrations'[m] = NULL
      /\ \A n \in Migration : n # m => schema_migrations'[n] = schema_migrations[n]
  BY <1>1, <1>3, <1>5 DEF RowsOK
<1>7. RowsOK'
  <2>1. \A a, b \in Migration : <<a, b>> \in newer' <=> <<a, b>> \in newer /\ a # m /\ b # m
    BY <1>3
  <2>2. \A a, b \in Migration :
          (<<a, b>> \in newer => a # b /\ Applied(a) /\ Applied(b) /\ <<b, a>> \notin newer)'
    BY <1>1, <1>6, <2>1 DEF RowsOK, Applied
  <2>3. \A a, b \in Migration :
          (a # b /\ Applied(a) /\ Applied(b) => <<a, b>> \in newer \/ <<b, a>> \in newer)'
    BY <1>1, <1>6, <2>1 DEF RowsOK, Applied
  <2>4. Whole(schema_migrations')
    BY <1>1, <1>6 DEF RowsOK, BatchIsOneCommand, Whole
  <2>5. BatchIsOneCommand'
    BY <1>1, <1>4, <2>4 DEF RowsOK, BatchIsOneCommand, Whole
  <2> QED
    BY <1>1, <1>4, <1>6, <2>2, <2>3, <2>5 DEF RowsOK
<1>8. todo' \in [Runner -> SUBSET File] /\ todo'[r] = todo[r] \ {m} /\ batch' \in [Runner -> Nat]
  BY <1>1, <1>3, <1>4 DEF WorkOK, VarTypes
<1>9. Plan(r)'
  BY <1>1, <1>2, <1>4, <1>8 DEF Plan, Rolling
<1>10. pc' = [pc EXCEPT ![r] = "rolling"]
  BY <1>1, <1>2, <1>4 DEF WorkOK, VarTypes
<1> QED
  BY <1>2, <1>4, <1>7, <1>8, <1>9, <1>10, Works DEF Holding

\* The last phase has no plan but to give the lock back.
LEMMA Ends ==
  ASSUME RunnerInv, NEW r \in Runner, pc[r] \in Holding, Goto(r, "ending"),
         UNCHANGED <<lock, command, todo, batch>>, RowsOK'
  PROVE  RunnerInv'
<1>1. WorkOK /\ Plan(r)
  BY Parts
<1>2. "ending" \in Holding
  BY DEF Holding
<1>3. pc'[r] = "ending"
  BY <1>1 DEF Goto, WorkOK, VarTypes
<1>4. todo' \in [Runner -> SUBSET File] /\ batch' \in [Runner -> Nat]
  BY <1>1 DEF WorkOK, VarTypes
<1>5. Plan(r)'
  BY <1>1, <1>3 DEF Plan
<1> QED
  BY <1>2, <1>4, <1>5, Works DEF Goto

LEMMA ClearSeedsInv ==
  ASSUME RunnerInv, NEW r \in Runner, ClearSeeds(r)
  PROVE  RunnerInv'
<1>1. RowsOK /\ pc[r] \in Holding
  BY Parts DEF ClearSeeds, At, Holding
<1>2. /\ seed_migrations' \in [Seed -> RowType \cup {NULL}]
      /\ \A s \in Seed : seed_migrations'[s] \in {seed_migrations[s], NULL}
  BY <1>1 DEF RowsOK, ClearSeeds
<1>3. Whole(seed_migrations')
  BY <1>1, <1>2 DEF RowsOK, BatchIsOneCommand, Whole
<1>4. UNCHANGED <<schema_migrations, newer>>
  BY DEF ClearSeeds
<1>5. BatchIsOneCommand'
  BY <1>1, <1>3, <1>4 DEF RowsOK, BatchIsOneCommand, Whole
<1>6. RowsOK'
  BY <1>1, <1>2, <1>4, <1>5 DEF RowsOK, Applied
<1> QED
  BY <1>1, <1>6, Ends DEF ClearSeeds
-----------------------------------------------------------------------------
LEMMA StepInv == RunnerInv /\ [Next]_vars => RunnerInv'
<1> SUFFICES ASSUME RunnerInv, [Next]_vars PROVE RunnerInv'
  OBVIOUS
<1>1. ASSUME NEW r \in Runner, Refuse(r) \/ TimeOut(r) PROVE RunnerInv'
  BY <1>1, GivesUp DEF Refuse, TimeOut
<1>2. ASSUME NEW r \in Runner, Finish(r) \/ Fail(r) PROVE RunnerInv'
  <2>1. /\ pc[r] \in Holding /\ Goto(r, "ending")
        /\ UNCHANGED <<tables, lock, command, todo, batch>>
    BY <1>2 DEF Finish, Fail, Holding
  <2>2. RowsOK'
    BY <2>1, Parts, RowsKept
  <2> QED
    BY <2>1, <2>2, Ends
<1>3. ASSUME NEW r \in Runner, Unlock(r) \/ Crash(r) PROVE RunnerInv'
  <2>1. pc[r] \in Holding /\ Goto(r, "done") /\ Forgotten(r) /\ UNCHANGED tables
    BY <1>3 DEF Unlock, Crash, At, Holding
  <2>2. lock' = NULL
    BY <1>3, <2>1, Others DEF Unlock, Crash
  <2> QED
    BY <2>1, <2>2, Leaves
<1>4. CASE UNCHANGED vars
  BY <1>4 DEF vars, tables, RunnerInv, RunnerTypeOK, VarTypes, BatchIsOneCommand, Plan, Applying,
     Seeding, Rolling, Agrees, Own, Complete, Applied, Has, InScope
<1> QED
  BY <1>1, <1>2, <1>3, <1>4, TryLockInv, DropInv, PlanMigrationsInv, ApplyInv, ValidatedInv,
     PlanSeedsInv, ApplySeedInv, PlanRollbackInv, RollBackInv, ClearSeedsInv DEF Next

LEMMA InitInv == Init => RunnerInv
BY NullAssumption DEF Init, RunnerInv, RunnerTypeOK, VarTypes, BatchIsOneCommand, Plan, Holding, Applied

\* What the runner that works has found out still holds, whatever ran before.
THEOREM RunnerHolds == Spec => []RunnerInv
BY InitInv, StepInv, PTL DEF Spec

\* Rows have their shape, applied migrations are ordered, and the lock is held
\* exactly while a runner works (withLock).
THEOREM RunnerTypes == Spec => []RunnerTypeOK
<1>1. RunnerInv => RunnerTypeOK
  BY DEF RunnerInv
<1> QED
  BY <1>1, RunnerHolds, PTL

\* A batch is the work of one command (nextBatch).
THEOREM BatchesHold == Spec => []BatchIsOneCommand
<1>1. RunnerInv => BatchIsOneCommand
  BY DEF RunnerInv
<1> QED
  BY <1>1, RunnerHolds, PTL

\* The steps that change no migration's row.
LEMMA MigrationsKept ==
  ASSUME NEW r \in Runner,
         \/ Refuse(r) \/ TryLock(r) \/ TimeOut(r) \/ PlanMigrations(r) \/ Validated(r)
         \/ PlanSeeds(r) \/ ApplySeed(r) \/ PlanRollback(r) \/ ClearSeeds(r)
         \/ Finish(r) \/ Fail(r) \/ Unlock(r) \/ Crash(r)
  PROVE  UNCHANGED schema_migrations
BY DEF Refuse, TryLock, TimeOut, PlanMigrations, Validated, PlanSeeds, ApplySeed, PlanRollback,
   ClearSeeds, Finish, Fail, Unlock, Crash, tables

\* A migration is applied on top of the earlier files of its release and of
\* nothing else (applyMigrations).
THEOREM MigrationsInOrder == Spec => AppliedInOrder
<1> DEFINE Ordered ==
      \A m \in Migration :
        ~Applied(m) /\ Applied(m)' =>
          LET r == schema_migrations'[m].by IN
          \A n \in Migration :
            /\ Applied(n) => schema_migrations[n].checksum = Release[r][n]
            /\ Has(r, n) /\ Number[n] < Number[m] => Applied(n)
<1>1. ASSUME RunnerInv, NEW r \in Runner, Apply(r) PROVE Ordered
  <2>1. Applying(r) /\ schema_migrations \in [Migration -> RowType \cup {NULL}]
    BY <1>1 DEF RunnerInv, RunnerTypeOK, Plan, Apply, At
  <2>2. PICK m \in todo[r] :
          First(todo[r], m) /\ schema_migrations' = [schema_migrations EXCEPT ![m] = Row(r, m)]
    BY <1>1 DEF Apply
  <2>3. /\ m \in Migration /\ schema_migrations'[m] = Row(r, m) /\ Row(r, m).by = r
        /\ \A n \in Migration : n # m => schema_migrations'[n] = schema_migrations[n]
    BY <2>1, <2>2 DEF Applying, Row
  <2>4. \A n \in Migration : Applied(n) => schema_migrations[n].checksum = Release[r][n]
    BY <2>1 DEF Applying, Agrees
  <2>5. ASSUME NEW n \in Migration, Has(r, n), Number[n] < Number[m] PROVE Applied(n)
    <3>1. Number[n] \in Nat /\ Number[m] \in Nat
      BY <2>3, RunnerAssumption DEF File
    <3>2. n \notin todo[r]
      BY <2>2, <2>5, <3>1 DEF First
    <3> QED
      BY <2>1, <2>5, <3>2 DEF Applying
  <2>6. \A k \in Migration : ~Applied(k) /\ Applied(k)' => k = m
    BY <2>3 DEF Applied
  <2> QED
    BY <2>3, <2>4, <2>5, <2>6
<1>2. ASSUME NEW r \in Runner, Drop(r) PROVE Ordered
  BY <1>2 DEF Drop, Applied
<1>3. ASSUME RunnerInv, NEW r \in Runner, RollBack(r) PROVE Ordered
  <2>1. \A k \in Migration : schema_migrations'[k] \in {schema_migrations[k], NULL}
    BY <1>3 DEF RunnerInv, RunnerTypeOK, RollBack
  <2> QED
    BY <2>1 DEF Applied
<1>4. UNCHANGED schema_migrations => Ordered
  BY DEF Applied
<1>5. UNCHANGED vars => UNCHANGED schema_migrations
  BY DEF vars, tables
<1> HIDE DEF Ordered
<1>6. RunnerInv /\ [Next]_vars => Ordered
  BY <1>1, <1>2, <1>3, <1>4, <1>5, MigrationsKept DEF Next
<1>7. RunnerInv /\ [Next]_vars => [Ordered]_vars
  BY <1>6
<1>8. Spec => [][Ordered]_vars
  BY <1>7, RunnerHolds, PTL DEF Spec
<1> QED
  BY <1>8 DEF Ordered, AppliedInOrder

\* The steps that change no seed's row.
LEMMA SeedsKept ==
  ASSUME NEW r \in Runner,
         \/ Refuse(r) \/ TryLock(r) \/ TimeOut(r) \/ PlanMigrations(r) \/ Apply(r) \/ Validated(r)
         \/ PlanSeeds(r) \/ PlanRollback(r) \/ RollBack(r)
         \/ Finish(r) \/ Fail(r) \/ Unlock(r) \/ Crash(r)
  PROVE  UNCHANGED seed_migrations
BY DEF Refuse, TryLock, TimeOut, PlanMigrations, Apply, Validated, PlanSeeds, PlanRollback, RollBack,
   Finish, Fail, Unlock, Crash, tables

\* A seed is applied to exactly the schema of its release: what the runner found
\* before its plan, or by migrating, still holds at each seed (applySeeds).
THEOREM SeedsOnSchema == Spec => SeededOnItsSchema
<1> DEFINE OnSchema ==
      \A s \in Seed :
        ~Seeded(s) /\ Seeded(s)' =>
          LET r == seed_migrations'[s].by IN
          \A m \in Migration :
            /\ Has(r, m) => Applied(m)
            /\ Applied(m) => schema_migrations[m].checksum = Release[r][m]
<1>1. ASSUME RunnerInv, NEW r \in Runner, ApplySeed(r) PROVE OnSchema
  <2>1. Seeding(r) /\ Agrees(r) /\ Complete(r) /\ seed_migrations \in [Seed -> RowType \cup {NULL}]
    BY <1>1 DEF RunnerInv, RunnerTypeOK, Plan, ApplySeed, At
  <2>2. PICK s \in todo[r] : seed_migrations' = [seed_migrations EXCEPT ![s] = Row(r, s)]
    BY <1>1 DEF ApplySeed
  <2>3. /\ s \in Seed /\ seed_migrations'[s] = Row(r, s) /\ Row(r, s).by = r
        /\ \A k \in Seed : k # s => seed_migrations'[k] = seed_migrations[k]
    BY <2>1, <2>2 DEF Seeding, Row
  <2>4. \A k \in Seed : ~Seeded(k) /\ Seeded(k)' => k = s
    BY <2>3 DEF Seeded
  <2> QED
    BY <2>1, <2>3, <2>4 DEF Agrees, Complete
<1>2. ASSUME NEW r \in Runner, Drop(r) PROVE OnSchema
  BY <1>2 DEF Drop, Seeded
<1>3. ASSUME RunnerInv, NEW r \in Runner, ClearSeeds(r) PROVE OnSchema
  <2>1. \A k \in Seed : seed_migrations'[k] \in {seed_migrations[k], NULL}
    BY <1>3 DEF ClearSeeds
  <2> QED
    BY <2>1 DEF Seeded
<1>4. UNCHANGED seed_migrations => OnSchema
  BY DEF Seeded
<1>5. UNCHANGED vars => UNCHANGED seed_migrations
  BY DEF vars, tables
<1> HIDE DEF OnSchema
<1>6. RunnerInv /\ [Next]_vars => OnSchema
  BY <1>1, <1>2, <1>3, <1>4, <1>5, SeedsKept DEF Next
<1>7. RunnerInv /\ [Next]_vars => [OnSchema]_vars
  BY <1>6
<1>8. Spec => [][OnSchema]_vars
  BY <1>7, RunnerHolds, PTL DEF Spec
<1> QED
  BY <1>8 DEF OnSchema, SeededOnItsSchema
=============================================================================
