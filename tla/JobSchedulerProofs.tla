------------------------- MODULE JobSchedulerProofs -------------------------
(***************************************************************************)
(* Proofs about JobScheduler for any number of ticks that overlap, fail    *)
(* and outlive their lease, under any identities.                          *)
(*                                                                         *)
(* SchedulerTypeOK holds of every configuration.  LatestOccurrencesEmitted *)
(* does not: it needs a definition that never changes and a scan that is   *)
(* never cut off (OneDefinition, ScanSuffices), which are hypotheses of    *)
(* its theorem.                                                            *)
(***************************************************************************)
EXTENDS JobScheduler, FiniteSetTheorems, WellFoundedInduction, TLAPS

-----------------------------------------------------------------------------
\* Facts about times.

\* A set of naturals has its minimum.
LEMMA MinOfNat ==
  ASSUME NEW S \in SUBSET Nat, S # {}
  PROVE  Min(S) \in S /\ \A u \in S : Min(S) <= u
<1> DEFINE R == {ss \in Nat \X Nat : ss[1] < ss[2]}
<1>0. IsWellFoundedOn(R, Nat)
  BY NatLessThanWellFounded DEF OpToRel
<1>1. PICK x \in S : \A y \in S : ~(<<y, x>> \in R)
  <2> HIDE DEF R
  <2> QED BY <1>0, WFMin
<1>2. ASSUME NEW y \in S PROVE x <= y
  <2>1. y < x => <<y, x>> \in R
    OBVIOUS
  <2> QED BY <1>1, <2>1
<1>3. \E m \in S : \A y \in S : m <= y
  BY <1>2
<1> QED BY <1>3 DEF Min

\* A set of naturals with an upper bound has its maximum.
LEMMA MaxOfNat ==
  ASSUME NEW t \in Nat, NEW S \in SUBSET (0 .. t), S # {}
  PROVE  Max(S) \in S /\ \A u \in S : Max(S) >= u
<1> DEFINE D == {t - u : u \in S}
<1>1. D \in SUBSET Nat /\ D # {}
  <2>1. \A u \in S : t - u \in Nat
    OBVIOUS
  <2> QED BY <2>1
<1>2. Min(D) \in D /\ \A d \in D : Min(D) <= d
  <2> HIDE DEF D
  <2> QED BY <1>1, MinOfNat
<1>3. PICK x \in S : Min(D) = t - x
  BY <1>2
<1>4. \A u \in S : x >= u
  <2> TAKE u \in S
  <2>1. t - x <= t - u
    BY <1>2, <1>3
  <2> QED BY <2>1
<1>5. \E m \in S : \A u \in S : m >= u
  BY <1>4
<1> QED BY <1>5 DEF Max

\* The last n of some times are last among a part of them as well.
LEMMA LatestOfPart ==
  ASSUME NEW n \in Nat, NEW S, IsFiniteSet(S), NEW T \in SUBSET S,
         NEW t \in T, t \in Latest(n, S)
  PROVE  t \in Latest(n, T)
<1> DEFINE A == {u \in S : u > t}
           B == {u \in T : u > t}
<1>1. IsFiniteSet(A) /\ B \in SUBSET A
  BY FS_Subset
<1>2. IsFiniteSet(B) /\ Cardinality(B) <= Cardinality(A)
  BY <1>1, FS_Subset
<1>3. Cardinality(A) \in Nat /\ Cardinality(B) \in Nat /\ Cardinality(A) < n
  BY <1>1, <1>2, FS_CardinalityType DEF Latest
<1>4. Cardinality(B) < n
  <2> HIDE DEF A, B
  <2> QED BY <1>2, <1>3
<1> QED BY <1>4 DEF Latest

\* There are at most n of the last n: the first of them has the others after it.
LEMMA LatestBounded ==
  ASSUME NEW n \in Nat \ {0}, NEW S \in SUBSET Nat, IsFiniteSet(S)
  PROVE  IsFiniteSet(Latest(n, S)) /\ Cardinality(Latest(n, S)) <= n
<1> DEFINE L == Latest(n, S)
<1>1. L \in SUBSET S
  BY DEF Latest
<1>2. IsFiniteSet(L)
  BY <1>1, FS_Subset
<1>3. CASE L = {}
  BY <1>2, <1>3, FS_EmptySet
<1>4. CASE L # {}
  <2> DEFINE m == Min(L)
             A == {u \in S : u > m}
  <2>1. m \in L /\ \A u \in L : m <= u
    BY <1>1, <1>4, MinOfNat
  <2>2. Cardinality(A) < n
    BY <2>1 DEF Latest
  <2>3. IsFiniteSet(A) /\ Cardinality(A) \in Nat
    BY FS_Subset, FS_CardinalityType
  <2>4. L \in SUBSET (A \cup {m})
    <3> SUFFICES ASSUME NEW u \in L PROVE u \in A \cup {m}
      OBVIOUS
    <3>1. u \in S /\ u \in Nat /\ m \in Nat /\ m <= u
      BY <1>1, <2>1
    <3> HIDE DEF L, m
    <3> QED BY <3>1
  <2>5. IsFiniteSet(A \cup {m}) /\ Cardinality(A \cup {m}) <= Cardinality(A) + 1
    <3> HIDE DEF A, m
    <3>1. /\ IsFiniteSet(A \cup {m})
          /\ Cardinality(A \cup {m}) = IF m \in A THEN Cardinality(A) ELSE Cardinality(A) + 1
      BY <2>3, FS_AddElement
    <3> QED BY <2>3, <3>1
  <2>6. Cardinality(L) <= Cardinality(A \cup {m})
    <3> HIDE DEF A, m, L
    <3> QED BY <2>4, <2>5, FS_Subset
  <2>7. Cardinality(L) \in Nat /\ Cardinality(A \cup {m}) \in Nat
    <3> HIDE DEF A, m, L
    <3> QED BY <1>2, <2>5, FS_CardinalityType
  <2>8. Cardinality(L) <= n
    <3> HIDE DEF A, m, L
    <3> QED BY <2>2, <2>3, <2>5, <2>6, <2>7
  <2> QED BY <1>2, <2>8
<1> QED BY <1>3, <1>4

\* The first n of at most n times are all of them.
LEMMA EarliestOfFew ==
  ASSUME NEW n \in Nat, NEW S \in SUBSET Nat, IsFiniteSet(S), Cardinality(S) <= n
  PROVE  Earliest(n, S) = S
<1> SUFFICES ASSUME NEW t \in S PROVE Cardinality({u \in S : u < t}) < n
  BY DEF Earliest
<1> DEFINE A == {u \in S : u < t}
<1>1. A \in SUBSET (S \ {t})
  OBVIOUS
<1>2. IsFiniteSet(S \ {t}) /\ Cardinality(S \ {t}) = Cardinality(S) - 1
  BY FS_RemoveElement
<1>3. IsFiniteSet(A) /\ Cardinality(A) <= Cardinality(S \ {t})
  <2> HIDE DEF A
  <2> QED BY <1>1, <1>2, FS_Subset
<1>4. Cardinality(S) \in Nat /\ Cardinality(A) \in Nat
  <2> HIDE DEF A
  <2> QED BY <1>3, FS_CardinalityType
<1> HIDE DEF A
<1>5. Cardinality(A) < n
  BY <1>2, <1>3, <1>4
<1> QED BY <1>5 DEF A

-----------------------------------------------------------------------------
\* The type invariant, with the shapes of the row and of the ticks that the
\* actions update, and a row that was never due before the first occurrence.
ScheduleRow ==
  [cron : Cron, enabled : BOOLEAN, next_run_at : Nat \ {0},
   last_run_at : Nat \cup {NULL}, locked_by : {IdOf[r] : r \in TickRun} \cup {NULL},
   lease_expires_at : Int \cup {NULL}]

TickRow ==
  [phase : {"emitting"}, cron : Cron, now : Nat, todo : SUBSET Nat, last : Nat]

RowSound ==
  /\ schedule \in ScheduleRow
  /\ \E c \in Cron : schedule.next_run_at \in Occurs[c]
  /\ schedule.last_run_at = NULL \/ schedule.last_run_at \in 1 .. now
  /\ (schedule.locked_by = NULL) <=> (schedule.lease_expires_at = NULL)
  /\ schedule.locked_by # NULL => schedule.lease_expires_at <= now + ScheduleLease

EmittingSound(e) ==
  /\ e \in TickRow
  /\ e.now \in 0 .. now
  /\ e.todo \subseteq Occurs[e.cron] \cap (1 .. e.now)
  /\ Cardinality(e.todo) <= CatchUpLimit
  /\ e.last \in 1 .. e.now

SchedulerInv ==
  /\ now \in 0 .. Horizon
  /\ since \in 0 .. now
  /\ created \subseteq 1 .. now
  /\ RowSound
  /\ tick = [r \in TickRun |-> tick[r]]
  /\ \A r \in TickRun : tick[r] = Idle \/ EmittingSound(tick[r])

\* One registered definition, as long as nobody changes it.
OneDefinition == \A c, d \in Cron : c = d

\* The scan over missed occurrences is never cut off.
ScanSuffices ==
  \A c \in Cron : Cardinality(Occurs[c] \cap (1 .. Horizon)) <= MaxOccurrenceScan

\* The times of a definition that have come by time t.
Past(c, t) == Occurs[c] \cap (1 .. t)

\* What a tick still has to emit is all that is missing of the time it was
\* claimed at: whenever it completes, the row may move past that time.
EmissionInv ==
  /\ since = 0
  /\ LatestOccurrencesEmitted
  /\ \A r \in TickRun : tick[r] # Idle =>
       Latest(CatchUpLimit, Past(tick[r].cron, tick[r].now)) \subseteq created \cup tick[r].todo

-----------------------------------------------------------------------------
\* Facts about the operators of the scheduler.

\* cron-parser's next(): the first occurrence after t.
LEMMA NextOccurrence ==
  ASSUME NEW c \in Cron, NEW t \in 0 .. Horizon
  PROVE  /\ nextOccurrence(c, t) \in Occurs[c] /\ nextOccurrence(c, t) \in Nat \ {0}
         /\ nextOccurrence(c, t) > t
         /\ \A o \in Occurs[c] : o > t => nextOccurrence(c, t) <= o
<1> DEFINE S == {o \in Occurs[c] : o > t}
<1>1. Occurs[c] \in SUBSET Nat /\ t \in Nat
  BY SchedulerAssumption
<1>2. S \in SUBSET Nat /\ S # {}
  BY <1>1, SchedulerAssumption
<1>3. Min(S) \in S /\ \A o \in S : Min(S) <= o
  <2> HIDE DEF S
  <2> QED BY <1>2, MinOfNat
<1>4. nextOccurrence(c, t) = Min(S)
  BY DEF nextOccurrence
<1> HIDE DEF nextOccurrence
<1> QED BY <1>1, <1>3, <1>4

\* The missed occurrences of a row that is due, and those a tick emits.
LEMMA DueOccurrences ==
  ASSUME NEW c \in Cron, NEW first \in Nat \ {0}, NEW t \in Nat
  PROVE  LET due == dueOccurrences(c, first, t) IN
         /\ due \subseteq Past(c, t) /\ due \in SUBSET Nat /\ IsFiniteSet(due)
         /\ Emitted(due) \subseteq Past(c, t)
         /\ IsFiniteSet(Emitted(due)) /\ Cardinality(Emitted(due)) <= CatchUpLimit
<1> DEFINE due == dueOccurrences(c, first, t)
<1>1. Occurs[c] \in SUBSET Nat
  BY SchedulerAssumption
<1>2. due \subseteq Past(c, t) /\ due \in SUBSET Nat /\ due \in SUBSET (1 .. t)
  BY <1>1 DEF dueOccurrences, Earliest, Past
<1>3. IsFiniteSet(due)
  <2> HIDE DEF due
  <2>1. IsFiniteSet(1 .. t)
    BY FS_Interval
  <2> QED BY <1>2, <2>1, FS_Subset
<1> HIDE DEF due
<1>4. Emitted(due) \subseteq due
  BY DEF Emitted, Latest
<1>5. IsFiniteSet(Emitted(due)) /\ Cardinality(Emitted(due)) <= CatchUpLimit
  BY <1>2, <1>3, LatestBounded, SchedulerAssumption DEF Emitted
<1>6. QED
  BY <1>2, <1>3, <1>4, <1>5 DEF due

\* A tick that claims a due row.
LEMMA MaterializeSound ==
  ASSUME SchedulerInv, Due
  PROVE  EmittingSound(Materialize(schedule, now)) /\ Materialize(schedule, now) # Idle
<1> DEFINE c == schedule.cron
           due == dueOccurrences(c, schedule.next_run_at, now)
           e == Materialize(schedule, now)
           last == IF due # {} THEN Max(due)
                   ELSE IF schedule.last_run_at # NULL THEN schedule.last_run_at ELSE now
<1>1. c \in Cron /\ schedule.next_run_at \in Nat \ {0}
  BY DEF SchedulerInv, RowSound, ScheduleRow
<1>2. now \in Nat /\ now >= 1
  BY <1>1, SchedulerAssumption DEF SchedulerInv, Due
<1>3. /\ due \subseteq Past(c, now) /\ due \in SUBSET Nat
      /\ Emitted(due) \subseteq Past(c, now)
      /\ Cardinality(Emitted(due)) <= CatchUpLimit
  <2> HIDE DEF c
  <2> QED BY <1>1, <1>2, DueOccurrences
<1>4. last \in 1 .. now
  <2>1. due \in SUBSET (0 .. now) /\ \A o \in due : o \in 1 .. now
    BY <1>3 DEF Past
  <2>2. CASE due # {}
    <3>1. Max(due) \in due
      <4> HIDE DEF due
      <4> QED BY <1>2, <2>1, <2>2, MaxOfNat
    <3> HIDE DEF due
    <3> QED BY <2>1, <2>2, <3>1
  <2>3. CASE due = {}
    <3> HIDE DEF due
    <3> QED BY <1>2, <2>3 DEF SchedulerInv, RowSound
  <2> QED BY <2>2, <2>3
<1>5. e = [phase |-> "emitting", cron |-> c, now |-> now, todo |-> Emitted(due), last |-> last]
  BY DEF Materialize
<1> HIDE DEF due, last, e
<1>6. Emitted(due) \in SUBSET Nat
  BY <1>2, <1>3 DEF Past
<1>7. EmittingSound(e)
  BY <1>1, <1>2, <1>3, <1>4, <1>5, <1>6 DEF EmittingSound, TickRow, Past
<1>8. e # Idle
  BY <1>5 DEF Idle
<1> QED BY <1>7, <1>8 DEF e

\* What is sound stays so while time passes.
LEMMA EmittingLater ==
  ASSUME NEW e, EmittingSound(e), now \in Nat, now' \in Nat, now <= now'
  PROVE  EmittingSound(e)'
BY DEF EmittingSound

-----------------------------------------------------------------------------
\* Steps.

LEMMA SchedulerInit == Init => SchedulerInv
<1> SUFFICES ASSUME Init PROVE SchedulerInv
  OBVIOUS
<1>1. PICK cron \in Cron :
        schedule = [cron |-> cron, enabled |-> TRUE,
                    next_run_at |-> nextOccurrence(cron, 0), last_run_at |-> NULL,
                    locked_by |-> NULL, lease_expires_at |-> NULL]
  BY DEF Init
<1>2. nextOccurrence(cron, 0) \in Occurs[cron] /\ nextOccurrence(cron, 0) \in Nat \ {0}
  BY NextOccurrence, SchedulerAssumption
<1>3. RowSound
  BY <1>1, <1>2 DEF RowSound, ScheduleRow
<1> QED BY <1>3, SchedulerAssumption DEF Init, SchedulerInv

LEMMA SynchronizeInv ==
  ASSUME SchedulerInv, NEW cron \in Cron, NEW enabled \in BOOLEAN, Synchronize(cron, enabled)
  PROVE  SchedulerInv'
<1>1. /\ nextOccurrence(cron, now) \in Occurs[cron] 
      /\ nextOccurrence(cron, now) \in Nat \ {0}
  BY NextOccurrence DEF SchedulerInv
<1>2. since' \in 0 .. now
  BY SchedulerAssumption DEF Synchronize, SchedulerInv
<1>3. RowSound'
  BY <1>1 DEF Synchronize, SchedulerInv, RowSound, ScheduleRow
<1> QED BY <1>2, <1>3 DEF Synchronize, SchedulerInv, EmittingSound

LEMMA DisableInv == ASSUME SchedulerInv, DisableMissing PROVE SchedulerInv'
<1>1. RowSound'
  BY DEF DisableMissing, SchedulerInv, RowSound, ScheduleRow
<1> QED BY <1>1 DEF DisableMissing, SchedulerInv, EmittingSound

LEMMA ClaimInv == ASSUME SchedulerInv, NEW r \in TickRun, ClaimDue(r) PROVE SchedulerInv'
<1>1. EmittingSound(Materialize(schedule, now))
  BY MaterializeSound DEF ClaimDue
<1>2. now + ScheduleLease \in Int /\ now + ScheduleLease # NULL /\ IdOf[r] # NULL
  BY SchedulerAssumption DEF SchedulerInv
<1>3. RowSound'
  <2>1. schedule \in ScheduleRow
    BY DEF SchedulerInv, RowSound
  <2>2. /\ schedule' = [cron |-> schedule.cron, enabled |-> schedule.enabled,
                        next_run_at |-> schedule.next_run_at,
                        last_run_at |-> schedule.last_run_at,
                        locked_by |-> IdOf[r], lease_expires_at |-> now + ScheduleLease]
        /\ now' = now
    BY <2>1 DEF ClaimDue, ScheduleRow
  <2>3. now + ScheduleLease <= now + ScheduleLease
    BY <1>2
  <2> QED BY <1>2, <2>1, <2>2, <2>3 DEF SchedulerInv, RowSound, ScheduleRow
<1> QED BY <1>1, <1>3 DEF ClaimDue, SchedulerInv, EmittingSound

LEMMA EmitInv == ASSUME SchedulerInv, NEW r \in TickRun, EmitOccurrence(r) PROVE SchedulerInv'
<1> DEFINE e == tick[r]
           planned == Min(e.todo)
           rest == [e EXCEPT !.todo = @ \ {planned}]
<1>1. EmittingSound(e)
  BY DEF EmitOccurrence, SchedulerInv, Idle
<1>2. planned \in e.todo
  BY <1>1, MinOfNat DEF EmittingSound, TickRow, EmitOccurrence
<1>3. EmittingSound(rest)
  <2> HIDE DEF e, planned
  <2>1. IsFiniteSet(e.todo)
    <3>1. IsFiniteSet(1 .. e.now) /\ e.todo \in SUBSET (1 .. e.now)
      BY <1>1, FS_Interval DEF EmittingSound, TickRow
    <3> QED BY <3>1, FS_Subset
  <2>2. Cardinality(e.todo \ {planned}) <= CatchUpLimit
    <3>1. Cardinality(e.todo \ {planned}) <= Cardinality(e.todo)
      BY <2>1, FS_Subset
    <3>2. Cardinality(e.todo) \in Nat /\ Cardinality(e.todo \ {planned}) \in Nat
      BY <2>1, FS_RemoveElement, FS_CardinalityType
    <3> QED BY <1>1, <3>1, <3>2, SchedulerAssumption DEF EmittingSound
  <2>3. rest = [phase |-> "emitting", cron |-> e.cron, now |-> e.now,
                todo |-> e.todo \ {planned}, last |-> e.last]
    BY <1>1 DEF EmittingSound, TickRow
  <2> QED BY <1>1, <2>2, <2>3 DEF EmittingSound, TickRow
<1>4. planned \in 1 .. now
  <2> HIDE DEF planned
  <2> QED BY <1>1, <1>2, SchedulerAssumption DEF EmittingSound, SchedulerInv, TickRow
<1>5. created' = created \cup {planned} /\ tick' = [tick EXCEPT ![r] = rest]
  BY DEF EmitOccurrence
<1>6. UNCHANGED <<schedule, now, since>>
  BY DEF EmitOccurrence
<1> HIDE DEF planned, rest
<1>7. RowSound'
  BY <1>6 DEF SchedulerInv, RowSound, ScheduleRow
<1> QED BY <1>3, <1>4, <1>5, <1>6, <1>7 DEF SchedulerInv, EmittingSound

LEMMA CompleteInv ==
  ASSUME SchedulerInv, NEW r \in TickRun, CompleteSchedule(r)
  PROVE  SchedulerInv'
<1>1. EmittingSound(tick[r])
  BY DEF CompleteSchedule, SchedulerInv, Idle
<1>2. tick[r].cron \in Cron /\ tick[r].now \in 0 .. Horizon
  BY <1>1, SchedulerAssumption DEF EmittingSound, TickRow, SchedulerInv
<1>3. /\ nextOccurrence(tick[r].cron, tick[r].now) \in Occurs[tick[r].cron]
      /\ nextOccurrence(tick[r].cron, tick[r].now) \in Nat \ {0}
  BY <1>2, NextOccurrence
<1>4. tick[r].last \in 1 .. now
  BY <1>1, SchedulerAssumption DEF EmittingSound, TickRow, SchedulerInv
<1>5. RowSound'
  <2> DEFINE next == nextOccurrence(tick[r].cron, tick[r].now)
  <2>1. schedule \in ScheduleRow /\ now' = now
    BY DEF SchedulerInv, RowSound, CompleteSchedule
  <2>2. CASE schedule.locked_by = IdOf[r]
    <3>1. schedule' = [cron |-> schedule.cron, enabled |-> schedule.enabled,
                       next_run_at |-> next, last_run_at |-> tick[r].last,
                       locked_by |-> NULL, lease_expires_at |-> NULL]
      BY <2>1, <2>2 DEF CompleteSchedule, ScheduleRow
    <3>2. tick[r].last \in Nat
      BY <1>4, SchedulerAssumption DEF SchedulerInv
    <3> HIDE DEF next
    <3>3. next \in Occurs[tick[r].cron] /\ next \in Nat \ {0}
      BY <1>3 DEF next
    <3> QED BY <1>2, <1>4, <2>1, <3>1, <3>2, <3>3 DEF RowSound, ScheduleRow
  <2>3. CASE schedule.locked_by # IdOf[r]
    <3>1. schedule' = schedule
      BY <2>3 DEF CompleteSchedule
    <3> QED BY <2>1, <3>1 DEF SchedulerInv, RowSound
  <2> QED BY <2>2, <2>3
<1> QED BY <1>5 DEF CompleteSchedule, SchedulerInv, EmittingSound

LEMMA FailsInv == ASSUME SchedulerInv, NEW r \in TickRun, TickFails(r) PROVE SchedulerInv'
BY DEF TickFails, SchedulerInv, RowSound, EmittingSound

LEMMA PassInv == ASSUME SchedulerInv, Pass PROVE SchedulerInv'
<1>1. now \in Nat /\ now' = now + 1 /\ now' \in 0 .. Horizon
  BY SchedulerAssumption DEF Pass, SchedulerInv
<1>2. RowSound'
  BY <1>1, SchedulerAssumption DEF Pass, SchedulerInv, RowSound, ScheduleRow
<1>3. \A r \in TickRun : tick'[r] = Idle \/ EmittingSound(tick[r])'
  BY <1>1, EmittingLater DEF Pass, SchedulerInv
<1> QED BY <1>1, <1>2, <1>3 DEF Pass, SchedulerInv

LEMMA SchedulerStep == SchedulerInv /\ [Next]_vars => SchedulerInv'
<1> SUFFICES ASSUME SchedulerInv, [Next]_vars PROVE SchedulerInv'
  OBVIOUS
<1>1. ASSUME NEW cron \in Cron, NEW enabled \in BOOLEAN, Synchronize(cron, enabled)
      PROVE  SchedulerInv'
  BY <1>1, SynchronizeInv
<1>2. CASE DisableMissing
  BY <1>2, DisableInv
<1>3. ASSUME NEW r \in TickRun, TickStep(r) \/ TickFails(r) PROVE SchedulerInv'
  BY <1>3, ClaimInv, EmitInv, CompleteInv, FailsInv DEF TickStep
<1>4. CASE Pass
  BY <1>4, PassInv
<1>5. CASE UNCHANGED vars
  BY <1>5 DEF vars, SchedulerInv, RowSound, EmittingSound
<1> QED BY <1>1, <1>2, <1>3, <1>4, <1>5 DEF Next

LEMMA SchedulerTypes == SchedulerInv => SchedulerTypeOK
BY SchedulerAssumption DEF SchedulerInv, RowSound, ScheduleRow, EmittingSound, TickRow, SchedulerTypeOK

\* The invariant of the schedule's row and its ticks holds in every state.
THEOREM SchedulerHolds == Spec => []SchedulerInv
BY SchedulerInit, SchedulerStep, PTL DEF Spec

\* The row and the ticks in progress keep their types, a lock has a lease, and no
\* tick emits more than the catch-up limit or a time that has not come, however
\* many ticks overlap, fail or meet a new definition (claim_due_schedules,
\* materialize).
THEOREM RowAndTicksTyped == Spec => []SchedulerTypeOK
BY SchedulerHolds, SchedulerTypes, PTL

-----------------------------------------------------------------------------
\* No occurrence is passed over.

\* What the row's property says with one definition.
LEMMA BeforeNext ==
  ASSUME since = 0
  PROVE  LatestOccurrencesEmitted <=>
           Latest(CatchUpLimit, {t \in Occurs[schedule.cron] : 0 < t /\ t < schedule.next_run_at})
             \subseteq created
BY DEF LatestOccurrencesEmitted

\* The times before the next occurrence are those that have come.
LEMMA PastOfNext ==
  ASSUME NEW c \in Cron, NEW t \in 0 .. Horizon
  PROVE  {u \in Occurs[c] : 0 < u /\ u < nextOccurrence(c, t)} = Past(c, t)
<1> DEFINE next == nextOccurrence(c, t)
<1>1. next \in Nat /\ next > t /\ \A o \in Occurs[c] : o > t => next <= o
  BY NextOccurrence
<1>2. Occurs[c] \in SUBSET Nat /\ t \in Nat
  BY SchedulerAssumption
<1> HIDE DEF next
<1>3. \A u \in Occurs[c] : 0 < u /\ u < next <=> u \in 1 .. t
  BY <1>1, <1>2
<1> QED BY <1>3 DEF Past, next

\* A tick emits what is missing of the times that have come: an occurrence
\* before the row's next run has its job already, and the others are all due.
LEMMA ClaimCovers ==
  ASSUME SchedulerInv, ScanSuffices, since = 0, LatestOccurrencesEmitted, Due
  PROVE  Latest(CatchUpLimit, Past(schedule.cron, now)) \subseteq
           created \cup Materialize(schedule, now).todo
<1> DEFINE c == schedule.cron
           first == schedule.next_run_at
           S == Past(c, now)
           A == {t \in Occurs[c] : 0 < t /\ t < first}
           D == {o \in Occurs[c] : first <= o /\ o <= now}
<1>1. c \in Cron /\ first \in Nat \ {0}
  BY DEF SchedulerInv, RowSound, ScheduleRow
<1>2. now \in 0 .. Horizon /\ now \in Nat /\ first <= now /\ Horizon \in Nat
  BY SchedulerAssumption DEF SchedulerInv, Due
<1>3. Occurs[c] \in SUBSET Nat
  BY <1>1, SchedulerAssumption
<1> HIDE DEF c, first
<1>4. A \in SUBSET S /\ D \in SUBSET S /\ D \in SUBSET Nat
      /\ S \in SUBSET (1 .. now) /\ S \in SUBSET Past(c, Horizon)
  BY <1>1, <1>2, <1>3 DEF Past
<1>5. IsFiniteSet(S)
  <2> HIDE DEF S
  <2>1. IsFiniteSet(1 .. now)
    BY <1>2, FS_Interval
  <2> QED BY <1>4, <2>1, FS_Subset
<1>6. Earliest(MaxOccurrenceScan, D) = D
  <2>1. IsFiniteSet(Past(c, Horizon)) /\ Cardinality(Past(c, Horizon)) <= MaxOccurrenceScan
    <3>1. IsFiniteSet(1 .. Horizon) /\ Past(c, Horizon) \in SUBSET (1 .. Horizon)
      BY <1>2, FS_Interval DEF Past
    <3> QED BY <1>1, <3>1, FS_Subset DEF ScanSuffices, Past
  <2> HIDE DEF D, S
  <2>2. D \in SUBSET Past(c, Horizon)
    BY <1>4
  <2>3. IsFiniteSet(D) /\ Cardinality(D) <= Cardinality(Past(c, Horizon))
    BY <2>1, <2>2, FS_Subset
  <2>4. Cardinality(D) <= MaxOccurrenceScan
    <3>1. Cardinality(D) \in Nat /\ Cardinality(Past(c, Horizon)) \in Nat
      BY <2>1, <2>3, FS_CardinalityType
    <3> QED BY <2>1, <2>3, <3>1, SchedulerAssumption
  <2> QED BY <1>4, <2>3, <2>4, EarliestOfFew, SchedulerAssumption
<1>7. Materialize(schedule, now).todo = Latest(CatchUpLimit, D)
  <2>1. Materialize(schedule, now).todo = Emitted(dueOccurrences(c, first, now))
    BY DEF Materialize, c, first
  <2>2. dueOccurrences(c, first, now) = D
    BY <1>6 DEF dueOccurrences
  <2> QED BY <2>1, <2>2 DEF Emitted
<1>8. Latest(CatchUpLimit, A) \subseteq created
  BY BeforeNext DEF c, first
<1>9. ASSUME NEW t \in Latest(CatchUpLimit, S)
      PROVE  t \in created \cup Latest(CatchUpLimit, D)
  <2>1. t \in S /\ (t \in A \/ t \in D)
    <3>1. t \in S
      BY <1>9 DEF Latest
    <3>2. t \in Occurs[c] /\ t \in Nat /\ 0 < t /\ t <= now
      BY <1>2, <1>3, <3>1 DEF Past
    <3>3. t < first \/ first <= t
      BY <1>1, <3>2 DEF first
    <3> QED BY <3>1, <3>2, <3>3
  <2> HIDE DEF A, D, S
  <2>2. CASE t \in A
    <3>1. t \in Latest(CatchUpLimit, A)
      BY <1>4, <1>5, <1>9, <2>2, LatestOfPart, SchedulerAssumption
    <3> QED BY <1>8, <3>1
  <2>3. CASE t \in D
    BY <1>4, <1>5, <1>9, <2>3, LatestOfPart, SchedulerAssumption
  <2> QED BY <2>1, <2>2, <2>3
<1> QED BY <1>7, <1>9 DEF c

Emission == SchedulerInv /\ EmissionInv

\* The part of the invariant about one tick.
Covers(r) ==
  tick[r] # Idle =>
    Latest(CatchUpLimit, Past(tick[r].cron, tick[r].now)) \subseteq created \cup tick[r].todo

LEMMA EmissionInit == Init => EmissionInv
<1> SUFFICES ASSUME Init PROVE EmissionInv
  OBVIOUS
<1>1. PICK cron \in Cron :
        schedule.cron = cron /\ schedule.next_run_at = nextOccurrence(cron, 0)
  BY DEF Init
<1>2. 0 \in 0 .. Horizon
  BY SchedulerAssumption
<1>3. {t \in Occurs[cron] : 0 < t /\ t < nextOccurrence(cron, 0)} = Past(cron, 0)
  BY <1>2, PastOfNext
<1>4. Latest(CatchUpLimit, Past(cron, 0)) \subseteq created
  BY DEF Latest, Past
<1>5. LatestOccurrencesEmitted
  BY <1>1, <1>3, <1>4, BeforeNext DEF Init
<1> QED BY <1>5 DEF Init, EmissionInv

\* A step that leaves the row's definition and next run alone.
LEMMA SameNext ==
  ASSUME EmissionInv, schedule'.cron = schedule.cron,
         schedule'.next_run_at = schedule.next_run_at, since' = since,
         created \subseteq created', \A r \in TickRun : Covers(r)'
  PROVE  EmissionInv'
BY DEF EmissionInv, LatestOccurrencesEmitted, Covers

LEMMA EmissionStep ==
  ASSUME OneDefinition, ScanSuffices
  PROVE  Emission /\ [Next]_vars => Emission'
<1> SUFFICES ASSUME Emission, [Next]_vars PROVE EmissionInv'
  BY SchedulerStep DEF Emission
<1>0. SchedulerInv /\ EmissionInv /\ schedule \in ScheduleRow /\ \A r \in TickRun : Covers(r)
  BY DEF Emission, SchedulerInv, RowSound, EmissionInv, Covers
<1>1. ASSUME NEW cron \in Cron, NEW enabled \in BOOLEAN, Synchronize(cron, enabled)
      PROVE  EmissionInv'
  <2>1. schedule.cron = cron
    BY <1>0 DEF OneDefinition, ScheduleRow
  <2>2. /\ schedule'.cron = schedule.cron /\ schedule'.next_run_at = schedule.next_run_at
        /\ UNCHANGED <<tick, created, since>>
    BY <1>0, <1>1, <2>1 DEF Synchronize, ScheduleRow
  <2> QED BY <1>0, <2>2, SameNext DEF Covers
<1>2. CASE DisableMissing
  <2>1. /\ schedule'.cron = schedule.cron /\ schedule'.next_run_at = schedule.next_run_at
        /\ UNCHANGED <<tick, created, since>>
    BY <1>0, <1>2 DEF DisableMissing, ScheduleRow
  <2> QED BY <1>0, <2>1, SameNext DEF Covers
<1>3. ASSUME NEW r \in TickRun, ClaimDue(r) PROVE EmissionInv'
  <2>1. /\ schedule'.cron = schedule.cron /\ schedule'.next_run_at = schedule.next_run_at
        /\ UNCHANGED <<created, since>>
    BY <1>0, <1>3 DEF ClaimDue, ScheduleRow
  <2>2. Latest(CatchUpLimit, Past(schedule.cron, now)) \subseteq
          created \cup Materialize(schedule, now).todo
    BY <1>0, <1>3, ClaimCovers DEF ClaimDue, EmissionInv
  <2>3. Materialize(schedule, now).cron = schedule.cron /\ Materialize(schedule, now).now = now
    BY DEF Materialize
  <2>4. \A i \in TickRun : tick'[i] = tick[i] \/ tick'[i] = Materialize(schedule, now)
    <3> DEFINE e == Materialize(schedule, now)
    <3>1. tick' = [tick EXCEPT ![r] = e] \/ tick' = tick
      BY <1>3 DEF ClaimDue
    <3> HIDE DEF e
    <3>2. DOMAIN tick = TickRun
      BY <1>0 DEF SchedulerInv
    <3>3. ASSUME NEW i \in TickRun PROVE tick'[i] = tick[i] \/ tick'[i] = e
      BY <3>1, <3>2
    <3> QED BY <3>3 DEF e
  <2>5. \A i \in TickRun : Covers(i)'
    BY <1>0, <2>1, <2>2, <2>3, <2>4 DEF Covers
  <2> QED BY <1>0, <2>1, <2>5, SameNext
<1>4. ASSUME NEW r \in TickRun, EmitOccurrence(r) PROVE EmissionInv'
  <2> DEFINE planned == Min(tick[r].todo)
  <2>1. EmittingSound(tick[r]) /\ tick[r] # Idle
    BY <1>0, <1>4 DEF EmitOccurrence, SchedulerInv, Idle
  <2>2. created' = created \cup {planned} /\ UNCHANGED <<schedule, since>>
    BY <1>4 DEF EmitOccurrence
  <2>3. /\ tick'[r].cron = tick[r].cron /\ tick'[r].now = tick[r].now
        /\ tick'[r].todo = tick[r].todo \ {planned}
        /\ \A i \in TickRun : i # r => tick'[i] = tick[i]
    BY <1>0, <1>4, <2>1 DEF EmitOccurrence, SchedulerInv, EmittingSound, TickRow
  <2> HIDE DEF planned
  <2>4. \A i \in TickRun : Covers(i)'
    BY <1>0, <2>1, <2>2, <2>3 DEF Covers
  <2> QED BY <1>0, <2>2, <2>4, SameNext
<1>5. ASSUME NEW r \in TickRun, CompleteSchedule(r) PROVE EmissionInv'
  <2> DEFINE c == tick[r].cron
             t == tick[r].now
  <2>1. EmittingSound(tick[r]) /\ tick[r] # Idle /\ tick[r].todo = {}
    BY <1>0, <1>5 DEF CompleteSchedule, SchedulerInv, Idle
  <2>2. c \in Cron /\ t \in 0 .. Horizon /\ schedule.cron = c
    BY <1>0, <2>1, SchedulerAssumption
       DEF EmittingSound, TickRow, SchedulerInv, OneDefinition, ScheduleRow
  <2>3. /\ UNCHANGED <<created, since>> /\ schedule'.cron = c
        /\ \A i \in TickRun : tick'[i] = tick[i] \/ tick'[i] = Idle
    BY <1>0, <1>5, <2>2 DEF CompleteSchedule, SchedulerInv, ScheduleRow
  <2>4. \A i \in TickRun : Covers(i)'
    BY <1>0, <2>3 DEF Covers
  <2>5. CASE schedule.locked_by = IdOf[r]
    <3>1. schedule'.next_run_at = nextOccurrence(c, t)
      BY <1>0, <1>5, <2>5 DEF CompleteSchedule, ScheduleRow
    <3>2. Latest(CatchUpLimit, Past(c, t)) \subseteq created
      BY <1>0, <2>1 DEF Covers
    <3>3. since' = 0
      BY <1>0, <2>3 DEF EmissionInv
    <3> HIDE DEF c, t
    <3>4. Latest(CatchUpLimit, {u \in Occurs[c] : 0 < u /\ u < nextOccurrence(c, t)})
            \subseteq created
      BY <2>2, <3>2, PastOfNext
    <3>5. LatestOccurrencesEmitted'
      BY <2>3, <3>1, <3>3, <3>4 DEF LatestOccurrencesEmitted
    <3> QED BY <2>4, <3>3, <3>5 DEF EmissionInv, Covers
  <2>6. CASE schedule.locked_by # IdOf[r]
    <3>1. schedule' = schedule
      BY <1>5, <2>6 DEF CompleteSchedule
    <3> QED BY <1>0, <2>3, <2>4, <3>1, SameNext
  <2> QED BY <2>5, <2>6
<1>6. ASSUME NEW r \in TickRun, TickFails(r) PROVE EmissionInv'
  <2>1. UNCHANGED <<schedule, created, since>>
        /\ \A i \in TickRun : tick'[i] = tick[i] \/ tick'[i] = Idle
    BY <1>0, <1>6 DEF TickFails, SchedulerInv
  <2> QED BY <1>0, <2>1, SameNext DEF Covers
<1>7. CASE Pass \/ UNCHANGED vars
  <2>1. UNCHANGED <<schedule, tick, created, since>>
    BY <1>7 DEF Pass, vars
  <2> QED BY <1>0, <2>1, SameNext DEF Covers
<1> QED BY <1>1, <1>2, <1>3, <1>4, <1>5, <1>6, <1>7 DEF Next, TickStep

\* As long as the definition does not change and the scan is not cut off, no job
\* of the latest occurrences is ever missing below the row's next run: ticks may
\* overlap, fail between any two jobs, outlive their lease and complete each
\* other's claims (materialize, complete_job_schedule).  With two definitions it
\* is false.
THEOREM NoOccurrencePassedOver ==
  ASSUME OneDefinition, ScanSuffices
  PROVE  Spec => []LatestOccurrencesEmitted
<1>1. Init => Emission
  BY SchedulerInit, EmissionInit DEF Emission
<1>2. Emission /\ [Next]_vars => Emission'
  BY EmissionStep
<1>3. Emission => LatestOccurrencesEmitted
  BY DEF Emission, EmissionInv
<1> QED BY <1>1, <1>2, <1>3, PTL DEF Spec

=============================================================================
