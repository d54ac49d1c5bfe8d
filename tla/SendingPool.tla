----------------------------- MODULE SendingPool -----------------------------
(***************************************************************************)
(* The Pool: the table sending_pool_emails and the statements that          *)
(* internal/db/pool.sql.go runs on it for the Delivery repository           *)
(* (internal/db/delivery_repo.go) and the Claimer (internal/pool/pool.go).  *)
(* Every action is one SQL statement, which Postgres makes atomic; the      *)
(* components that compose several of them extend this module.              *)
(*                                                                          *)
(* A row is named by its serial id.  The statements that claim and reclaim  *)
(* pick rows by id; all the others address them by the pair (message_id,    *)
(* email), KeyOf[r] here, which a unique index of the schema keeps apart.   *)
(*                                                                          *)
(* Time.  What the statements compare with NOW() are two distances: how     *)
(* far the clock is past the row's original_scheduled_time (elapsed[r],     *)
(* negative before it) and how old the row's claim is (pool[r].age).        *)
(* scheduled_time is stored as its distance from original_scheduled_time.   *)
(* Kept this way, unbounded time has finitely many states: elapsed stops    *)
(* at Horizon, past every retry instant, and age at AgeCap, past every      *)
(* threshold.                                                               *)
(***************************************************************************)
EXTENDS RetryBudget, DeliveryKey, FiniteSets

CONSTANTS
  Rows,            \* serial ids
  KeyOf,           \* the pair each row carries
  MaxAttempts,     \* bound: where send_attempts_cnt stops counting
  MaxLead,         \* bound: how far ahead a Batch may ask to be sent
  Horizon,         \* bound: where elapsed stops counting
  PageSize,        \* LIMIT of the claiming and reclaiming statements
  SendStrand,      \* sendingStrandThreshold (1 hour)
  ValidateStrand   \* validatingStrandThreshold (5 minutes)

ASSUME PoolAssumption ==
  /\ KeyOf \in [Rows -> Keys]
  /\ MaxAttempts \in Nat
  /\ MaxAttempts + 2 <= Width   \* Pow2[MaxAttempts] itself does not overflow
  /\ MaxLead \in Nat
  /\ Horizon \in Nat
  /\ \A a \in 0..MaxAttempts : Delay(a) <= Horizon
  /\ PageSize \in Nat \ {0}
  /\ SendStrand \in Nat
  /\ ValidateStrand \in Nat

VARIABLES
  pool,      \* the table, by row id
  elapsed    \* NOW() - original_scheduled_time, by row id

poolVars == <<pool, elapsed>>

-----------------------------------------------------------------------------
InFlight == {"validating", "sending"}
Stored   == {"to_validate", "scheduled"} \cup InFlight
Status   == {"absent", "deleted"} \cup Stored

Unclaimed == -1                      \* claimed_at IS NULL
AgeCap    == 1 + (IF SendStrand < ValidateStrand THEN ValidateStrand ELSE SendStrand)

Row(s, o, n, a) == [status |-> s, offset |-> o, attempts |-> n, age |-> a]
NoRow(s)        == Row(s, 0, 0, Unclaimed)

InPool(r)  == pool[r].status \in Stored
RowsOf(k)  == {r \in Rows : InPool(r) /\ KeyOf[r] = k}
Bump(n)    == IF n < MaxAttempts THEN n + 1 ELSE n

(* An UPDATE of the rows R.                                                *)
Update(R, New(_)) == pool' = [r \in Rows |-> IF r \in R THEN New(pool[r]) ELSE pool[r]]

(* Any page a claiming statement may return: a non-empty part of what its  *)
(* WHERE clause selects (SKIP LOCKED), no larger than its LIMIT.           *)
Pages(R) == {S \in SUBSET R : S # {} /\ Cardinality(S) <= PageSize}

-----------------------------------------------------------------------------
(* Repository.Schedule: one CreatePool (COPY) inserts the Deliveries of a  *)
(* Batch, all or none, scheduled lead from now.  A Batch that names an     *)
(* address twice is refused by the unique index; its message_id is new, so *)
(* a pair that was stored once never comes again.                          *)
CreatePool(R, lead) ==
  /\ R # {}
  /\ \A r \in R : pool[r].status = "absent"
  /\ \A r \in R, s \in Rows : s # r /\ KeyOf[s] = KeyOf[r] =>
       s \notin R /\ pool[s].status = "absent"
  /\ Update(R, LAMBDA old : Row("to_validate", 0, 0, Unclaimed))
  /\ elapsed' = [r \in Rows |-> IF r \in R THEN -lead ELSE elapsed[r]]

ToValidate == {r \in Rows : pool[r].status = "to_validate"}

PrepareForValidate(R) ==
  /\ R \in Pages(ToValidate)
  /\ Update(R, LAMBDA old : [old EXCEPT !.status = "validating", !.age = 0])
  /\ UNCHANGED elapsed

Due == {r \in Rows : pool[r].status = "scheduled" /\ pool[r].offset <= elapsed[r]}

(* Mutant: the claim is not stamped.                                       *)
PrepareForSendUnstamped(R) ==
  /\ R \in Pages(Due)
  /\ Update(R, LAMBDA old : [old EXCEPT !.status = "sending"])
  /\ UNCHANGED elapsed

PrepareForSend(R) ==
  /\ R \in Pages(Due)
  /\ Update(R, LAMBDA old : [old EXCEPT !.status = "sending", !.age = 0])
  /\ UNCHANGED elapsed

(* No condition on the status: whatever rows carry the key are scheduled.  *)
SetSendingPoolScheduled(k) ==
  /\ Update(RowsOf(k), LAMBDA old : [old EXCEPT !.status = "scheduled"])
  /\ UNCHANGED elapsed

(* Mutant: the retry is counted from now, not from the original instant.   *)
RescheduleFromNow(k, next) ==
  /\ pool' = [r \in Rows |-> IF r \in RowsOf(k)
       THEN [pool[r] EXCEPT !.status = "scheduled", !.offset = elapsed[r] + next,
                            !.attempts = Bump(@)]
       ELSE pool[r]]
  /\ UNCHANGED elapsed

(* Mutant: the tally is written, not raised.                               *)
RescheduleAfresh(k, next) ==
  /\ Update(RowsOf(k), LAMBDA old :
       [old EXCEPT !.status = "scheduled", !.offset = next, !.attempts = 1])
  /\ UNCHANGED elapsed

(* The new scheduled_time is an argument, computed before the statement.   *)
ReschedulePool(k, next) ==
  /\ Update(RowsOf(k), LAMBDA old :
       [old EXCEPT !.status = "scheduled", !.offset = next, !.attempts = Bump(@)])
  /\ UNCHANGED elapsed

(* Mutant: every row is deleted, whatever key it carries.                  *)
CleanAll(k) ==
  /\ Update({r \in Rows : InPool(r)}, LAMBDA old : NoRow("deleted"))
  /\ elapsed' = [r \in Rows |-> IF InPool(r) THEN 0 ELSE elapsed[r]]

(* No condition on the status here either.  Of a deleted row neither the   *)
(* columns nor the clock are kept.                                         *)
CleanPool(k) ==
  /\ Update(RowsOf(k), LAMBDA old : NoRow("deleted"))
  /\ elapsed' = [r \in Rows |-> IF r \in RowsOf(k) THEN 0 ELSE elapsed[r]]

(* Mutant: a reclaimed dispatch costs no attempt.                          *)
ReclaimForFree(from) ==
  IF from = "sending" THEN [to |-> "scheduled",   bump |-> FALSE, than |-> SendStrand]
                      ELSE [to |-> "to_validate", bump |-> FALSE, than |-> ValidateStrand]

(* reclaimTargets: where a claim goes back to, and whether it costs an     *)
(* attempt.                                                                *)
ReclaimTarget(from) ==
  IF from = "sending" THEN [to |-> "scheduled",   bump |-> TRUE,  than |-> SendStrand]
                      ELSE [to |-> "to_validate", bump |-> FALSE, than |-> ValidateStrand]

Stranded(from) ==
  {r \in Rows : pool[r].status = from /\ pool[r].age > ReclaimTarget(from).than}

ReclaimStranded(from) ==
  /\ \E R \in Pages(Stranded(from)) :
       Update(R, LAMBDA old :
         [old EXCEPT !.status   = ReclaimTarget(from).to,
                     !.age      = Unclaimed,
                     !.attempts = IF ReclaimTarget(from).bump THEN Bump(@) ELSE @])
  /\ UNCHANGED elapsed

(* The clock moves on by one unit.                                         *)
Older(age) == IF age = Unclaimed \/ age = AgeCap THEN age ELSE age + 1

PoolTick ==
  /\ Update({r \in Rows : InPool(r)}, LAMBDA old : [old EXCEPT !.age = Older(@)])
  /\ elapsed' = [r \in Rows |->
       IF InPool(r) /\ elapsed[r] < Horizon THEN elapsed[r] + 1 ELSE elapsed[r]]

-----------------------------------------------------------------------------
PoolInit ==
  /\ pool = [r \in Rows |-> NoRow("absent")]
  /\ elapsed = [r \in Rows |-> 0]

(* The table under clients that issue any statement at any time, with any  *)
(* scheduled_time the table has room for: the Dispatcher computes it from  *)
(* an earlier reading of the row.                                          *)
PoolNext ==
  \/ \E R \in SUBSET Rows, lead \in 0..MaxLead : CreatePool(R, lead)
  \/ \E R \in SUBSET Rows : PrepareForValidate(R)
  \/ \E R \in SUBSET Rows : PrepareForSend(R)
  \/ \E k \in Keys : SetSendingPoolScheduled(k)
  \/ \E k \in Keys, next \in 0..Horizon : ReschedulePool(k, next)
  \/ \E k \in Keys : CleanPool(k)
  \/ \E from \in InFlight : ReclaimStranded(from)
  \/ PoolTick

PoolSpec == PoolInit /\ [][PoolNext]_poolVars

-----------------------------------------------------------------------------
(* The table holds rows and clocks of their types.                         *)
PoolTypeOK ==
  /\ pool \in [Rows -> [status   : Status,
                        offset   : 0..Horizon,
                        attempts : 0..MaxAttempts,
                        age      : (0..AgeCap) \cup {Unclaimed}]]
  /\ elapsed \in [Rows -> (-MaxLead)..Horizon]

(* A row in an in-flight status always carries the instant of its claim.   *)
(* ReclaimStranded compares claimed_at with NOW() - threshold, which is    *)
(* never true of NULL: a row in flight without it would be stranded for    *)
(* ever, however long its worker is gone.                                  *)
InFlightIsStamped ==
  \A r \in Rows : pool[r].status \in InFlight => pool[r].age # Unclaimed

(* Whatever statement runs, a row that stays in the Pool keeps its attempt *)
(* tally or raises it: the back-off never restarts.                        *)
TallyNeverDrops ==
  [][\A r \in Rows : InPool(r) /\ InPool(r)' => pool'[r].attempts >= pool[r].attempts]_poolVars

=============================================================================
