------------------------------- MODULE Pipeline -------------------------------
(***************************************************************************)
(* The life of a Delivery from intake to its terminal outcome: the Mailer   *)
(* API inserts rows, the Validator passes or rejects them, the Dispatcher   *)
(* turns them into Envelopes, the SMTPSender sends these and reports, and   *)
(* the Dispatcher applies what is reported to the rows.                     *)
(***************************************************************************)
EXTENDS Validator, Dispatcher, SMTPSender

vars == <<poolVars, streamVars, validatorVars, dispatcherVars>>

-----------------------------------------------------------------------------
(* The Mailer API: one call inserts the rows of one Batch.                 *)
Intake ==
  /\ \E R \in SUBSET Rows, lead \in 0..MaxLead : CreatePool(R, lead)
  /\ UNCHANGED <<streamVars, validatorVars, dispatcherVars>>

Tick ==
  /\ PoolTick
  /\ ValidatorTick
  /\ SenderTick
  /\ UNCHANGED <<sending, outstanding, stats, published, faults, dispatcherVars>>

Validate(v) == (ValidatorStep(v) \/ ValidatorFault(v)) /\ UNCHANGED dispatcherVars
ValidateReclaim == ReclaimValidating /\ UNCHANGED dispatcherVars

Cycle(d)   == (CycleStep(d) \/ DispatchFails(d)) /\ UNCHANGED validatorVars
Stat(d, s) == TakeStat(d, s) /\ UNCHANGED validatorVars
Work(t)    == JobStep(t) /\ UNCHANGED validatorVars
Cycling(d)      == Cycle(d) \/ Work(<<d, "cycle">>)      \* one goroutine each
Consuming(d, s) == Stat(d, s) \/ Work(<<d, s>>)
DispatchReclaim == ReclaimSending /\ UNCHANGED validatorVars

Send(w) == SenderStep(w) /\ UNCHANGED <<poolVars, validatorVars, dispatcherVars>>

Init == PoolInit /\ StreamInit /\ ValidatorInit /\ DispatcherInit

Next ==
  \/ Intake
  \/ Tick
  \/ \E v \in Validators : Validate(v)
  \/ ValidateReclaim
  \/ \E d \in Dispatchers : Cycling(d)
  \/ \E d \in Dispatchers : DispatcherFault(d) /\ UNCHANGED validatorVars
  \/ \E d \in Dispatchers, s \in Consumed : Consuming(d, s)
  \/ DispatchReclaim
  \/ \E k \in Keys : DeleteTemplate(k) /\ UNCHANGED validatorVars
  \/ \E w \in Workers : Send(w)

Spec == Init /\ [][Next]_vars

(* Every goroutine goes on running: cycles and reclaims are timer loops,   *)
(* consumers are handed what is ready, a worker's Send returns, the clock  *)
(* advances.  A Validator does not miss its deadline in every cycle for    *)
(* ever, hence strong fairness of its judging.  Nothing is assumed of the  *)
(* environment's failures but that they are finitely many.                 *)
Fairness ==
  /\ WF_vars(Tick)
  /\ WF_vars(ValidateReclaim)
  /\ WF_vars(DispatchReclaim)
  /\ \A v \in Validators :
       WF_vars(Validate(v)) /\ SF_vars(JudgeDelivery(v) /\ UNCHANGED dispatcherVars)
  /\ \A d \in Dispatchers :
       WF_vars(Cycling(d)) /\ \A s \in Consumed : WF_vars(Consuming(d, s))

SenderFairness ==
  \A w \in Workers : WF_vars(Send(w))

FairSpec == Spec /\ Fairness /\ SenderFairness

-----------------------------------------------------------------------------
(* Every variable of the pipeline has its type.                            *)
TypeOK == PoolTypeOK /\ StreamTypeOK /\ ValidatorTypeOK /\ DispatcherTypeOK

(* No Delivery whose address is valid leaves the Pool silently: by the     *)
(* time its row is deleted, one of the outcomes that end a Delivery has    *)
(* been published for it.  The rows are deleted by three consumers and by  *)
(* fail, each working from what it read earlier.                           *)
NoSilentLoss ==
  \A r \in Rows : pool[r].status = "deleted" /\ KeyOf[r] \in ValidKeys =>
    published[KeyOf[r]] \cap {"delivered", "bounced", "failed"} # {}

(* A row that was claimed for dispatch only becomes claimable again at the *)
(* price of an attempt: no interleaving of validators, consumers, failed   *)
(* dispatches and reclaims hands the same attempt out twice.               *)
ResendSpendsAttempt ==
  [][\A r \in Rows :
       pool[r].status = "sending" /\ pool'[r].status = "scheduled" =>
         \/ pool'[r].attempts > pool[r].attempts
         \/ pool[r].attempts = MaxAttempts]_vars

(* A row the Validator has not passed is deleted only if it is invalid: a  *)
(* Delivery gets at least one attempt.                                     *)
AtLeastOneAttempt ==
  [][\A r \in Rows :
       /\ pool[r].status \in {"to_validate", "validating"}
       /\ pool'[r].status = "deleted"
       => KeyOf[r] \notin ValidKeys]_vars

(* The pipeline keeps the promise of Delivery: a row is a Delivery, open   *)
(* while it is stored, and what is said of it is what was published under  *)
(* its key.  A row that came back after it was deleted, or that one worker *)
(* deletes before another has published the outcome, breaks it.            *)
Life(r) ==
  CASE pool[r].status = "absent"  -> "absent"
    [] pool[r].status = "deleted" -> "ended"
    [] OTHER                      -> "open"

D == INSTANCE Delivery WITH
       Deliveries  <- Rows,
       Deliverable <- {r \in Rows : KeyOf[r] \in ValidKeys},
       Sayings     <- Outcomes,
       life        <- [r \in Rows |-> Life(r)],
       said        <- [r \in Rows |-> published[KeyOf[r]]]

ImplementsDelivery == D!DeliverySpec

(* Every Delivery that enters the Pool eventually leaves it.               *)
EverySettles ==
  \A r \in Rows : InPool(r) ~> pool[r].status = "deleted"

=============================================================================
