------------------------------ MODULE Validator ------------------------------
(***************************************************************************)
(* The Validator (pkg/validator): claims pages of rows to be validated and  *)
(* handles them one by one, first on the Pool and then on the stats topic.  *)
(* A whole cycle runs under one deadline (Cycle's ten seconds): once it has *)
(* passed, the statements of the rest of the page fail and those rows stay  *)
(* claimed until they are reclaimed.                                        *)
(***************************************************************************)
EXTENDS SendingPool, Streams

CONSTANTS
  Validators,       \* replicas of the Validator
  ValidKeys,        \* the keys whose address validateEmail accepts
  ValidateTimeout   \* deadline of one cycle

ASSUME ValidatorAssumption ==
  /\ ValidKeys \subseteq Keys
  /\ ValidateTimeout \in Nat
  /\ ValidateTimeout <= ValidateStrand   \* ten seconds, and five minutes

VARIABLE validator   \* per replica: the rest of its page, the page's age and
                     \* the verdict it has yet to publish

validatorVars == <<validator>>

-----------------------------------------------------------------------------
NoVerdict == <<>>
Resting   == [page |-> {}, age |-> 0, verdict |-> NoVerdict]

(* One row of the page is done with; an empty page ends the cycle.         *)
PageWithout(v, r) ==
  IF validator[v].page = {r} THEN Resting
  ELSE [validator[v] EXCEPT !.page = @ \ {r}, !.verdict = NoVerdict]

(* Cycle: the claim.                                                       *)
ClaimForValidation(v) ==
  /\ validator[v] = Resting
  /\ \E R \in SUBSET Rows :
       /\ PrepareForValidate(R)
       /\ validator' = [validator EXCEPT ![v].page = R]
  /\ UNCHANGED streamVars

(* Mutant: a cycle has no deadline.                                        *)
JudgeWithoutDeadline(v) ==
  /\ validator[v].verdict = NoVerdict
  /\ \E r \in validator[v].page :
       /\ IF KeyOf[r] \in ValidKeys THEN SetSendingPoolScheduled(KeyOf[r])
                                    ELSE CleanPool(KeyOf[r])
       /\ validator' = [validator EXCEPT ![v].verdict = <<r>>]
  /\ UNCHANGED streamVars

(* handleDelivery, first half: an address that does not validate is        *)
(* dropped, any other marked validated.                                    *)
JudgeDelivery(v) ==
  /\ validator[v].verdict = NoVerdict
  /\ validator[v].age <= ValidateTimeout
  /\ \E r \in validator[v].page :
       /\ IF KeyOf[r] \in ValidKeys THEN SetSendingPoolScheduled(KeyOf[r])
                                    ELSE CleanPool(KeyOf[r])
       /\ validator' = [validator EXCEPT ![v].verdict = <<r>>]
  /\ UNCHANGED streamVars

(* handleDelivery, second half: the stat follows.                          *)
PublishVerdict(v) ==
  /\ validator[v].verdict # NoVerdict
  /\ LET r == validator[v].verdict[1]
     IN  /\ PublishStat(IF KeyOf[r] \in ValidKeys THEN "accepted" ELSE "rejected", KeyOf[r])
         /\ validator' = [validator EXCEPT ![v] = PageWithout(v, r)]
  /\ UNCHANGED <<poolVars, sending, outstanding, guard>>

(* The cycle logs an error and goes on with the next row: the statement    *)
(* failed, because of the deadline or otherwise, or the stat was refused.  *)
SkipDelivery(v) ==
  /\ \/ /\ validator[v].verdict = NoVerdict
        /\ IF validator[v].age > ValidateTimeout THEN UNCHANGED faults ELSE Fault
        /\ \E r \in validator[v].page :
             validator' = [validator EXCEPT ![v] = PageWithout(v, r)]
     \/ /\ validator[v].verdict # NoVerdict
        /\ Fault
        /\ validator' = [validator EXCEPT ![v] = PageWithout(v, validator[v].verdict[1])]
  /\ UNCHANGED <<poolVars, sending, outstanding, guard, stats, published>>

(* The process dies (a failed claim included: runner.Run returns the       *)
(* error) and is started again; what it held in memory is gone.            *)
CrashValidator(v) ==
  /\ validator[v] # Resting
  /\ Fault
  /\ validator' = [validator EXCEPT ![v] = Resting]
  /\ UNCHANGED <<poolVars, sending, outstanding, guard, stats, published>>

ValidatorTick ==
  validator' = [v \in Validators |->
    IF validator[v] # Resting /\ validator[v].age <= ValidateTimeout
    THEN [validator[v] EXCEPT !.age = @ + 1] ELSE validator[v]]

(* reclaimLoop.                                                            *)
ReclaimValidating ==
  /\ ReclaimStranded("validating")
  /\ UNCHANGED <<streamVars, validator>>

ValidatorStep(v) == ClaimForValidation(v) \/ JudgeDelivery(v) \/ PublishVerdict(v)

ValidatorFault(v) == SkipDelivery(v) \/ CrashValidator(v)

ValidatorInit == validator = [v \in Validators |-> Resting]

(* Each replica holds rows of a page of its own.                           *)
ValidatorTypeOK ==
  validator \in [Validators ->
    [page    : SUBSET Rows,
     age     : 0..(ValidateTimeout + 1),
     verdict : {NoVerdict} \cup {<<r>> : r \in Rows}]]

=============================================================================
