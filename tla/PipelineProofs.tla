---------------------------- MODULE PipelineProofs ----------------------------
(***************************************************************************)
(* The SMTPSender and the pipeline, for any number of rows, keys, replicas  *)
(* and workers: the types of both, that the send guard admits at most one   *)
(* SMTP transaction per stored Envelope as long as what it admitted is      *)
(* settled within the TTL of its entries, that the pipeline uses the Pool   *)
(* through the Pool's statements only, that no Delivery is lost silently,   *)
(* that the pipeline implements Delivery, that a resend spends an attempt   *)
(* and that a Delivery gets one.  It begins with the back-off curve for     *)
(* every number of attempts, and with what the Pool promises whatever its   *)
(* clients do: its statements keep the table well formed, a claim in flight *)
(* is stamped and no attempt tally drops.                                   *)
(***************************************************************************)
EXTENDS Pipeline, FiniteSetTheorems, TLAPS

-----------------------------------------------------------------------------
(* Induction on the naturals, for a set: a step of it that stayed below a  *)
(* number it does not hold would map a finite set into itself less 0.      *)
LEMMA Induction ==
  ASSUME NEW S, 0 \in S, \A m \in Nat : m \in S => m + 1 \in S
  PROVE  \A n \in Nat : n \in S
<1> SUFFICES ASSUME NEW n \in Nat, n \notin S PROVE FALSE
  OBVIOUS
<1> DEFINE A == {k \in 0..n : k \in S}
           B == A \ {0}
           f == [k \in A |-> k + 1]
<1>1. IsFiniteSet(A) /\ 0 \in A
  <2>1. IsFiniteSet(0..n)
    BY FS_Interval
  <2> QED  BY <2>1, FS_Subset
<1>2. f \in Injection(A, B)
  <2>1. \A k \in A : k + 1 \in B
    OBVIOUS
  <2>2. \A k, l \in A : k + 1 = l + 1 => k = l
    OBVIOUS
  <2> QED  BY <2>1, <2>2 DEF Injection, IsInjective
<1>3. IsFiniteSet(B) /\ Cardinality(B) = Cardinality(A) - 1
  BY <1>1, FS_RemoveElement
<1>4. Cardinality(A) <= Cardinality(B)
  <2> HIDE DEF A, B, f
  <2> QED  BY <1>2, <1>3, FS_Injection
<1>5. Cardinality(A) \in Nat
  BY <1>1, FS_CardinalityType
<1> QED  BY <1>3, <1>4, <1>5

-----------------------------------------------------------------------------
(* The curve of the Retry Budget, for every number of attempts.            *)

(* The solution of the recursion as far as n.                              *)
Doubling(g, n) == g = [k \in 0..n |-> IF k = 0 THEN 1 ELSE 2 * g[k - 1]]

LEMMA DoublingStarts ==
  ASSUME NEW g, NEW n \in Nat, Doubling(g, n)
  PROVE  g[0] = 1 /\ \A k \in 1..n : g[k] = 2 * g[k - 1]
BY DEF Doubling

(* There is one, and it goes on one that reaches less far.                 *)
LEMMA DoublingExists == \A n \in Nat : \E g : Doubling(g, n)
<1> DEFINE S == {n \in Nat : \E g : Doubling(g, n)}
<1>1. 0 \in S
  <2>1. PICK g : g = [k \in 0..0 |-> 1]
    OBVIOUS
  <2>2. Doubling(g, 0)
    BY <2>1 DEF Doubling
  <2> QED  BY <2>2
<1>2. \A m \in Nat : m \in S => m + 1 \in S
  <2> TAKE m \in Nat
  <2> HAVE m \in S
  <2>1. PICK g : Doubling(g, m)
    OBVIOUS
  <2>2. PICK h : h = [k \in 0..(m + 1) |-> IF k <= m THEN g[k] ELSE 2 * g[m]]
    OBVIOUS
  <2>3. ASSUME NEW k \in 0..(m + 1) PROVE h[k] = IF k = 0 THEN 1 ELSE 2 * h[k - 1]
    BY <2>1, <2>2, <2>3, DoublingStarts
  <2>4. Doubling(h, m + 1)
    BY <2>2, <2>3 DEF Doubling
  <2> QED  BY <2>4
<1> HIDE DEF S
<1>3. \A n \in Nat : n \in S
  BY <1>1, <1>2, Induction
<1> QED  BY <1>3 DEF S

LEMMA DoublingUnique ==
  ASSUME NEW n \in Nat, NEW g, Doubling(g, n), NEW h, NEW m \in Nat, m <= n, Doubling(h, m)
  PROVE  g[m] = h[m]
<1> DEFINE S == {k \in Nat : k <= m => g[k] = h[k]}
<1>1. 0 \in S
  BY DoublingStarts
<1>2. \A k \in Nat : k \in S => k + 1 \in S
  <2> TAKE k \in Nat
  <2> HAVE k \in S
  <2> SUFFICES ASSUME k + 1 <= m PROVE g[k + 1] = h[k + 1]
    OBVIOUS
  <2>1. k + 1 \in 1..n /\ k + 1 \in 1..m /\ (k + 1) - 1 = k /\ g[k] = h[k]
    OBVIOUS
  <2>2. PICK l : l = k + 1
    OBVIOUS
  <2>3. g[l] = 2 * g[k] /\ h[l] = 2 * h[k]
    BY <2>1, <2>2, DoublingStarts
  <2> QED  BY <2>1, <2>2, <2>3
<1> HIDE DEF S
<1>3. m \in S
  BY <1>1, <1>2, Induction
<1> QED  BY <1>3 DEF S

(* The recursive definition of Pow2 has a solution, so Pow2 is one.        *)
LEMMA Pow2Doubles ==
  Pow2[0] = 1 /\ \A n \in Nat : Pow2[n + 1] = 2 * Pow2[n]
<1> DEFINE G(n) == CHOOSE g : Doubling(g, n)
<1>1. \A n \in Nat : Doubling(G(n), n)
  BY DoublingExists, Zenon
<1> HIDE DEF G
<1>2. PICK p : p = [n \in Nat |-> G(n)[n]]
  OBVIOUS
<1>3. ASSUME NEW n \in Nat PROVE p[n] = IF n = 0 THEN 1 ELSE 2 * p[n - 1]
  <2>1. CASE n = 0
    BY <1>1, <1>2, <2>1, DoublingStarts
  <2>2. CASE n # 0
    <3>1. n \in 1..n /\ n - 1 \in Nat /\ n - 1 <= n
      BY <2>2
    <3>2. G(n)[n] = 2 * G(n)[n - 1]
      BY <1>1, <3>1, DoublingStarts
    <3>3. G(n)[n - 1] = G(n - 1)[n - 1]
      BY <1>1, <3>1, DoublingUnique
    <3> QED  BY <1>2, <2>2, <3>1, <3>2, <3>3
  <2> QED  BY <2>1, <2>2
<1>4. p = [n \in Nat |-> IF n = 0 THEN 1 ELSE 2 * p[n - 1]]
  BY <1>2, <1>3
<1>5. \E q : q = [n \in Nat |-> IF n = 0 THEN 1 ELSE 2 * q[n - 1]]
  BY <1>4
<1>6. Pow2 = [n \in Nat |-> IF n = 0 THEN 1 ELSE 2 * Pow2[n - 1]]
  BY <1>5, Zenon DEF Pow2
<1>7. PICK q : q = Pow2
  OBVIOUS
<1>8. q[0] = 1 /\ \A n \in Nat : q[n + 1] = 2 * q[n]
  <2>1. q = [n \in Nat |-> IF n = 0 THEN 1 ELSE 2 * q[n - 1]]
    BY <1>6, <1>7
  <2> QED  BY <2>1
<1> QED  BY <1>7, <1>8

(* A power of two is a positive number, for every exponent.                *)
LEMMA Pow2Type == \A n \in Nat : Pow2[n] \in Nat \ {0}
<1> DEFINE S == {n \in Nat : Pow2[n] \in Nat \ {0}}
<1>1. 0 \in S
  BY Pow2Doubles
<1>2. \A n \in Nat : n \in S => n + 1 \in S
  BY Pow2Doubles
<1> HIDE DEF S
<1>3. \A n \in Nat : n \in S
  BY <1>1, <1>2, Induction
<1> QED  BY <1>3 DEF S

(* The register holds any product in its range, and one that fits as it    *)
(* is.                                                                     *)
LEMMA WrappedFits ==
  ASSUME NEW x \in Nat
  PROVE  /\ Wrapped(x) \in (-Pow2[Width - 1])..(Pow2[Width - 1] - 1)
         /\ x < Pow2[Width - 1] => Wrapped(x) = x
<1>1. PICK h \in Nat \ {0} : h = Pow2[Width - 1] /\ Pow2[Width] = 2 * h
  <2>1. Width - 1 \in Nat /\ (Width - 1) + 1 = Width
    BY BudgetAssumption DEF BudgetAssumption
  <2> QED  BY <2>1, Pow2Doubles, Pow2Type
<1>2. PICK m \in Nat \ {0} : m = 2 * h
  OBVIOUS
<1>3. (x + h) % m \in 0..(m - 1)
  OBVIOUS
<1>4. x + h < m => (x + h) % m = x + h
  OBVIOUS
<1> QED  BY <1>1, <1>2, <1>3, <1>4 DEF Wrapped

(* Base * 2^attempts, and that a time.Duration holds it.                   *)
Curve(a) == Base * Pow2[a]
InRegister(a) == Curve(a) < Pow2[Width - 1]

(* ExponentialBackoff.Delay is max(Min, Base * 2^attempts) as its comment   *)
(* says, for every number of attempts whose product a time.Duration holds;  *)
(* beyond, wherever the product wraps to, the result is not below the       *)
(* floor.                                                                   *)
THEOREM BackoffIsTheCurve ==
  \A a \in Nat :
     /\ Delay(a) \in Nat /\ Delay(a) >= MinDelay
     /\ InRegister(a) => Delay(a) = IF Curve(a) < MinDelay THEN MinDelay ELSE Curve(a)
<1> TAKE a \in Nat
<1>1. Curve(a) \in Nat
  BY Pow2Type, BudgetAssumption DEF BudgetAssumption, Curve
<1>2. PICK w \in Int : w = Wrapped(Curve(a)) /\ (InRegister(a) => w = Curve(a))
  <2>1. Pow2[Width - 1] \in Nat
    BY Pow2Type, BudgetAssumption DEF BudgetAssumption
  <2> QED  BY <1>1, <2>1, WrappedFits DEF InRegister
<1>3. Delay(a) = IF w < MinDelay THEN MinDelay ELSE w
  BY <1>2 DEF Delay, Curve
<1> QED  BY <1>2, <1>3, BudgetAssumption DEF BudgetAssumption

(* The Retry Budget, once it is spent, stays spent: as long as the product  *)
(* fits, the delays of ExponentialBackoff.Delay grow with the attempts, and *)
(* an attempt that CanRetry refuses is followed by none that it allows.     *)
THEOREM BudgetStaysSpent ==
  \A a \in Nat : InRegister(a + 1) =>
     /\ Delay(a) <= Delay(a + 1)
     /\ CanRetry(a + 1) => CanRetry(a)
<1> TAKE a \in Nat
<1> HAVE InRegister(a + 1)
<1>1. PICK c \in Nat : c = Curve(a) /\ Curve(a + 1) = 2 * c
  BY Pow2Type, Pow2Doubles, BudgetAssumption DEF BudgetAssumption, Curve
<1>2. InRegister(a)
  <2>1. Pow2[Width - 1] \in Nat
    BY Pow2Type, BudgetAssumption DEF BudgetAssumption
  <2> QED  BY <1>1, <2>1 DEF InRegister
<1>3. Delay(a) <= Delay(a + 1) /\ Delay(a) \in Nat /\ Delay(a + 1) \in Nat
  <2>1. a + 1 \in Nat
    OBVIOUS
  <2> QED  BY <1>1, <1>2, <2>1, BackoffIsTheCurve, BudgetAssumption DEF BudgetAssumption
<1> QED  BY <1>3, BudgetAssumption DEF CanRetry, NextRetryAt, BudgetAssumption

-----------------------------------------------------------------------------
(* What the Pool promises whatever its clients do.                         *)
PoolInv == PoolTypeOK /\ InFlightIsStamped

-----------------------------------------------------------------------------
(* The bounded counters stay within their bounds.                          *)
LEMMA AgeCapType == AgeCap \in Nat /\ AgeCap > 0
BY PoolAssumption DEF PoolAssumption, AgeCap

LEMMA ClaimedNowType == 0 \in 0..AgeCap /\ 0 # Unclaimed
BY AgeCapType DEF Unclaimed

LEMMA BumpType ==
  \A n \in 0..MaxAttempts : Bump(n) \in 0..MaxAttempts /\ Bump(n) >= n
BY PoolAssumption DEF PoolAssumption, Bump

LEMMA OlderType ==
  ASSUME NEW age \in (0..AgeCap) \cup {Unclaimed}
  PROVE  /\ Older(age) \in (0..AgeCap) \cup {Unclaimed}
         /\ age # Unclaimed => Older(age) # Unclaimed
BY AgeCapType DEF Older, Unclaimed

LEMMA ReclaimTargetType ==
  ASSUME NEW from \in InFlight
  PROVE  /\ ReclaimTarget(from).to \in {"scheduled", "to_validate"}
         /\ ReclaimTarget(from).bump \in BOOLEAN
BY DEF ReclaimTarget, InFlight

(* A retry is stored at a distance the table has room for.                 *)
LEMMA NextRetryType ==
  ASSUME NEW a \in 0..MaxAttempts
  PROVE  NextRetryAt(a) \in 0..Horizon
<1>1. Delay(a) \in Nat /\ Delay(a) <= Horizon /\ Horizon \in Nat
  BY PoolAssumption, BackoffIsTheCurve DEF PoolAssumption
<1> QED  BY <1>1 DEF NextRetryAt

-----------------------------------------------------------------------------
(* One lemma per statement: it preserves the invariant.                    *)
LEMMA CreatePoolInv ==
  ASSUME PoolInv, NEW R \in SUBSET Rows, NEW lead \in 0..MaxLead, CreatePool(R, lead)
  PROVE  PoolInv'
<1>1. -lead \in (-MaxLead)..Horizon
  BY PoolAssumption DEF PoolAssumption
<1>2. PoolTypeOK'
  BY <1>1, PoolAssumption DEF PoolAssumption, PoolInv, PoolTypeOK, CreatePool, Update, Row,
     Unclaimed, Status, Stored
<1>3. InFlightIsStamped'
  BY DEF PoolInv, PoolTypeOK, InFlightIsStamped, CreatePool, Update, Row, InFlight
<1> QED  BY <1>2, <1>3 DEF PoolInv

(* The two claiming statements, which differ in the status they set.       *)
LEMMA ClaimInv ==
  ASSUME PoolInv, NEW R \in SUBSET Rows, NEW s \in InFlight,
         pool' = [r \in Rows |-> IF r \in R THEN [pool[r] EXCEPT !.status = s, !.age = 0]
                                            ELSE pool[r]],
         UNCHANGED elapsed
  PROVE  PoolInv'
<1>1. PoolTypeOK'
  BY ClaimedNowType, ZenonT(60) DEF PoolInv, PoolTypeOK, Status, Stored
<1>2. InFlightIsStamped'
  <2> SUFFICES ASSUME NEW r \in Rows, pool'[r].status \in InFlight
               PROVE  pool'[r].age # Unclaimed
    BY DEF InFlightIsStamped
  <2> QED  BY ClaimedNowType DEF PoolInv, PoolTypeOK, InFlightIsStamped
<1> QED  BY <1>1, <1>2 DEF PoolInv

LEMMA PrepareForValidateInv ==
  ASSUME PoolInv, NEW R \in SUBSET Rows, PrepareForValidate(R)
  PROVE  PoolInv'
BY ClaimInv DEF PrepareForValidate, Update, InFlight

LEMMA PrepareForSendInv ==
  ASSUME PoolInv, NEW R \in SUBSET Rows, PrepareForSend(R)
  PROVE  PoolInv'
BY ClaimInv DEF PrepareForSend, Update, InFlight

LEMMA SetSendingPoolScheduledInv ==
  ASSUME PoolInv, NEW k \in Keys, SetSendingPoolScheduled(k)
  PROVE  PoolInv'
<1>1. PoolTypeOK'
  BY DEF PoolInv, PoolTypeOK, SetSendingPoolScheduled, Update, Status, Stored
<1>2. InFlightIsStamped'
  BY DEF PoolInv, PoolTypeOK, InFlightIsStamped, SetSendingPoolScheduled, Update, InFlight
<1> QED  BY <1>1, <1>2 DEF PoolInv

LEMMA ReschedulePoolInv ==
  ASSUME PoolInv, NEW k \in Keys, NEW next \in 0..Horizon, ReschedulePool(k, next)
  PROVE  PoolInv'
<1>1. PoolTypeOK'
  BY BumpType DEF PoolInv, PoolTypeOK, ReschedulePool, Update, Status, Stored
<1>2. InFlightIsStamped'
  BY DEF PoolInv, PoolTypeOK, InFlightIsStamped, ReschedulePool, Update, InFlight
<1> QED  BY <1>1, <1>2 DEF PoolInv

LEMMA CleanPoolInv ==
  ASSUME PoolInv, NEW k \in Keys, CleanPool(k)
  PROVE  PoolInv'
<1>1. PoolTypeOK'
  BY PoolAssumption DEF PoolAssumption, PoolInv, PoolTypeOK, CleanPool, Update, NoRow, Row,
     Unclaimed, Status
<1>2. InFlightIsStamped'
  BY DEF PoolInv, PoolTypeOK, InFlightIsStamped, CleanPool, Update, NoRow, Row, InFlight
<1> QED  BY <1>1, <1>2 DEF PoolInv

LEMMA ReclaimStrandedInv ==
  ASSUME PoolInv, NEW from \in InFlight, ReclaimStranded(from)
  PROVE  PoolInv'
<1>1. PICK R \in Pages(Stranded(from)) :
        Update(R, LAMBDA old :
          [old EXCEPT !.status   = ReclaimTarget(from).to,
                      !.age      = Unclaimed,
                      !.attempts = IF ReclaimTarget(from).bump THEN Bump(@) ELSE @])
  BY DEF ReclaimStranded
<1>2. PoolTypeOK'
  BY <1>1, BumpType, ReclaimTargetType, ZenonT(60)
     DEF PoolInv, PoolTypeOK, ReclaimStranded, Update, Status, Stored
<1>3. InFlightIsStamped'
  BY <1>1, ReclaimTargetType
     DEF PoolInv, PoolTypeOK, InFlightIsStamped, Update, InFlight
<1> QED  BY <1>2, <1>3 DEF PoolInv

LEMMA PoolTickInv ==
  ASSUME PoolInv, PoolTick
  PROVE  PoolInv'
<1>1. PoolTypeOK'
  BY OlderType, PoolAssumption, SMTT(30) DEF PoolAssumption, PoolInv, PoolTypeOK, PoolTick, Update
<1>2. InFlightIsStamped'
  BY OlderType DEF PoolInv, PoolTypeOK, InFlightIsStamped, PoolTick, Update
<1> QED  BY <1>1, <1>2 DEF PoolInv

LEMMA PoolNextInv ==
  ASSUME PoolInv, [PoolNext]_poolVars
  PROVE  PoolInv'
<1>1. CASE UNCHANGED poolVars
  BY <1>1 DEF PoolInv, PoolTypeOK, InFlightIsStamped, poolVars
<1>2. CASE PoolNext
  BY <1>2, CreatePoolInv, PrepareForValidateInv, PrepareForSendInv,
     SetSendingPoolScheduledInv, ReschedulePoolInv, CleanPoolInv,
     ReclaimStrandedInv, PoolTickInv DEF PoolNext
<1> QED  BY <1>1, <1>2

LEMMA PoolInitInv == PoolInit => PoolInv
BY PoolAssumption DEF PoolAssumption, PoolInit, PoolInv, PoolTypeOK, InFlightIsStamped,
   NoRow, Row, Unclaimed, Status, InFlight

-----------------------------------------------------------------------------
(* The Pool is always well formed, and every row in an in-flight status    *)
(* carries the instant of its claim, so that ReclaimStranded can see it.   *)
THEOREM PoolSafety == PoolSpec => [](PoolTypeOK /\ InFlightIsStamped)
<1>1. PoolInit => PoolInv
  BY PoolInitInv
<1>2. PoolInv /\ [PoolNext]_poolVars => PoolInv'
  BY PoolNextInv
<1>3. PoolInv => PoolTypeOK /\ InFlightIsStamped
  BY DEF PoolInv
<1> QED  BY <1>1, <1>2, <1>3, PTL DEF PoolSpec

-----------------------------------------------------------------------------
(* A step does not lower the tally of a row that was and stays in the      *)
(* Pool.                                                                   *)
Tally(r) == InPool(r) /\ InPool(r)' => pool'[r].attempts >= pool[r].attempts

LEMMA TallyStep ==
  ASSUME PoolInv, PoolNext, NEW r \in Rows
  PROVE  Tally(r)
<1>0. pool[r].attempts \in Nat /\ pool[r].attempts >= pool[r].attempts
  BY PoolAssumption DEF PoolAssumption, PoolInv, PoolTypeOK
<1>1. ASSUME NEW R \in SUBSET Rows, NEW lead \in 0..MaxLead, CreatePool(R, lead)
      PROVE  Tally(r)
  BY <1>0, <1>1 DEF CreatePool, Update, Tally, InPool, Stored, InFlight
<1>2. ASSUME NEW R \in SUBSET Rows, PrepareForValidate(R)
      PROVE  Tally(r)
  BY <1>0, <1>2 DEF PoolInv, PoolTypeOK, PrepareForValidate, Update, Tally
<1>3. ASSUME NEW R \in SUBSET Rows, PrepareForSend(R)
      PROVE  Tally(r)
  BY <1>0, <1>3 DEF PoolInv, PoolTypeOK, PrepareForSend, Update, Tally
<1>4. ASSUME NEW k \in Keys, SetSendingPoolScheduled(k)
      PROVE  Tally(r)
  BY <1>0, <1>4 DEF PoolInv, PoolTypeOK, SetSendingPoolScheduled, Update, Tally
<1>5. ASSUME NEW k \in Keys, NEW next, ReschedulePool(k, next)
      PROVE  Tally(r)
  BY <1>0, <1>5, BumpType DEF PoolInv, PoolTypeOK, ReschedulePool, Update, Tally
<1>6. ASSUME NEW k \in Keys, CleanPool(k)
      PROVE  Tally(r)
  BY <1>0, <1>6 DEF CleanPool, Update, NoRow, Row, Tally, InPool, Stored, InFlight
<1>7. ASSUME NEW from \in InFlight, ReclaimStranded(from)
      PROVE  Tally(r)
  <2>1. PICK R \in Pages(Stranded(from)) :
          Update(R, LAMBDA old :
            [old EXCEPT !.status   = ReclaimTarget(from).to,
                        !.age      = Unclaimed,
                        !.attempts = IF ReclaimTarget(from).bump THEN Bump(@) ELSE @])
    BY <1>7 DEF ReclaimStranded
  <2> QED  BY <1>0, <2>1, BumpType DEF PoolInv, PoolTypeOK, Update, Tally
<1>8. CASE PoolTick
  BY <1>0, <1>8 DEF PoolInv, PoolTypeOK, PoolTick, Update, Tally
<1> QED  BY <1>1, <1>2, <1>3, <1>4, <1>5, <1>6, <1>7, <1>8 DEF PoolNext

(* Whatever statements its clients issue, the tally of a row that stays in *)
(* the Pool never drops: the back-off curve is never climbed twice.        *)
THEOREM PoolTally == PoolSpec => TallyNeverDrops
<1>1. ASSUME PoolInv, [PoolNext]_poolVars
      PROVE  [\A r \in Rows : InPool(r) /\ InPool(r)'
                 => pool'[r].attempts >= pool[r].attempts]_poolVars
  BY <1>1, TallyStep DEF Tally
<1>2. PoolInit => PoolInv
  BY PoolInitInv
<1>3. PoolInv /\ [PoolNext]_poolVars => PoolInv'
  BY PoolNextInv
<1> QED  BY <1>1, <1>2, <1>3, PTL DEF PoolSpec, TallyNeverDrops

-----------------------------------------------------------------------------
(* Types of the streams, operation by operation.                           *)
LEMMA FaultType ==
  ASSUME faults \in 0..MaxFaults, Fault
  PROVE  faults' \in 0..MaxFaults
BY StreamAssumption DEF StreamAssumption, Fault

LEMMA SendEmailType ==
  ASSUME StreamTypeOK, NEW k \in Keys, NEW b \in BOOLEAN, SendEmail(k, b)
  PROVE  sending' \subseteq Envelope /\ faults' \in 0..MaxFaults
<1>1. CASE FreshSeqs # {} /\ UNCHANGED faults /\ sending' = sending \cup
             {[seq |-> NextSeq, key |-> k, shouldRetry |-> b, admitted |-> 0]}
  <2>1. NextSeq \in Seqs
    BY <1>1 DEF NextSeq, FreshSeqs
  <2> QED  BY <1>1, <2>1 DEF StreamTypeOK, Envelope
<1>2. CASE Fault /\ UNCHANGED sending
  BY <1>2, FaultType DEF StreamTypeOK
<1> QED  BY <1>1, <1>2 DEF SendEmail

LEMMA PublishStatType ==
  ASSUME StreamTypeOK, NEW t \in Outcomes, NEW k \in Keys, PublishStat(t, k)
  PROVE  /\ published' \in [Keys -> SUBSET Outcomes]
         /\ stats' \in [Consumed \X Keys -> 0..MaxPending]
         /\ faults' \in 0..MaxFaults
<1>1. published' \in [Keys -> SUBSET Outcomes]
  BY DEF PublishStat, StreamTypeOK
<1>2. CASE /\ t \in Consumed /\ stats[<<t, k>>] < MaxPending
           /\ stats' = [stats EXCEPT ![<<t, k>>] = @ + 1] /\ UNCHANGED faults
  BY <1>1, <1>2, StreamAssumption DEF StreamAssumption, StreamTypeOK
<1>3. CASE Fault /\ UNCHANGED stats
  BY <1>1, <1>3, FaultType DEF StreamTypeOK
<1>4. CASE UNCHANGED <<stats, faults>>
  BY <1>1, <1>4 DEF StreamTypeOK
<1> QED  BY <1>2, <1>3, <1>4 DEF PublishStat

LEMMA ReadyType ==
  ASSUME StreamTypeOK, NEW t \in Consumed, NEW k \in Keys, Ready(t, k)
  PROVE  stats' \in [Consumed \X Keys -> 0..MaxPending]
BY StreamAssumption DEF StreamAssumption, Ready, StreamTypeOK

LEMMA GuardTickType ==
  ASSUME StreamTypeOK, GuardTick
  PROVE  guard' \in [Seqs -> (0..TTL) \cup {Forgotten}]
BY StreamAssumption DEF StreamAssumption, GuardTick, StreamTypeOK, Forgotten

LEMMA StreamUnchanged ==
  ASSUME StreamTypeOK, UNCHANGED streamVars
  PROVE  StreamTypeOK'
BY DEF StreamTypeOK, streamVars

-----------------------------------------------------------------------------
(* Types of the SMTPSender's steps.                                        *)
LEMMA HeldType ==
  ASSUME StreamTypeOK, NEW w \in Workers, ~Idle(w)
  PROVE  outstanding[w] \in Envelope
BY DEF StreamTypeOK, Idle

LEMMA HandleMessageType ==
  ASSUME StreamTypeOK, NEW w \in Workers, HandleMessage(w)
  PROVE  StreamTypeOK'
<1>1. PICK e \in sending : /\ Claim(w, e) \/ ClaimLost(w, e) \/ ClaimFailsOpen(w, e)
                           /\ sending' = sending \ {e}
  BY DEF HandleMessage
<1>2. e \in Envelope /\ sending' \subseteq Envelope
  BY <1>1 DEF StreamTypeOK
<1>3. UNCHANGED <<stats, published>>
  BY DEF HandleMessage
<1>4. CASE Claim(w, e)
  <2>1. [e EXCEPT !.admitted = IF @ < 2 THEN @ + 1 ELSE @] \in Envelope
    BY <1>2 DEF Envelope
  <2>2. outstanding' \in [Workers -> Envelope \cup {NoEnvelope}]
    BY <1>4, <2>1 DEF Claim, StreamTypeOK
  <2>3. guard' \in [Seqs -> (0..TTL) \cup {Forgotten}]
    BY <1>2, <1>4, StreamAssumption DEF StreamAssumption, Claim, StreamTypeOK, Envelope
  <2> QED  BY <1>2, <1>3, <1>4, <2>2, <2>3 DEF Claim, StreamTypeOK
<1>5. CASE ClaimLost(w, e)
  BY <1>2, <1>3, <1>5 DEF ClaimLost, StreamTypeOK
<1>6. CASE ClaimFailsOpen(w, e)
  BY <1>2, <1>3, <1>6, FaultType DEF ClaimFailsOpen, StreamTypeOK
<1> QED  BY <1>1, <1>4, <1>5, <1>6

LEMMA OutcomeOfType ==
  ASSUME NEW answer \in Answers, NEW e \in Envelope
  PROVE  OutcomeOf(answer, e) \in Consumed
BY DEF OutcomeOf, Consumed

LEMMA ReportType ==
  ASSUME StreamTypeOK, NEW w \in Workers, Report(w)
  PROVE  StreamTypeOK'
<1>1. PICK answer \in Answers :
        PublishStat(OutcomeOf(answer, outstanding[w]), outstanding[w].key)
  BY DEF Report
<1>2. outstanding[w] \in Envelope
  BY HeldType DEF Report
<1>3. OutcomeOf(answer, outstanding[w]) \in Outcomes /\ outstanding[w].key \in Keys
  BY <1>2, OutcomeOfType DEF Outcomes, Envelope
<1>4. /\ published' \in [Keys -> SUBSET Outcomes]
      /\ stats' \in [Consumed \X Keys -> 0..MaxPending]
      /\ faults' \in 0..MaxFaults
  BY <1>1, <1>3, PublishStatType
<1> QED  BY <1>4 DEF Report, StreamTypeOK

LEMMA SenderStepType ==
  ASSUME StreamTypeOK, NEW w \in Workers, SenderStep(w)
  PROVE  StreamTypeOK'
<1>1. CASE ReportRefused(w)
  BY <1>1, HeldType, FaultType DEF ReportRefused, StreamTypeOK
<1>2. CASE AckDeadline(w)
  BY <1>2, HeldType, FaultType DEF AckDeadline, StreamTypeOK
<1> QED  BY <1>1, <1>2, HandleMessageType, ReportType DEF SenderStep

LEMMA SenderNextType ==
  ASSUME StreamTypeOK, [SenderNext]_streamVars
  PROVE  StreamTypeOK'
<1>1. CASE Dispatch
  BY <1>1, SendEmailType DEF Dispatch, StreamTypeOK
<1>2. CASE Consume
  <2>1. PICK t \in Consumed, k \in Keys :
          stats[<<t, k>>] > 0 /\ stats' = [stats EXCEPT ![<<t, k>>] = @ - 1]
    BY <1>2 DEF Consume
  <2>2. stats' \in [Consumed \X Keys -> 0..MaxPending]
    BY <2>1, StreamAssumption DEF StreamAssumption, StreamTypeOK
  <2> QED  BY <1>2, <2>2 DEF Consume, StreamTypeOK
<1>3. CASE Wait
  BY <1>3, GuardTickType DEF Wait, SenderTick, StreamTypeOK
<1>4. ASSUME NEW w \in Workers, SenderStep(w)
      PROVE  StreamTypeOK'
  BY <1>4, SenderStepType
<1>5. CASE UNCHANGED streamVars
  BY <1>5, StreamUnchanged
<1> QED  BY <1>1, <1>2, <1>3, <1>4, <1>5 DEF SenderNext

LEMMA SenderInitType == StreamInit => StreamTypeOK
BY StreamAssumption DEF StreamAssumption, StreamInit, StreamTypeOK

-----------------------------------------------------------------------------
(* The guard.  What makes the property inductive is why it holds: as long  *)
(* as a copy of an admitted Envelope is anywhere, its entry is too.        *)
Safe(e) == e.admitted \in {0, 1} /\ (e.admitted = 1 => guard[e.seq] # Forgotten)

GuardInv ==
  /\ \A e \in sending : Safe(e)
  /\ \A w \in Workers : ~Idle(w) => Safe(outstanding[w])

(* A step after which every Envelope in sight was there before, and that   *)
(* forgets no entry, preserves the invariant.                              *)
LEMMA GuardFrame ==
  ASSUME StreamTypeOK, StreamTypeOK', GuardInv,
         \A s \in Seqs : guard[s] # Forgotten => guard'[s] # Forgotten,
         \A e \in sending' : e \in sending \/ \E w \in Workers : ~Idle(w) /\ e = outstanding[w],
         \A w \in Workers : outstanding'[w] # NoEnvelope =>
           outstanding'[w] = outstanding[w] \/ outstanding'[w] \in sending
  PROVE  GuardInv'
<1>1. ASSUME NEW e \in Envelope, Safe(e)
      PROVE  Safe(e)'
  BY <1>1 DEF Safe, Envelope
<1>2. \A e \in sending' : Safe(e)'
  BY <1>1, HeldType DEF GuardInv, StreamTypeOK
<1>3. ASSUME NEW w \in Workers, ~Idle(w)'
      PROVE  Safe(outstanding[w])'
  <2>1. outstanding'[w] # NoEnvelope /\ outstanding'[w] \in Envelope
    BY <1>3 DEF Idle, StreamTypeOK
  <2>2. Safe(outstanding'[w])
    BY <2>1 DEF GuardInv, Idle
  <2> QED  BY <2>1, <2>2 DEF Safe, Envelope
<1> QED  BY <1>2, <1>3 DEF GuardInv

LEMMA HandleMessageGuard ==
  ASSUME StreamTypeOK, StreamTypeOK', GuardInv, NEW w \in Workers, HandleMessage(w)
  PROVE  GuardInv'
<1>1. PICK e \in sending : /\ Claim(w, e) \/ ClaimLost(w, e) \/ ClaimFailsOpen(w, e)
                           /\ sending' = sending \ {e}
  BY DEF HandleMessage
<1>2. e \in Envelope /\ Safe(e)
  BY <1>1 DEF StreamTypeOK, GuardInv
<1>3. CASE Claim(w, e)
  <2> DEFINE f == [e EXCEPT !.admitted = IF @ < 2 THEN @ + 1 ELSE @]
  <2>1. e.admitted = 0
    BY <1>2, <1>3 DEF Claim, Safe
  <2>2. f \in Envelope /\ f.admitted = 1 /\ f.seq = e.seq
    BY <1>2, <2>1 DEF Envelope
  <2>3. e.seq \in Seqs
    BY <1>2 DEF Envelope
  <2>4. guard'[e.seq] # Forgotten /\ \A s \in Seqs : guard[s] # Forgotten => guard'[s] # Forgotten
    BY <1>3, <2>3 DEF Claim, StreamTypeOK, Forgotten
  <2>5. outstanding'[w] = f /\ \A x \in Workers \ {w} : outstanding'[x] = outstanding[x]
    BY <1>3 DEF Claim, StreamTypeOK
  <2> HIDE DEF f
  <2>6. ASSUME NEW c \in Envelope, Safe(c)
        PROVE  Safe(c)'
    BY <2>4, <2>6 DEF Safe, Envelope
  <2>7. \A c \in sending' : Safe(c)'
    BY <1>1, <2>6 DEF GuardInv, StreamTypeOK
  <2>8. ASSUME NEW x \in Workers, ~Idle(x)'
        PROVE  Safe(outstanding[x])'
    <3>1. CASE x = w
      BY <2>2, <2>4, <2>5, <3>1 DEF Safe
    <3>2. CASE x # w
      <4>1. ~Idle(x) /\ outstanding'[x] = outstanding[x]
        BY <2>5, <2>8, <3>2 DEF Idle
      <4>2. outstanding[x] \in Envelope /\ Safe(outstanding[x])
        BY <4>1, HeldType DEF GuardInv
      <4> QED  BY <2>4, <4>1, <4>2 DEF Safe, Envelope
    <3> QED  BY <3>1, <3>2
  <2> QED  BY <2>7, <2>8 DEF GuardInv
<1>4. CASE ClaimLost(w, e)
  BY <1>1, <1>4, GuardFrame DEF ClaimLost
<1>5. CASE ClaimFailsOpen(w, e)
  BY <1>1, <1>5, GuardFrame DEF ClaimFailsOpen, StreamTypeOK
<1> QED  BY <1>1, <1>3, <1>4, <1>5

LEMMA SendEmailGuard ==
  ASSUME StreamTypeOK, StreamTypeOK', GuardInv, Dispatch
  PROVE  GuardInv'
<1>1. PICK k \in Keys, b \in BOOLEAN : SendEmail(k, b)
  BY DEF Dispatch
<1>2. ASSUME NEW e \in sending'
      PROVE  Safe(e)'
  <2>1. e \in sending \/ e.admitted = 0
    BY <1>1 DEF SendEmail
  <2>2. UNCHANGED guard
    BY DEF Dispatch
  <2> QED  BY <2>1, <2>2 DEF Safe, GuardInv
<1>3. ASSUME NEW w \in Workers, ~Idle(w)'
      PROVE  Safe(outstanding[w])'
  BY <1>3 DEF Dispatch, Idle, Safe, GuardInv
<1> QED  BY <1>2, <1>3 DEF GuardInv

LEMMA WaitGuard ==
  ASSUME Prompt, StreamTypeOK, StreamTypeOK', GuardInv, Wait
  PROVE  GuardInv'
<1>1. UNCHANGED <<sending, outstanding>>
  BY DEF Wait
<1>2. SettledInTime
  BY DEF Wait, SenderTick
<1>3. \A s \in Seqs : guard[s] # Forgotten /\ guard[s] # TTL => guard'[s] # Forgotten
  BY StreamAssumption DEF StreamAssumption, Wait, SenderTick, GuardTick, StreamTypeOK, Forgotten
<1>4. ASSUME NEW e \in sending'
      PROVE  Safe(e)'
  <2>1. e \in sending /\ e.seq \in Seqs /\ Safe(e)
    BY <1>1 DEF StreamTypeOK, Envelope, GuardInv
  <2>2. guard[e.seq] # TTL
    BY <1>2, <2>1 DEF SettledInTime
  <2> QED  BY <1>3, <2>1, <2>2 DEF Safe
<1>5. ASSUME NEW w \in Workers, ~Idle(w)'
      PROVE  Safe(outstanding[w])'
  <2>1. ~Idle(w) /\ outstanding'[w] = outstanding[w]
    BY <1>1, <1>5 DEF Idle
  <2>2. outstanding[w].seq \in Seqs /\ Safe(outstanding[w])
    BY <2>1, HeldType DEF Envelope, GuardInv
  <2>3. guard[outstanding[w].seq] # TTL
    BY <1>2, <2>2 DEF SettledInTime
  <2> QED  BY <1>3, <2>1, <2>2, <2>3 DEF Safe
<1> QED  BY <1>4, <1>5 DEF GuardInv

LEMMA GuardStep ==
  ASSUME Prompt, StreamTypeOK, StreamTypeOK', GuardInv, [SenderNext]_streamVars
  PROVE  GuardInv'
<1>1. CASE Consume \/ UNCHANGED streamVars
  BY <1>1, GuardFrame DEF Consume, streamVars
<1>2. ASSUME NEW w \in Workers, Report(w)
      PROVE  GuardInv'
  BY <1>2, GuardFrame DEF Report, StreamTypeOK
<1>3. ASSUME NEW w \in Workers, ReportRefused(w) \/ AckDeadline(w)
      PROVE  GuardInv'
  BY <1>3, GuardFrame DEF ReportRefused, AckDeadline, StreamTypeOK
<1> QED  BY <1>1, <1>2, <1>3, HandleMessageGuard, SendEmailGuard, WaitGuard
         DEF SenderNext, SenderStep

(* However many workers share the stream, and whatever redeliveries,       *)
(* crashes, refused reports and unreachable guards they meet: while an     *)
(* admitted Envelope is settled before its entry expires, the guard admits *)
(* it once.                                                                *)
THEOREM OneTransaction == Prompt /\ SenderSpec => []OneTransactionPerEnvelope
<1>1. StreamInit => StreamTypeOK /\ GuardInv
  BY SenderInitType DEF StreamInit, GuardInv, Idle
<1>2. Prompt /\ StreamTypeOK /\ GuardInv /\ [SenderNext]_streamVars => (StreamTypeOK /\ GuardInv)'
  BY SenderNextType, GuardStep
<1>3. GuardInv => OneTransactionPerEnvelope
  BY DEF GuardInv, Safe, OneTransactionPerEnvelope
<1>4. CASE Prompt
  <2>1. StreamTypeOK /\ GuardInv /\ [SenderNext]_streamVars => (StreamTypeOK /\ GuardInv)'
    BY <1>2, <1>4
  <2> QED  BY <1>1, <1>3, <2>1, PTL DEF SenderSpec
<1> QED  BY <1>4

-----------------------------------------------------------------------------
(* Types of the Validator's steps.                                         *)
Local == StreamTypeOK /\ ValidatorTypeOK /\ DispatcherTypeOK

LEMMA VerdictType ==
  ASSUME ValidatorTypeOK, NEW v \in Validators, validator[v].verdict # NoVerdict
  PROVE  validator[v].verdict[1] \in Rows
BY DEF ValidatorTypeOK

LEMMA PageWithoutType ==
  ASSUME ValidatorTypeOK, NEW v \in Validators, NEW r \in Rows,
         validator' = [validator EXCEPT ![v] = PageWithout(v, r)]
  PROVE  ValidatorTypeOK'
<1> DEFINE Type == [page    : SUBSET Rows,
                    age     : 0..(ValidateTimeout + 1),
                    verdict : {NoVerdict} \cup {<<x>> : x \in Rows}]
<1>1. Resting \in Type
  BY ValidatorAssumption DEF ValidatorAssumption, Resting
<1>2. [validator[v] EXCEPT !.page = @ \ {r}, !.verdict = NoVerdict] \in Type
  BY DEF ValidatorTypeOK
<1> QED  BY <1>1, <1>2 DEF ValidatorTypeOK, PageWithout

LEMMA ValidateType ==
  ASSUME StreamTypeOK, ValidatorTypeOK, NEW v \in Validators,
         ValidatorStep(v) \/ ValidatorFault(v)
  PROVE  StreamTypeOK' /\ ValidatorTypeOK'
<1>1. CASE ClaimForValidation(v)
  <2>1. StreamTypeOK'
    BY <1>1, StreamUnchanged DEF ClaimForValidation
  <2> QED  BY <1>1, <2>1 DEF ClaimForValidation, ValidatorTypeOK
<1>2. CASE JudgeDelivery(v)
  <2>1. StreamTypeOK'
    BY <1>2, StreamUnchanged DEF JudgeDelivery
  <2> QED  BY <1>2, <2>1 DEF JudgeDelivery, ValidatorTypeOK
<1>3. CASE PublishVerdict(v)
  <2> DEFINE r == validator[v].verdict[1]
             t == IF KeyOf[r] \in ValidKeys THEN "accepted" ELSE "rejected"
  <2>1. r \in Rows
    BY <1>3, VerdictType DEF PublishVerdict
  <2>2. KeyOf[r] \in Keys /\ t \in Outcomes
    BY <2>1, PoolAssumption DEF PoolAssumption, Outcomes
  <2>3. PublishStat(t, KeyOf[r]) /\ UNCHANGED <<sending, outstanding, guard>>
    BY <1>3 DEF PublishVerdict
  <2>4. StreamTypeOK'
    <3> HIDE DEF r, t
    <3> QED  BY <2>2, <2>3, PublishStatType DEF StreamTypeOK
  <2> QED  BY <1>3, <2>1, <2>4, PageWithoutType DEF PublishVerdict
<1>4. CASE SkipDelivery(v)
  <2>1. StreamTypeOK'
    BY <1>4, FaultType DEF SkipDelivery, StreamTypeOK
  <2>2. PICK r \in Rows : validator' = [validator EXCEPT ![v] = PageWithout(v, r)]
    BY <1>4, VerdictType DEF SkipDelivery, ValidatorTypeOK
  <2> QED  BY <2>1, <2>2, PageWithoutType
<1>5. CASE CrashValidator(v)
  <2>1. StreamTypeOK'
    BY <1>5, FaultType DEF CrashValidator, StreamTypeOK
  <2>2. ValidatorTypeOK'
    BY <1>5, ValidatorAssumption
       DEF ValidatorAssumption, CrashValidator, Resting, ValidatorTypeOK
  <2> QED  BY <2>1, <2>2
<1> QED  BY <1>1, <1>2, <1>3, <1>4, <1>5 DEF ValidatorStep, ValidatorFault

LEMMA ValidatorTickType ==
  ASSUME ValidatorTypeOK, ValidatorTick
  PROVE  ValidatorTypeOK'
BY ValidatorAssumption DEF ValidatorAssumption, ValidatorTick, ValidatorTypeOK

-----------------------------------------------------------------------------
(* Types of the Dispatcher's steps.                                        *)
LEMMA BusyType ==
  ASSUME DispatcherTypeOK, NEW t \in Threads, job[t] # IdleJob
  PROVE  job[t] \in Jobs
BY DEF DispatcherTypeOK

LEMMA PcType ==
  ASSUME DispatcherTypeOK, NEW t \in Threads,
         job[t].pc \in {"reschedule", "update", "fail", "drop"}
  PROVE  job[t] \in Jobs /\ job[t].key \in Keys /\ job[t].next \in 0..Horizon
BY DEF DispatcherTypeOK, IdleJob, Jobs

LEMMA JobType ==
  ASSUME NEW pc \in {"reschedule", "update", "fail", "drop"}, NEW k \in Keys
  PROVE  Job(pc, k) \in Jobs
BY PoolAssumption DEF PoolAssumption, Job, Jobs

LEMMA RetryOrFailType ==
  ASSUME NEW k \in Keys, NEW n
  PROVE  RetryOrFail(k, n) \in Jobs
BY JobType DEF RetryOrFail

LEMMA GotoType ==
  ASSUME DispatcherTypeOK, NEW t \in Threads, NEW j \in Jobs \cup {IdleJob}, Goto(t, j)
  PROVE  job' \in [Threads -> Jobs \cup {IdleJob}]
BY DEF DispatcherTypeOK, Goto

LEMMA ThreadType ==
  ASSUME NEW d \in Dispatchers, NEW s \in Consumed \cup {"cycle"}
  PROVE  <<d, s>> \in Threads
BY DEF Threads

LEMMA CycleType ==
  ASSUME PoolTypeOK, StreamTypeOK, DispatcherTypeOK, NEW d \in Dispatchers,
         CycleStep(d) \/ DispatchFails(d)
  PROVE  StreamTypeOK' /\ DispatcherTypeOK'
<1>1. CASE ClaimForDispatch(d)
  <2>1. PICK R \in SUBSET Rows : page' = [page EXCEPT ![d] =
          {[row |-> r, attempts |-> pool[r].attempts] : r \in R}]
    BY <1>1 DEF ClaimForDispatch
  <2>2. {[row |-> r, attempts |-> pool[r].attempts] : r \in R} \subseteq Deliveries
    BY DEF PoolTypeOK, Deliveries
  <2>3. page' \in [Dispatchers -> SUBSET Deliveries]
    BY <2>1, <2>2 DEF DispatcherTypeOK
  <2>4. StreamTypeOK'
    BY <1>1, StreamUnchanged DEF ClaimForDispatch
  <2> QED  BY <1>1, <2>3, <2>4 DEF ClaimForDispatch, DispatcherTypeOK
<1>2. CASE DispatchOne(d)
  <2>1. PICK dlv \in page[d] : /\ SendEmail(KeyOf[dlv.row], ShouldRetry(dlv))
                               /\ page' = [page EXCEPT ![d] = @ \ {dlv}]
    BY <1>2 DEF DispatchOne
  <2>2. KeyOf[dlv.row] \in Keys
    BY PoolAssumption DEF PoolAssumption, DispatcherTypeOK, Deliveries
  <2>3. ShouldRetry(dlv) \in BOOLEAN
    BY DEF ShouldRetry, CanRetry
  <2>4. StreamTypeOK'
    BY <1>2, <2>1, <2>2, <2>3, SendEmailType DEF DispatchOne, StreamTypeOK
  <2> QED  BY <1>2, <2>1, <2>4 DEF DispatchOne, DispatcherTypeOK
<1>3. CASE DispatchFails(d)
  <2>1. PICK dlv \in page[d] :
          /\ page' = [page EXCEPT ![d] = @ \ {dlv}]
          /\ Goto(<<d, "cycle">>, RetryOrFail(KeyOf[dlv.row], dlv.attempts))
    BY <1>3 DEF DispatchFails
  <2>2. RetryOrFail(KeyOf[dlv.row], dlv.attempts) \in Jobs
    BY PoolAssumption, RetryOrFailType DEF PoolAssumption, DispatcherTypeOK, Deliveries
  <2>3. job' \in [Threads -> Jobs \cup {IdleJob}]
    BY <2>1, <2>2, GotoType, ThreadType
  <2>4. StreamTypeOK'
    BY <1>3, FaultType DEF DispatchFails, StreamTypeOK
  <2> QED  BY <1>3, <2>1, <2>3, <2>4 DEF DispatchFails, DispatcherTypeOK
<1> QED  BY <1>1, <1>2, <1>3 DEF CycleStep

LEMMA TakeStatType ==
  ASSUME PoolTypeOK, StreamTypeOK, DispatcherTypeOK,
         NEW d \in Dispatchers, NEW s \in Consumed, TakeStat(d, s)
  PROVE  StreamTypeOK' /\ DispatcherTypeOK'
<1>1. PICK k \in Keys :
        /\ stats[<<s, k>>] > 0
        /\ stats' = [stats EXCEPT ![<<s, k>>] = @ - 1]
        /\ \/ UNCHANGED job
           \/ \E r \in RowsOf(k) :
                Goto(<<d, s>>, IF s = "error" THEN RetryOrFail(k, pool[r].attempts)
                                              ELSE Job("drop", k))
  BY DEF TakeStat
<1>2. job' \in [Threads -> Jobs \cup {IdleJob}]
  BY <1>1, JobType, RetryOrFailType, GotoType, ThreadType DEF DispatcherTypeOK
<1>3. stats' \in [Consumed \X Keys -> 0..MaxPending]
  BY <1>1, StreamAssumption DEF StreamAssumption, StreamTypeOK
<1> QED  BY <1>2, <1>3 DEF TakeStat, StreamTypeOK, DispatcherTypeOK

LEMMA JobStepType ==
  ASSUME PoolTypeOK, StreamTypeOK, DispatcherTypeOK, NEW t \in Threads, JobStep(t)
  PROVE  StreamTypeOK' /\ DispatcherTypeOK'
<1>0. IdleJob \in Jobs \cup {IdleJob}
  OBVIOUS
<1>1. CASE RescheduleGet(t)
  <2>1. job' \in [Threads -> Jobs \cup {IdleJob}]
    <3>1. CASE Goto(t, IdleJob)
      BY <1>0, <3>1, GotoType
    <3>2. ASSUME NEW r \in RowsOf(job[t].key),
                 Goto(t, [job[t] EXCEPT !.pc = "update",
                                        !.next = NextRetryAt(pool[r].attempts)])
          PROVE  job' \in [Threads -> Jobs \cup {IdleJob}]
      <4>1. NextRetryAt(pool[r].attempts) \in 0..Horizon
        BY NextRetryType DEF PoolTypeOK, RowsOf
      <4>2. job[t] \in Jobs
        BY <1>1, PcType DEF RescheduleGet
      <4>3. [job[t] EXCEPT !.pc = "update", !.next = NextRetryAt(pool[r].attempts)] \in Jobs
        BY <4>1, <4>2 DEF Jobs
      <4> QED  BY <3>2, <4>3, GotoType
    <3> QED  BY <1>1, <3>1, <3>2 DEF RescheduleGet
  <2>2. StreamTypeOK'
    BY <1>1, StreamUnchanged DEF RescheduleGet
  <2> QED  BY <1>1, <2>1, <2>2 DEF RescheduleGet, DispatcherTypeOK
<1>2. CASE RescheduleUpdate(t)
  <2>1. StreamTypeOK'
    BY <1>2, StreamUnchanged DEF RescheduleUpdate
  <2> QED  BY <1>0, <1>2, <2>1, GotoType DEF RescheduleUpdate, DispatcherTypeOK
<1>3. CASE FailPublish(t)
  <2>1. job[t] \in Jobs /\ job[t].key \in Keys
    BY <1>3, PcType DEF FailPublish
  <2>2. [job[t] EXCEPT !.pc = "drop"] \in Jobs
    BY <2>1 DEF Jobs
  <2>3. job' \in [Threads -> Jobs \cup {IdleJob}]
    BY <1>3, <2>2, GotoType DEF FailPublish
  <2>4. "failed" \in Outcomes
    BY DEF Outcomes
  <2>5. StreamTypeOK'
    BY <1>3, <2>1, <2>4, PublishStatType DEF FailPublish, StreamTypeOK
  <2> QED  BY <1>3, <2>3, <2>5 DEF FailPublish, DispatcherTypeOK
<1>4. CASE Drop(t)
  <2>1. StreamTypeOK'
    BY <1>4, StreamUnchanged DEF Drop
  <2> QED  BY <1>0, <1>4, <2>1, GotoType DEF Drop, DispatcherTypeOK
<1> QED  BY <1>1, <1>2, <1>3, <1>4 DEF JobStep

LEMMA DispatcherFaultType ==
  ASSUME StreamTypeOK, DispatcherTypeOK, NEW d \in Dispatchers, DispatcherFault(d)
  PROVE  StreamTypeOK' /\ DispatcherTypeOK'
<1>1. ASSUME NEW t \in Threads, JobFails(t)
      PROVE  StreamTypeOK' /\ DispatcherTypeOK'
  <2>1. job[t].key \in Keys
    BY <1>1, BusyType DEF JobFails, Jobs
  <2>2. stats' \in [Consumed \X Keys -> 0..MaxPending]
    BY <1>1, <2>1, ReadyType DEF JobFails, StreamTypeOK
  <2>3. job' \in [Threads -> Jobs \cup {IdleJob}]
    BY <1>1, GotoType DEF JobFails
  <2> QED  BY <1>1, <2>2, <2>3, FaultType DEF JobFails, StreamTypeOK, DispatcherTypeOK
<1>2. ASSUME NEW t \in Threads, RedeliverStat(t)
      PROVE  StreamTypeOK' /\ DispatcherTypeOK'
  <2>1. job[t].key \in Keys
    BY <1>2, BusyType DEF RedeliverStat, Jobs
  <2>2. stats' \in [Consumed \X Keys -> 0..MaxPending]
    BY <1>2, <2>1, ReadyType DEF RedeliverStat
  <2> QED  BY <1>2, <2>2, FaultType DEF RedeliverStat, StreamTypeOK, DispatcherTypeOK
<1>3. CASE CrashDispatcher(d)
  <2>1. stats' \in [Consumed \X Keys -> 0..MaxPending]
    BY <1>3, StreamAssumption DEF StreamAssumption, CrashDispatcher, StreamTypeOK
  <2>2. job' \in [Threads -> Jobs \cup {IdleJob}] /\ page' \in [Dispatchers -> SUBSET Deliveries]
    BY <1>3 DEF CrashDispatcher, DispatcherTypeOK
  <2> QED  BY <1>3, <2>1, <2>2, FaultType
           DEF CrashDispatcher, StreamTypeOK, DispatcherTypeOK
<1> QED  BY <1>1, <1>2, <1>3, ThreadType DEF DispatcherFault

-----------------------------------------------------------------------------
(* Every step of the pipeline is one statement of the Pool, or leaves the  *)
(* table alone.                                                            *)
LEMMA PoolStep ==
  ASSUME TypeOK, [Next]_vars
  PROVE  [PoolNext]_poolVars
<1>1. CASE Intake
  BY <1>1 DEF Intake, PoolNext
<1>2. CASE Tick
  BY <1>2 DEF Tick, PoolNext
<1>3. ASSUME NEW v \in Validators, Validate(v)
      PROVE  [PoolNext]_poolVars
  <2>1. CASE ClaimForValidation(v)
    BY <2>1 DEF ClaimForValidation, PoolNext
  <2>2. CASE JudgeDelivery(v)
    <3>1. PICK r \in validator[v].page :
            SetSendingPoolScheduled(KeyOf[r]) \/ CleanPool(KeyOf[r])
      BY <2>2 DEF JudgeDelivery
    <3>2. KeyOf[r] \in Keys
      BY PoolAssumption DEF PoolAssumption, TypeOK, ValidatorTypeOK
    <3> QED  BY <3>1, <3>2 DEF PoolNext
  <2>3. CASE UNCHANGED poolVars
    BY <2>3
  <2> QED  BY <1>3, <2>1, <2>2, <2>3
           DEF Validate, ValidatorStep, ValidatorFault, PublishVerdict, SkipDelivery,
               CrashValidator
<1>4. CASE ValidateReclaim
  BY <1>4 DEF ValidateReclaim, ReclaimValidating, PoolNext, InFlight
<1>5. ASSUME NEW d \in Dispatchers, Cycle(d)
      PROVE  [PoolNext]_poolVars
  BY <1>5 DEF Cycle, CycleStep, ClaimForDispatch, DispatchOne, DispatchFails, PoolNext
<1>6. ASSUME NEW t \in Threads, Work(t)
      PROVE  [PoolNext]_poolVars
  <2>1. CASE RescheduleUpdate(t)
    <3>1. job[t].key \in Keys /\ job[t].next \in 0..Horizon
      BY <2>1, PcType DEF RescheduleUpdate, TypeOK
    <3> QED  BY <2>1, <3>1 DEF RescheduleUpdate, PoolNext
  <2>2. CASE Drop(t)
    <3>1. job[t].key \in Keys
      BY <2>2, PcType DEF Drop, TypeOK
    <3> QED  BY <2>2, <3>1 DEF Drop, PoolNext
  <2>3. CASE UNCHANGED poolVars
    BY <2>3
  <2> QED  BY <1>6, <2>1, <2>2, <2>3 DEF Work, JobStep, RescheduleGet, FailPublish
<1>7. CASE DispatchReclaim
  BY <1>7 DEF DispatchReclaim, ReclaimSending, PoolNext, InFlight
<1>8. CASE UNCHANGED poolVars
  BY <1>8
<1>9. ASSUME NEW d \in Dispatchers, Cycling(d)
      PROVE  [PoolNext]_poolVars
  BY <1>5, <1>6, <1>9, ThreadType DEF Cycling
<1>10. ASSUME NEW d \in Dispatchers, NEW s \in Consumed, Consuming(d, s)
       PROVE  [PoolNext]_poolVars
  BY <1>6, <1>8, <1>10, ThreadType DEF Consuming, Stat, TakeStat
<1>11. ASSUME NEW d \in Dispatchers, DispatcherFault(d)
       PROVE  UNCHANGED poolVars
  BY <1>11 DEF DispatcherFault, JobFails, RedeliverStat, CrashDispatcher
<1> QED  BY <1>1, <1>2, <1>3, <1>4, <1>7, <1>8, <1>9, <1>10, <1>11
         DEF Next, vars, DeleteTemplate, Send

LEMMA TypeStep ==
  ASSUME TypeOK, InFlightIsStamped, [Next]_vars
  PROVE  TypeOK' /\ InFlightIsStamped'
<1>0. PoolTypeOK' /\ InFlightIsStamped'
  BY PoolStep, PoolNextInv DEF TypeOK, PoolInv
<1> SUFFICES Local'
  BY <1>0 DEF TypeOK, Local
<1> USE DEF TypeOK, Local
<1>1. CASE UNCHANGED vars
  BY <1>1, StreamUnchanged
     DEF vars, validatorVars, dispatcherVars, ValidatorTypeOK, DispatcherTypeOK
<1>2. CASE Intake
  BY <1>2, StreamUnchanged
     DEF Intake, validatorVars, dispatcherVars, ValidatorTypeOK, DispatcherTypeOK
<1>3. CASE Tick
  <2>1. guard' \in [Seqs -> (0..TTL) \cup {Forgotten}]
    BY <1>3, GuardTickType DEF Tick, SenderTick
  <2>2. StreamTypeOK'
    BY <1>3, <2>1 DEF Tick, StreamTypeOK
  <2>3. ValidatorTypeOK'
    BY <1>3, ValidatorTickType DEF Tick
  <2> QED  BY <1>3, <2>2, <2>3 DEF Tick, dispatcherVars, DispatcherTypeOK
<1>4. ASSUME NEW v \in Validators, Validate(v)
      PROVE  Local'
  BY <1>4, ValidateType DEF Validate, dispatcherVars, DispatcherTypeOK
<1>5. CASE ValidateReclaim
  BY <1>5, StreamUnchanged
     DEF ValidateReclaim, ReclaimValidating, dispatcherVars, ValidatorTypeOK, DispatcherTypeOK
<1>6. ASSUME NEW t \in Threads, Work(t)
      PROVE  Local'
  BY <1>6, JobStepType DEF Work, validatorVars, ValidatorTypeOK
<1>7. ASSUME NEW d \in Dispatchers, Cycling(d)
      PROVE  Local'
  BY <1>6, <1>7, CycleType, ThreadType DEF Cycling, Cycle, validatorVars, ValidatorTypeOK
<1>8. ASSUME NEW d \in Dispatchers, NEW s \in Consumed, Consuming(d, s)
      PROVE  Local'
  BY <1>6, <1>8, TakeStatType, ThreadType DEF Consuming, Stat, validatorVars, ValidatorTypeOK
<1>9. ASSUME NEW d \in Dispatchers, DispatcherFault(d) /\ UNCHANGED validatorVars
      PROVE  Local'
  BY <1>9, DispatcherFaultType DEF validatorVars, ValidatorTypeOK
<1>10. CASE DispatchReclaim
  BY <1>10, StreamUnchanged
     DEF DispatchReclaim, ReclaimSending, validatorVars, dispatcherVars, ValidatorTypeOK,
         DispatcherTypeOK
<1>11. ASSUME NEW k \in Keys, DeleteTemplate(k) /\ UNCHANGED validatorVars
       PROVE  Local'
  BY <1>11, StreamUnchanged DEF DeleteTemplate, validatorVars, ValidatorTypeOK, DispatcherTypeOK
<1>12. ASSUME NEW w \in Workers, Send(w)
       PROVE  Local'
  BY <1>12, SenderStepType
     DEF Send, validatorVars, dispatcherVars, ValidatorTypeOK, DispatcherTypeOK
<1> QED  BY <1>1, <1>2, <1>3, <1>4, <1>5, <1>7, <1>8, <1>9, <1>10, <1>11, <1>12 DEF Next

LEMMA TypeInit == Init => TypeOK /\ InFlightIsStamped
<1> SUFFICES ASSUME Init PROVE TypeOK /\ InFlightIsStamped
  OBVIOUS
<1>1. PoolTypeOK /\ InFlightIsStamped
  BY PoolInitInv DEF Init, PoolInv
<1>2. StreamTypeOK
  BY StreamAssumption DEF StreamAssumption, Init, StreamInit, StreamTypeOK
<1>3. ValidatorTypeOK
  BY ValidatorAssumption
     DEF ValidatorAssumption, Init, ValidatorInit, ValidatorTypeOK, Resting
<1>4. DispatcherTypeOK
  BY DEF Init, DispatcherInit, DispatcherTypeOK
<1> QED  BY <1>1, <1>2, <1>3, <1>4 DEF TypeOK

(* Whatever the components do and whatever fails, every variable keeps its *)
(* type and every row in flight carries the instant of its claim.          *)
THEOREM PipelineTypes == Spec => [](TypeOK /\ InFlightIsStamped)
<1>1. TypeOK /\ InFlightIsStamped /\ [Next]_vars => (TypeOK /\ InFlightIsStamped)'
  BY TypeStep
<1> QED  BY <1>1, TypeInit, PTL DEF Spec

(* The pipeline implements the Pool: what the Pool promises to clients of  *)
(* any kind it promises to these.                                          *)
THEOREM PipelineImplementsPool == Spec => PoolSpec
<1>1. Init => PoolInit
  BY DEF Init
<1>2. TypeOK /\ [Next]_vars => [PoolNext]_poolVars
  BY PoolStep
<1> QED  BY <1>1, <1>2, PipelineTypes, PTL DEF Spec, PoolSpec

-----------------------------------------------------------------------------
(* No silent loss.  The rows are deleted by jobs that were handed a stat,  *)
(* or a verdict, some steps earlier; what makes the property inductive is  *)
(* that none of these is ever waiting without its outcome having been      *)
(* published before.                                                       *)
Ending == {"delivered", "bounced", "failed"}

(* A stat in a consumer's queue was published.                             *)
QueuedWasPublished ==
  \A s \in Consumed, k \in Keys : stats[<<s, k>>] > 0 => s \in published[k]

(* So was the stat a consumer is handling, which a failure queues again.   *)
HandledWasPublished ==
  \A t \in Threads : job[t] # IdleJob /\ t[2] \in Consumed => t[2] \in published[job[t].key]

(* A job about to drop a row has an outcome to show for it.                *)
DropWasPublished ==
  \A t \in Threads : job[t].pc = "drop" => published[job[t].key] \cap Ending # {}

LossInv ==
  /\ QueuedWasPublished
  /\ HandledWasPublished
  /\ DropWasPublished
  /\ NoSilentLoss

(* Nothing published is ever forgotten.                                    *)
Remembered == \A k \in Keys : published[k] \subseteq published'[k]

(* A step that adds no job, queues only what was published and deletes no  *)
(* valid row preserves the invariant.                                      *)
LEMMA LossFrame ==
  ASSUME TypeOK, LossInv, Remembered,
         \A s \in Consumed, k \in Keys : stats'[<<s, k>>] > 0 => s \in published'[k],
         \A t \in Threads : job'[t] = job[t] \/ job'[t] = IdleJob,
         \A r \in Rows : pool'[r].status = "deleted" /\ KeyOf[r] \in ValidKeys
           => pool[r].status = "deleted"
  PROVE  LossInv'
<1>1. QueuedWasPublished'
  BY DEF QueuedWasPublished
<1>2. HandledWasPublished'
  BY BusyType DEF HandledWasPublished, LossInv, Remembered, TypeOK, Jobs
<1>3. DropWasPublished'
  <2> SUFFICES ASSUME NEW t \in Threads, job'[t].pc = "drop"
               PROVE  published'[job'[t].key] \cap Ending # {}
    BY DEF DropWasPublished
  <2>1. job'[t] = job[t]
    BY DEF IdleJob
  <2>2. job[t].key \in Keys
    BY <2>1, PcType DEF TypeOK
  <2> QED  BY <2>1, <2>2 DEF DropWasPublished, LossInv, Remembered
<1>4. NoSilentLoss'
  BY PoolAssumption DEF PoolAssumption, NoSilentLoss, LossInv, Remembered
<1> QED  BY <1>1, <1>2, <1>3, <1>4 DEF LossInv

LEMMA PublishStatLoss ==
  ASSUME TypeOK, LossInv, NEW t \in Outcomes, NEW k \in Keys, PublishStat(t, k)
  PROVE  /\ Remembered
         /\ t \in published'[k]
         /\ \A s \in Consumed, x \in Keys : stats'[<<s, x>>] > 0 => s \in published'[x]
<1>1. Remembered /\ t \in published'[k]
  BY DEF PublishStat, TypeOK, StreamTypeOK, Remembered
<1>2. CASE UNCHANGED stats
  BY <1>1, <1>2 DEF LossInv, QueuedWasPublished, Remembered
<1>3. CASE t \in Consumed /\ stats' = [stats EXCEPT ![<<t, k>>] = @ + 1]
  <2> SUFFICES ASSUME NEW s \in Consumed, NEW x \in Keys, stats'[<<s, x>>] > 0
               PROVE  s \in published'[x]
    BY <1>1
  <2>1. CASE s = t /\ x = k
    BY <1>1, <2>1
  <2>2. CASE ~(s = t /\ x = k)
    <3>1. stats'[<<s, x>>] = stats[<<s, x>>]
      BY <1>3, <2>2 DEF TypeOK, StreamTypeOK
    <3> QED  BY <1>1, <3>1 DEF LossInv, QueuedWasPublished, Remembered
  <2> QED  BY <2>1, <2>2
<1> QED  BY <1>1, <1>2, <1>3 DEF PublishStat

(* A stat that was published may be queued again.                          *)
LEMMA ReadyLoss ==
  ASSUME TypeOK, LossInv, NEW t \in Consumed, NEW k \in Keys, t \in published[k],
         Ready(t, k), UNCHANGED published
  PROVE  \A s \in Consumed, x \in Keys : stats'[<<s, x>>] > 0 => s \in published'[x]
<1> SUFFICES ASSUME NEW s \in Consumed, NEW x \in Keys, stats'[<<s, x>>] > 0
             PROVE  s \in published[x]
  OBVIOUS
<1>1. CASE s = t /\ x = k
  BY <1>1
<1>2. CASE ~(s = t /\ x = k)
  <2>1. stats'[<<s, x>>] = stats[<<s, x>>]
    BY <1>2 DEF Ready, TypeOK, StreamTypeOK
  <2> QED  BY <2>1 DEF LossInv, QueuedWasPublished
<1> QED  BY <1>1, <1>2

(* The statements that delete nothing.                                     *)
LEMMA NothingDeleted ==
  ASSUME PoolTypeOK, NEW r \in Rows, pool'[r].status = "deleted",
         \/ \E R \in SUBSET Rows, lead \in 0..MaxLead : CreatePool(R, lead)
         \/ \E R \in SUBSET Rows : PrepareForValidate(R) \/ PrepareForSend(R)
         \/ \E k \in Keys : SetSendingPoolScheduled(k)
         \/ \E k \in Keys, next \in 0..Horizon : ReschedulePool(k, next)
         \/ \E from \in InFlight : ReclaimStranded(from)
         \/ PoolTick
         \/ UNCHANGED poolVars
  PROVE  pool[r].status = "deleted"
<1>1. ASSUME NEW R \in SUBSET Rows, NEW lead \in 0..MaxLead, CreatePool(R, lead)
      PROVE  pool[r].status = "deleted"
  BY <1>1 DEF PoolTypeOK, CreatePool, Update, Row
<1>2. ASSUME NEW R \in SUBSET Rows, PrepareForValidate(R) \/ PrepareForSend(R)
      PROVE  pool[r].status = "deleted"
  BY <1>2, ZenonT(60) DEF PoolTypeOK, PrepareForValidate, PrepareForSend, Update
<1>3. ASSUME NEW k \in Keys, SetSendingPoolScheduled(k)
      PROVE  pool[r].status = "deleted"
  BY <1>3 DEF PoolTypeOK, SetSendingPoolScheduled, Update
<1>4. ASSUME NEW k \in Keys, NEW next \in 0..Horizon, ReschedulePool(k, next)
      PROVE  pool[r].status = "deleted"
  BY <1>4, ZenonT(60) DEF PoolTypeOK, ReschedulePool, Update
<1>5. ASSUME NEW from \in InFlight, ReclaimStranded(from)
      PROVE  pool[r].status = "deleted"
  BY <1>5, ReclaimTargetType, ZenonT(60) DEF PoolTypeOK, ReclaimStranded, Update
<1>6. CASE PoolTick
  BY <1>6 DEF PoolTypeOK, PoolTick, Update
<1>7. CASE UNCHANGED poolVars
  BY <1>7 DEF poolVars
<1> QED  BY <1>1, <1>2, <1>3, <1>4, <1>5, <1>6, <1>7

(* Steps that publish nothing, queue nothing and start no job.             *)
LEMMA QuietLoss ==
  ASSUME TypeOK, LossInv, UNCHANGED <<stats, published>>,
         \A t \in Threads : job'[t] = job[t] \/ job'[t] = IdleJob,
         \A r \in Rows : pool'[r].status = "deleted" /\ KeyOf[r] \in ValidKeys
           => pool[r].status = "deleted"
  PROVE  LossInv'
<1>1. Remembered
  BY DEF Remembered
<1>2. \A s \in Consumed, k \in Keys : stats'[<<s, k>>] > 0 => s \in published'[k]
  BY DEF LossInv, QueuedWasPublished
<1> QED  BY <1>1, <1>2, LossFrame

(* Steps that publish a stat, start no job and leave the table alone.      *)
LEMMA ReportLoss ==
  ASSUME TypeOK, LossInv, NEW t \in Outcomes, NEW k \in Keys, PublishStat(t, k),
         UNCHANGED <<pool, job>>
  PROVE  LossInv'
BY PublishStatLoss, LossFrame

LEMMA ValidateLoss ==
  ASSUME TypeOK, LossInv, NEW v \in Validators, Validate(v)
  PROVE  LossInv'
<1>0. UNCHANGED job
  BY DEF Validate, dispatcherVars
<1>1. CASE ClaimForValidation(v)
  <2>1. \E R \in SUBSET Rows : PrepareForValidate(R)
    BY <1>1 DEF ClaimForValidation
  <2>2. UNCHANGED <<stats, published>>
    BY <1>1 DEF ClaimForValidation, streamVars
  <2> QED  BY <1>0, <2>1, <2>2, NothingDeleted, QuietLoss DEF TypeOK
<1>2. CASE JudgeDelivery(v)
  <2>1. PICK x \in validator[v].page :
          IF KeyOf[x] \in ValidKeys THEN SetSendingPoolScheduled(KeyOf[x])
                                    ELSE CleanPool(KeyOf[x])
    BY <1>2 DEF JudgeDelivery
  <2>2. KeyOf[x] \in Keys
    BY PoolAssumption DEF PoolAssumption, TypeOK, ValidatorTypeOK
  <2>3. UNCHANGED <<stats, published>>
    BY <1>2 DEF JudgeDelivery, streamVars
  <2>4. ASSUME NEW r \in Rows, pool'[r].status = "deleted", KeyOf[r] \in ValidKeys
        PROVE  pool[r].status = "deleted"
    <3>1. CASE SetSendingPoolScheduled(KeyOf[x])
      BY <2>2, <2>4, <3>1, NothingDeleted DEF TypeOK
    <3>2. CASE KeyOf[x] \notin ValidKeys /\ CleanPool(KeyOf[x])
      BY <2>4, <3>2 DEF CleanPool, Update, RowsOf
    <3> QED  BY <2>1, <3>1, <3>2
  <2> QED  BY <1>0, <2>3, <2>4, QuietLoss
<1>3. CASE PublishVerdict(v)
  <2> DEFINE r == validator[v].verdict[1]
             t == IF KeyOf[r] \in ValidKeys THEN "accepted" ELSE "rejected"
  <2>1. KeyOf[r] \in Keys /\ t \in Outcomes
    BY <1>3, VerdictType, PoolAssumption
       DEF PoolAssumption, PublishVerdict, TypeOK, Outcomes
  <2>2. PublishStat(t, KeyOf[r]) /\ UNCHANGED pool
    BY <1>3 DEF PublishVerdict, poolVars
  <2> HIDE DEF r, t
  <2> QED  BY <1>0, <2>1, <2>2, ReportLoss
<1>4. CASE SkipDelivery(v) \/ CrashValidator(v)
  BY <1>0, <1>4, QuietLoss DEF SkipDelivery, CrashValidator, poolVars
<1> QED  BY <1>1, <1>2, <1>3, <1>4 DEF Validate, ValidatorStep, ValidatorFault

(* A step that gives thread t the job j, which has its outcome to show.    *)
LEMMA GotoLoss ==
  ASSUME TypeOK, LossInv, Remembered,
         \A s \in Consumed, x \in Keys : stats'[<<s, x>>] > 0 => s \in published'[x],
         NEW t \in Threads, NEW j \in Jobs, Goto(t, j), UNCHANGED pool,
         t[2] \in Consumed => t[2] \in published'[j.key],
         j.pc = "drop" => published'[j.key] \cap Ending # {}
  PROVE  LossInv'
<1>1. job'[t] = j /\ \A u \in Threads \ {t} : job'[u] = job[u]
  BY DEF Goto, TypeOK, DispatcherTypeOK
<1>2. HandledWasPublished'
  <2> SUFFICES ASSUME NEW u \in Threads, job'[u] # IdleJob, u[2] \in Consumed
               PROVE  u[2] \in published'[job'[u].key]
    BY DEF HandledWasPublished
  <2>1. CASE u = t
    BY <1>1, <2>1
  <2>2. CASE u # t
    <3>1. job[u].key \in Keys
      BY <1>1, <2>2, BusyType DEF TypeOK, Jobs
    <3> QED  BY <1>1, <2>2, <3>1 DEF HandledWasPublished, LossInv, Remembered
  <2> QED  BY <2>1, <2>2
<1>3. DropWasPublished'
  <2> SUFFICES ASSUME NEW u \in Threads, job'[u].pc = "drop"
               PROVE  published'[job'[u].key] \cap Ending # {}
    BY DEF DropWasPublished
  <2>1. CASE u = t
    BY <1>1, <2>1
  <2>2. CASE u # t
    <3>1. job[u].key \in Keys
      BY <1>1, <2>2, PcType DEF TypeOK
    <3> QED  BY <1>1, <2>2, <3>1 DEF DropWasPublished, LossInv, Remembered
  <2> QED  BY <2>1, <2>2
<1>4. QueuedWasPublished'
  BY DEF QueuedWasPublished
<1>5. NoSilentLoss'
  BY PoolAssumption DEF PoolAssumption, NoSilentLoss, LossInv, Remembered
<1> QED  BY <1>2, <1>3, <1>4, <1>5 DEF LossInv

LEMMA CycleLoss ==
  ASSUME TypeOK, LossInv, NEW d \in Dispatchers, Cycle(d)
  PROVE  LossInv'
<1>1. CASE ClaimForDispatch(d)
  <2>1. \E R \in SUBSET Rows : PrepareForSend(R)
    BY <1>1 DEF ClaimForDispatch
  <2>2. UNCHANGED <<stats, published, job>>
    BY <1>1 DEF ClaimForDispatch, streamVars
  <2> QED  BY <2>1, <2>2, NothingDeleted, QuietLoss DEF TypeOK
<1>2. CASE DispatchOne(d)
  BY <1>2, QuietLoss DEF DispatchOne, poolVars
<1>3. CASE DispatchFails(d)
  <2>1. PICK dlv \in page[d] :
          Goto(<<d, "cycle">>, RetryOrFail(KeyOf[dlv.row], dlv.attempts))
    BY <1>3 DEF DispatchFails
  <2> DEFINE j == RetryOrFail(KeyOf[dlv.row], dlv.attempts)
  <2>2. j \in Jobs /\ j.pc # "drop"
    BY PoolAssumption, RetryOrFailType
       DEF PoolAssumption, TypeOK, DispatcherTypeOK, Deliveries, RetryOrFail, Job
  <2>3. UNCHANGED <<stats, published, pool>>
    BY <1>3 DEF DispatchFails, poolVars
  <2>4. <<d, "cycle">> \in Threads /\ <<d, "cycle">>[2] \notin Consumed
    BY ThreadType DEF Consumed
  <2>5. Remembered /\ \A s \in Consumed, x \in Keys : stats'[<<s, x>>] > 0 => s \in published'[x]
    BY <2>3 DEF Remembered, LossInv, QueuedWasPublished
  <2> HIDE DEF j
  <2> QED  BY <2>1, <2>2, <2>3, <2>4, <2>5, GotoLoss DEF j
<1> QED  BY <1>1, <1>2, <1>3 DEF Cycle, CycleStep

LEMMA TakeStatLoss ==
  ASSUME TypeOK, LossInv, NEW d \in Dispatchers, NEW s \in Consumed, TakeStat(d, s)
  PROVE  LossInv'
<1>1. PICK k \in Keys :
        /\ stats[<<s, k>>] > 0
        /\ stats' = [stats EXCEPT ![<<s, k>>] = @ - 1]
        /\ \/ UNCHANGED job
           \/ \E r \in RowsOf(k) :
                Goto(<<d, s>>, IF s = "error" THEN RetryOrFail(k, pool[r].attempts)
                                              ELSE Job("drop", k))
  BY DEF TakeStat
<1>2. UNCHANGED <<pool, published>>
  BY DEF TakeStat, poolVars
<1>3. s \in published[k]
  BY <1>1 DEF LossInv, QueuedWasPublished
<1>4. Remembered
  BY <1>2 DEF Remembered
<1>5. ASSUME NEW u \in Consumed, NEW x \in Keys, stats'[<<u, x>>] > 0
      PROVE  u \in published'[x]
  <2>1. stats[<<u, x>>] > 0
    BY <1>1, <1>5 DEF TypeOK, StreamTypeOK
  <2> QED  BY <1>2, <2>1 DEF LossInv, QueuedWasPublished
<1>6. CASE UNCHANGED job
  BY <1>2, <1>4, <1>5, <1>6, LossFrame
<1>7. ASSUME NEW r \in RowsOf(k),
             Goto(<<d, s>>, IF s = "error" THEN RetryOrFail(k, pool[r].attempts)
                                           ELSE Job("drop", k))
      PROVE  LossInv'
  <2> DEFINE j == IF s = "error" THEN RetryOrFail(k, pool[r].attempts) ELSE Job("drop", k)
  <2>1. j \in Jobs
    BY JobType, RetryOrFailType
  <2>2. j.key = k
    BY DEF RetryOrFail, Job
  <2>3. j.pc = "drop" => s # "error"
    BY DEF RetryOrFail, Job
  <2>4. s # "error" => s \in Ending
    BY DEF Consumed, Ending
  <2>5. Goto(<<d, s>>, j)
    BY <1>7
  <2>6. <<d, s>> \in Threads /\ <<d, s>>[2] = s
    BY ThreadType
  <2> HIDE DEF j
  <2> QED  BY <1>2, <1>3, <1>4, <1>5, <2>1, <2>2, <2>3, <2>4, <2>5, <2>6, GotoLoss
<1> QED  BY <1>1, <1>6, <1>7

LEMMA WorkLoss ==
  ASSUME TypeOK, LossInv, NEW t \in Threads, Work(t)
  PROVE  LossInv'
<1>0. \A j : Goto(t, j) => \A u \in Threads : job'[u] = job[u] \/ job'[u] = j
  BY DEF Goto, TypeOK, DispatcherTypeOK
<1>1. CASE RescheduleGet(t)
  <2>1. UNCHANGED <<stats, published, pool>>
    BY <1>1 DEF RescheduleGet, poolVars, streamVars
  <2>2. CASE Goto(t, IdleJob)
    BY <1>0, <2>1, <2>2, QuietLoss
  <2>3. ASSUME NEW r \in RowsOf(job[t].key),
               Goto(t, [job[t] EXCEPT !.pc = "update",
                                      !.next = NextRetryAt(pool[r].attempts)])
        PROVE  LossInv'
    <3> DEFINE j == [job[t] EXCEPT !.pc = "update", !.next = NextRetryAt(pool[r].attempts)]
    <3>1. job[t] \in Jobs
      BY <1>1, PcType DEF RescheduleGet, TypeOK
    <3>2. NextRetryAt(pool[r].attempts) \in 0..Horizon
      BY NextRetryType DEF TypeOK, PoolTypeOK, RowsOf
    <3>3. j \in Jobs /\ j.key = job[t].key /\ j.pc # "drop"
      BY <3>1, <3>2 DEF Jobs
    <3>4. t[2] \in Consumed => t[2] \in published[job[t].key]
      <4>1. job[t].pc = "reschedule"
        BY <1>1 DEF RescheduleGet
      <4> QED  BY <4>1 DEF LossInv, HandledWasPublished, IdleJob
    <3>5. /\ Remembered
          /\ \A s \in Consumed, x \in Keys : stats'[<<s, x>>] > 0 => s \in published'[x]
      BY <2>1 DEF Remembered, LossInv, QueuedWasPublished
    <3>6. Goto(t, j)
      BY <2>3
    <3> HIDE DEF j
    <3> QED  BY <2>1, <3>3, <3>4, <3>5, <3>6, GotoLoss
  <2> QED  BY <1>1, <2>2, <2>3 DEF RescheduleGet
<1>2. CASE RescheduleUpdate(t)
  <2>1. \E k \in Keys, next \in 0..Horizon : ReschedulePool(k, next)
    BY <1>2, PcType DEF RescheduleUpdate, TypeOK
  <2>2. UNCHANGED <<stats, published>>
    BY <1>2 DEF RescheduleUpdate, streamVars
  <2>3. \A u \in Threads : job'[u] = job[u] \/ job'[u] = IdleJob
    BY <1>0, <1>2 DEF RescheduleUpdate
  <2> QED  BY <2>1, <2>2, <2>3, NothingDeleted, QuietLoss DEF TypeOK
<1>3. CASE FailPublish(t)
  <2> DEFINE j == [job[t] EXCEPT !.pc = "drop"]
  <2>1. job[t] \in Jobs /\ job[t].key \in Keys
    BY <1>3, PcType DEF FailPublish, TypeOK
  <2>2. j \in Jobs /\ j.key = job[t].key
    BY <2>1 DEF Jobs
  <2>3. "failed" \in Outcomes /\ "failed" \in Ending
    BY DEF Outcomes, Ending
  <2>4. /\ Remembered
        /\ "failed" \in published'[job[t].key]
        /\ \A s \in Consumed, x \in Keys : stats'[<<s, x>>] > 0 => s \in published'[x]
    BY <1>3, <2>1, <2>3, PublishStatLoss DEF FailPublish
  <2>5. t[2] \in Consumed => t[2] \in published[job[t].key]
    BY <1>3 DEF FailPublish, LossInv, HandledWasPublished, IdleJob
  <2>6. Goto(t, j) /\ UNCHANGED pool
    BY <1>3 DEF FailPublish, poolVars
  <2>7. t[2] \in Consumed => t[2] \in published'[j.key]
    BY <2>1, <2>2, <2>4, <2>5 DEF Remembered
  <2> HIDE DEF j
  <2> QED  BY <2>2, <2>3, <2>4, <2>6, <2>7, GotoLoss
<1>4. CASE Drop(t)
  <2>1. job[t].key \in Keys /\ published[job[t].key] \cap Ending # {}
    BY <1>4, PcType DEF Drop, TypeOK, LossInv, DropWasPublished
  <2>2. UNCHANGED <<stats, published>>
    BY <1>4 DEF Drop, streamVars
  <2>3. NoSilentLoss'
    <3> SUFFICES ASSUME NEW r \in Rows, pool'[r].status = "deleted", KeyOf[r] \in ValidKeys
                 PROVE  published[KeyOf[r]] \cap Ending # {}
      BY <2>2 DEF NoSilentLoss, Ending
    <3>1. CASE r \in RowsOf(job[t].key)
      BY <2>1, <3>1 DEF RowsOf
    <3>2. CASE r \notin RowsOf(job[t].key)
      BY <1>4, <3>2 DEF Drop, CleanPool, Update, LossInv, NoSilentLoss, Ending
    <3> QED  BY <3>1, <3>2
  <2>4. \A u \in Threads : job'[u] = job[u] \/ job'[u] = IdleJob
    BY <1>0, <1>4 DEF Drop
  <2>5. DropWasPublished'
    BY <2>2, <2>4 DEF DropWasPublished, LossInv, IdleJob
  <2> QED  BY <2>2, <2>3, <2>4, <2>5
           DEF LossInv, QueuedWasPublished, HandledWasPublished
<1> QED  BY <1>1, <1>2, <1>3, <1>4 DEF Work, JobStep

LEMMA DispatcherFaultLoss ==
  ASSUME TypeOK, LossInv, NEW d \in Dispatchers, DispatcherFault(d)
  PROVE  LossInv'
<1>1. ASSUME NEW t \in Threads, JobFails(t)
      PROVE  LossInv'
  <2>1. /\ UNCHANGED <<pool, published>>
        /\ \A u \in Threads : job'[u] = job[u] \/ job'[u] = IdleJob
    BY <1>1 DEF JobFails, Goto, TypeOK, DispatcherTypeOK, poolVars
  <2>2. CASE UNCHANGED stats
    BY <2>1, <2>2, QuietLoss
  <2>3. CASE t[2] \in Consumed /\ Ready(t[2], job[t].key)
    <3>1. job[t].key \in Keys /\ t[2] \in published[job[t].key]
      BY <1>1, <2>3, BusyType DEF JobFails, TypeOK, Jobs, LossInv, HandledWasPublished
    <3>2. \A s \in Consumed, x \in Keys : stats'[<<s, x>>] > 0 => s \in published'[x]
      BY <2>1, <2>3, <3>1, ReadyLoss
    <3> QED  BY <2>1, <3>2, LossFrame DEF Remembered
  <2> QED  BY <1>1, <2>2, <2>3 DEF JobFails
<1>2. ASSUME NEW t \in Threads, RedeliverStat(t)
      PROVE  LossInv'
  <2>1. job[t].key \in Keys /\ t[2] \in published[job[t].key]
    BY <1>2, BusyType DEF RedeliverStat, TypeOK, Jobs, LossInv, HandledWasPublished
  <2>2. UNCHANGED <<pool, job, published>>
    BY <1>2 DEF RedeliverStat, poolVars
  <2>3. \A s \in Consumed, x \in Keys : stats'[<<s, x>>] > 0 => s \in published'[x]
    BY <1>2, <2>1, <2>2, ReadyLoss DEF RedeliverStat
  <2> QED  BY <2>2, <2>3, LossFrame DEF Remembered
<1>3. CASE CrashDispatcher(d)
  <2>1. /\ UNCHANGED <<pool, published>>
        /\ \A u \in Threads : job'[u] = job[u] \/ job'[u] = IdleJob
    BY <1>3 DEF CrashDispatcher, poolVars
  <2>2. ASSUME NEW s \in Consumed, NEW x \in Keys, stats'[<<s, x>>] > 0
        PROVE  s \in published'[x]
    <3>1. CASE stats[<<s, x>>] > 0
      BY <2>1, <3>1 DEF LossInv, QueuedWasPublished
    <3>2. CASE job[<<d, s>>] # IdleJob /\ job[<<d, s>>].key = x
      <4>1. <<d, s>> \in Threads /\ <<d, s>>[2] = s
        BY ThreadType
      <4> QED  BY <2>1, <3>2, <4>1 DEF LossInv, HandledWasPublished
    <3>3. \/ stats'[<<s, x>>] = stats[<<s, x>>]
          \/ job[<<d, s>>] # IdleJob /\ job[<<d, s>>].key = x
      BY <1>3 DEF CrashDispatcher
    <3> QED  BY <2>2, <3>1, <3>2, <3>3
  <2> QED  BY <2>1, <2>2, LossFrame DEF Remembered
<1> QED  BY <1>1, <1>2, <1>3, ThreadType DEF DispatcherFault

LEMMA SendLoss ==
  ASSUME TypeOK, LossInv, NEW w \in Workers, Send(w)
  PROVE  LossInv'
<1>0. UNCHANGED <<pool, job>>
  BY DEF Send, poolVars, dispatcherVars
<1>1. CASE Report(w)
  <2>1. PICK answer \in Answers :
          PublishStat(OutcomeOf(answer, outstanding[w]), outstanding[w].key)
    BY <1>1 DEF Report
  <2>2. outstanding[w] \in Envelope
    BY <1>1, HeldType DEF Report, TypeOK
  <2>3. OutcomeOf(answer, outstanding[w]) \in Outcomes /\ outstanding[w].key \in Keys
    BY <2>2, OutcomeOfType DEF Outcomes, Envelope
  <2> QED  BY <1>0, <2>1, <2>3, ReportLoss
<1>2. CASE UNCHANGED <<stats, published>>
  BY <1>0, <1>2, QuietLoss
<1> QED  BY <1>1, <1>2 DEF Send, SenderStep, HandleMessage, ReportRefused, AckDeadline

LEMMA LossStep ==
  ASSUME TypeOK, LossInv, [Next]_vars
  PROVE  LossInv'
<1>1. CASE Intake
  <2>1. \E R \in SUBSET Rows, lead \in 0..MaxLead : CreatePool(R, lead)
    BY <1>1 DEF Intake
  <2>2. UNCHANGED <<stats, published, job>>
    BY <1>1 DEF Intake, streamVars, dispatcherVars
  <2> QED  BY <2>1, <2>2, NothingDeleted, QuietLoss DEF TypeOK
<1>2. CASE Tick
  <2>1. PoolTick /\ UNCHANGED <<stats, published, job>>
    BY <1>2 DEF Tick, dispatcherVars
  <2> QED  BY <2>1, NothingDeleted, QuietLoss DEF TypeOK
<1>3. CASE ValidateReclaim \/ DispatchReclaim
  <2>1. \E from \in InFlight : ReclaimStranded(from)
    BY <1>3 DEF ValidateReclaim, ReclaimValidating, DispatchReclaim, ReclaimSending, InFlight
  <2>2. UNCHANGED <<stats, published, job>>
    BY <1>3 DEF ValidateReclaim, ReclaimValidating, DispatchReclaim, ReclaimSending,
                streamVars, dispatcherVars
  <2> QED  BY <2>1, <2>2, NothingDeleted, QuietLoss DEF TypeOK
<1>4. CASE \E k \in Keys : DeleteTemplate(k)
  BY <1>4, QuietLoss DEF DeleteTemplate, poolVars, streamVars
<1>5. CASE UNCHANGED vars
  BY <1>5, QuietLoss DEF vars, poolVars, streamVars, dispatcherVars
<1>6. ASSUME NEW d \in Dispatchers, Cycling(d)
      PROVE  LossInv'
  BY <1>6, CycleLoss, WorkLoss, ThreadType DEF Cycling
<1>7. ASSUME NEW d \in Dispatchers, NEW s \in Consumed, Consuming(d, s)
      PROVE  LossInv'
  BY <1>7, TakeStatLoss, WorkLoss, ThreadType DEF Consuming, Stat
<1> QED  BY <1>1, <1>2, <1>3, <1>4, <1>5, <1>6, <1>7, ValidateLoss, DispatcherFaultLoss,
            SendLoss DEF Next

LEMMA LossInit == Init => LossInv
BY DEF Init, PoolInit, StreamInit, DispatcherInit, NoRow, Row, IdleJob, LossInv,
   QueuedWasPublished, HandledWasPublished, DropWasPublished, NoSilentLoss

(* A Delivery with a valid address never leaves the Pool before one of the *)
(* outcomes that end a Delivery was published for it: through lost and     *)
(* repeated messages, failed statements, crashes and reclaims, for any     *)
(* number of Deliveries, replicas and workers.                             *)
THEOREM PipelineLosesNothing == Spec => []NoSilentLoss
<1>1. TypeOK /\ LossInv /\ [Next]_vars => LossInv'
  BY LossStep
<1>2. LossInv => NoSilentLoss
  BY DEF LossInv
<1> QED  BY <1>1, <1>2, LossInit, PipelineTypes, PTL DEF Spec

-----------------------------------------------------------------------------
(* The pipeline implements Delivery, for any number of rows, replicas and  *)
(* workers.  A step does to the lives of Deliveries what its one statement *)
(* does to the table; what it says only adds to what was said; and that a  *)
(* Delivery ends after an outcome that ends it is NoSilentLoss of the      *)
(* state the step leads to.                                                *)

(* Nothing that was published is taken back.                               *)
LEMMA PublishRemembers ==
  ASSUME TypeOK, NEW t, NEW k, PublishStat(t, k)
  PROVE  Remembered
BY DEF PublishStat, TypeOK, StreamTypeOK, Remembered

LEMMA QuietRemembers ==
  ASSUME UNCHANGED published
  PROVE  Remembered
BY DEF Remembered

LEMMA Accumulates ==
  ASSUME TypeOK, [Next]_vars
  PROVE  Remembered
<1>1. CASE Intake \/ Tick \/ ValidateReclaim \/ DispatchReclaim \/ UNCHANGED vars
  BY <1>1, QuietRemembers
     DEF Intake, Tick, ValidateReclaim, ReclaimValidating, DispatchReclaim, ReclaimSending,
         vars, streamVars
<1>2. ASSUME NEW v \in Validators, Validate(v)
      PROVE  Remembered
  <2>1. CASE PublishVerdict(v)
    BY <2>1, PublishRemembers DEF PublishVerdict
  <2>2. CASE UNCHANGED published
    BY <2>2, QuietRemembers
  <2> QED  BY <1>2, <2>1, <2>2
           DEF Validate, ValidatorStep, ValidatorFault, ClaimForValidation, JudgeDelivery,
               SkipDelivery, CrashValidator, streamVars
<1>3. ASSUME NEW d \in Dispatchers, Cycle(d)
      PROVE  Remembered
  BY <1>3, QuietRemembers
     DEF Cycle, CycleStep, ClaimForDispatch, DispatchOne, DispatchFails, streamVars
<1>4. ASSUME NEW t \in Threads, Work(t)
      PROVE  Remembered
  <2>1. CASE FailPublish(t)
    BY <2>1, PublishRemembers DEF FailPublish
  <2>2. CASE UNCHANGED published
    BY <2>2, QuietRemembers
  <2> QED  BY <1>4, <2>1, <2>2
           DEF Work, JobStep, RescheduleGet, RescheduleUpdate, Drop, streamVars
<1>5. ASSUME NEW d \in Dispatchers, Cycling(d)
      PROVE  Remembered
  BY <1>3, <1>4, <1>5, ThreadType DEF Cycling
<1>6. ASSUME NEW d \in Dispatchers, NEW s \in Consumed, Consuming(d, s)
      PROVE  Remembered
  <2>1. CASE Stat(d, s)
    BY <2>1, QuietRemembers DEF Stat, TakeStat
  <2> QED  BY <1>4, <1>6, <2>1, ThreadType DEF Consuming
<1>7. ASSUME NEW d \in Dispatchers, DispatcherFault(d)
      PROVE  Remembered
  BY <1>7, QuietRemembers DEF DispatcherFault, JobFails, RedeliverStat, CrashDispatcher
<1>8. ASSUME NEW k \in Keys, DeleteTemplate(k)
      PROVE  Remembered
  BY <1>8, QuietRemembers DEF DeleteTemplate, streamVars
<1>9. ASSUME NEW w \in Workers, Send(w)
      PROVE  Remembered
  <2>1. CASE Report(w)
    BY <2>1, PublishRemembers DEF Report
  <2>2. CASE UNCHANGED published
    BY <2>2, QuietRemembers
  <2> QED  BY <1>9, <2>1, <2>2
           DEF Send, SenderStep, HandleMessage, ReportRefused, AckDeadline
<1> QED  BY <1>1, <1>2, <1>5, <1>6, <1>7, <1>8, <1>9 DEF Next

-----------------------------------------------------------------------------
(* What a statement does to the lives of the rows.                         *)
LivesOn(R)   == \A r \in Rows : r \notin R => Life(r)' = Life(r)
Begun(R)     == \A r \in R : Life(r) = "absent" /\ Life(r)' = "open"
Over(R)      == \A r \in R : Life(r) = "open" /\ Life(r)' = "ended"

LEMMA PoolLives ==
  ASSUME PoolTypeOK, [PoolNext]_poolVars
  PROVE  \E R \in SUBSET Rows : LivesOn(R) /\ (Begun(R) \/ Over(R))
<1> DEFINE Goal == \E R \in SUBSET Rows : LivesOn(R) /\ (Begun(R) \/ Over(R))
<1>0. ASSUME \A r \in Rows : Life(r)' = Life(r)
      PROVE  Goal
  <2>1. LivesOn({}) /\ Begun({})
    BY <1>0 DEF LivesOn, Begun
  <2> WITNESS {} \in SUBSET Rows
  <2> QED  BY <2>1
<1>1. ASSUME NEW R \in SUBSET Rows, NEW lead \in 0..MaxLead, CreatePool(R, lead)
      PROVE  Goal
  <2>1. LivesOn(R) /\ Begun(R)
    BY <1>1 DEF CreatePool, Update, Row, LivesOn, Begun, Life, PoolTypeOK
  <2> QED  BY <2>1
<1>2. ASSUME NEW R \in SUBSET Rows, PrepareForValidate(R)
      PROVE  Goal
  <2>1. \A r \in Rows : Life(r)' = Life(r)
    BY <1>2 DEF PrepareForValidate, Pages, ToValidate, Update, Life, PoolTypeOK
  <2> QED  BY <1>0, <2>1
<1>3. ASSUME NEW R \in SUBSET Rows, PrepareForSend(R)
      PROVE  Goal
  <2>1. \A r \in Rows : Life(r)' = Life(r)
    BY <1>3 DEF PrepareForSend, Pages, Due, Update, Life, PoolTypeOK
  <2> QED  BY <1>0, <2>1
<1>4. ASSUME NEW k \in Keys, SetSendingPoolScheduled(k)
      PROVE  Goal
  <2>1. \A r \in Rows : Life(r)' = Life(r)
    BY <1>4 DEF SetSendingPoolScheduled, RowsOf, InPool, Stored, InFlight, Update, Life, PoolTypeOK
  <2> QED  BY <1>0, <2>1
<1>5. ASSUME NEW k \in Keys, NEW next \in 0..Horizon, ReschedulePool(k, next)
      PROVE  Goal
  <2>1. \A r \in Rows : Life(r)' = Life(r)
    BY <1>5 DEF ReschedulePool, RowsOf, InPool, Stored, InFlight, Update, Life, PoolTypeOK
  <2> QED  BY <1>0, <2>1
<1>6. ASSUME NEW k \in Keys, CleanPool(k)
      PROVE  Goal
  <2>1. LivesOn(RowsOf(k)) /\ Over(RowsOf(k))
    BY <1>6 DEF CleanPool, RowsOf, InPool, Stored, InFlight, Update, NoRow, Row, LivesOn, Over,
                Life, PoolTypeOK
  <2>2. RowsOf(k) \in SUBSET Rows
    BY DEF RowsOf
  <2> QED  BY <2>1, <2>2
<1>7. ASSUME NEW from \in InFlight, ReclaimStranded(from)
      PROVE  Goal
  <2> DEFINE to == ReclaimTarget(from).to
  <2>1. PICK R \in Pages(Stranded(from)) :
          pool' = [r \in Rows |-> IF r \in R
            THEN [pool[r] EXCEPT !.status = to, !.age = Unclaimed,
                    !.attempts = IF ReclaimTarget(from).bump THEN Bump(@) ELSE @]
            ELSE pool[r]]
    BY <1>7 DEF ReclaimStranded, Update
  <2>2. to \in {"scheduled", "to_validate"}
    BY DEF ReclaimTarget
  <2>3. \A r \in R : pool[r].status = from
    BY <2>1 DEF Pages, Stranded
  <2> HIDE DEF to
  <2>4. \A r \in Rows : pool'[r].status = IF r \in R THEN to ELSE pool[r].status
    BY <2>1 DEF PoolTypeOK
  <2>5. \A r \in Rows : Life(r)' = Life(r)
    BY <2>2, <2>3, <2>4 DEF Life, InFlight
  <2> QED  BY <1>0, <2>5
<1>8. CASE PoolTick
  <2>1. \A r \in Rows : Life(r)' = Life(r)
    BY <1>8 DEF PoolTick, InPool, Stored, InFlight, Update, Life, PoolTypeOK
  <2> QED  BY <1>0, <2>1
<1>9. CASE UNCHANGED poolVars
  BY <1>0, <1>9 DEF poolVars, Life
<1> QED  BY <1>1, <1>2, <1>3, <1>4, <1>5, <1>6, <1>7, <1>8, <1>9 DEF PoolNext

-----------------------------------------------------------------------------
LEMMA DeliveryInitially == Init => D!DeliveryInit
BY PoolAssumption
   DEF PoolAssumption, Init, PoolInit, StreamInit, NoRow, Row, Life, D!DeliveryInit

LEMMA SaysMore ==
  ASSUME TypeOK', Remembered
  PROVE  D!Say
BY PoolAssumption DEF PoolAssumption, TypeOK, StreamTypeOK, Remembered, D!Say

LEMMA DeliveryStep ==
  ASSUME TypeOK, TypeOK', NoSilentLoss', [Next]_vars
  PROVE  D!DeliveryNext
<1>1. D!Say
  BY Accumulates, SaysMore
<1>2. PICK R \in SUBSET Rows : LivesOn(R) /\ (Begun(R) \/ Over(R))
  BY PoolStep, PoolLives DEF TypeOK
<1>3. CASE Begun(R)
  <2>1. D!Open(R)
    BY <1>2, <1>3 DEF LivesOn, Begun, D!Open, D!Become
  <2> QED  BY <1>1, <2>1 DEF D!DeliveryNext
<1>4. CASE Over(R)
  <2>1. \A r \in R : pool'[r].status = "deleted"
    BY <1>4 DEF Over, Life
  <2>2. \A r \in R : KeyOf[r] \in ValidKeys => published'[KeyOf[r]] \cap D!Terminal # {}
    BY <2>1 DEF NoSilentLoss, D!Terminal
  <2>3. D!End(R)
    BY <1>2, <1>4, <2>2 DEF LivesOn, Over, D!End, D!Become
  <2> QED  BY <1>1, <2>3 DEF D!DeliveryNext
<1> QED  BY <1>2, <1>3, <1>4

(* Everything the pipeline does to a Delivery is something Delivery allows *)
(* (ImplementsDelivery): for all constants and any failures it is taken in *)
(* once, never comes back, and ends only after an outcome that ends it,    *)
(* whatever Validators, consumers, failed dispatches and reclaims do to    *)
(* its row in whatever order.                                              *)
THEOREM PipelineImplementsDelivery == Spec => ImplementsDelivery
<1>1. TypeOK /\ TypeOK' /\ NoSilentLoss' /\ [Next]_vars
        => [D!DeliveryNext]_<<[r \in Rows |-> Life(r)], [r \in Rows |-> published[KeyOf[r]]]>>
  BY DeliveryStep
<1> QED  BY <1>1, DeliveryInitially, PipelineTypes, PipelineLosesNothing, PTL
         DEF Spec, ImplementsDelivery, D!DeliverySpec

-----------------------------------------------------------------------------
(* Attempts.  A row is live at a replica of the Validator from its claim   *)
(* to its verdict, within the deadline of the cycle; a key has passed once *)
(* a row that carries it is past the Validator.                            *)
Live(v, r) ==
  /\ r \in validator[v].page
  /\ validator[v].age <= ValidateTimeout
  /\ validator[v].verdict # <<r>>

Passed ==
  {k \in Keys : \E r \in Rows : KeyOf[r] = k /\ pool[r].status \in {"scheduled", "sending", "deleted"}}

(* The unique index: of the rows that ever carried a key one was stored.   *)
KeysApart ==
  \A r, s \in Rows : r # s /\ KeyOf[r] = KeyOf[s] =>
    pool[r].status = "absent" \/ pool[s].status = "absent"

(* What is live is claimed, for as long as the cycle has been running, and *)
(* live at one replica only.                                               *)
LiveIsClaimed ==
  \A v \in Validators, r \in Rows : Live(v, r) =>
    /\ pool[r].status = "validating" /\ pool[r].age = validator[v].age
    /\ \A u \in Validators : Live(u, r) => u = v

(* Whatever mentions a key on its way out or back comes from a dispatch.   *)
OutIsPassed ==
  /\ \A e \in sending : e.key \in Passed
  /\ \A w \in Workers : ~Idle(w) => outstanding[w].key \in Passed
BackIsPassed ==
  \A t \in Consumed, k \in Keys : stats[<<t, k>>] > 0 => k \in Passed
HeldIsPassed ==
  /\ \A d \in Dispatchers : \A dlv \in page[d] : KeyOf[dlv.row] \in Passed
  /\ \A t \in Threads : job[t] # IdleJob => job[t].key \in Passed

AttemptInv == KeysApart /\ LiveIsClaimed /\ OutIsPassed /\ BackIsPassed /\ HeldIsPassed

-----------------------------------------------------------------------------
(* What a statement of the pipeline does to the rows.                      *)
Spends ==
  \A r \in Rows : pool[r].status = "sending" /\ pool'[r].status = "scheduled" =>
    pool'[r].attempts > pool[r].attempts \/ pool[r].attempts = MaxAttempts

Attempted ==
  \A r \in Rows :
    pool[r].status \in {"to_validate", "validating"} /\ pool'[r].status = "deleted" =>
      KeyOf[r] \notin ValidKeys

Passes == Passed \subseteq Passed'

Lawful == KeysApart' /\ Passes /\ Spends /\ Attempted

(* It leaves a claim of the Validator alone that is not stranded.          *)
Undisturbed ==
  \A r \in Rows : pool[r].status = "validating" /\ pool[r].age <= ValidateStrand =>
    pool'[r].status = "validating" /\ pool'[r].age = pool[r].age

LEMMA RowStatus ==
  ASSUME PoolTypeOK, NEW r \in Rows
  PROVE  /\ pool[r].status \in Status /\ KeyOf[r] \in Keys
         /\ pool[r].attempts \in 0..MaxAttempts /\ pool[r].age \in (0..AgeCap) \cup {Unclaimed}
BY PoolAssumption DEF PoolAssumption, PoolTypeOK

(* Statements that keep absent rows absent and take a row past the         *)
(* Validator no step back.                                                 *)
LEMMA MovesOn ==
  ASSUME PoolTypeOK, KeysApart,
         \A r \in Rows :
           /\ pool'[r].status = "absent" <=> pool[r].status = "absent"
           /\ pool[r].status \in {"scheduled", "sending", "deleted"} =>
                pool'[r].status \in {"scheduled", "sending", "deleted"}
  PROVE  KeysApart' /\ Passes
<1>1. KeysApart'
  BY DEF KeysApart
<1>2. ASSUME NEW k \in Keys, k \in Passed
      PROVE  k \in Passed'
  BY <1>2 DEF Passed
<1>3. Passed \subseteq Keys
  BY DEF Passed
<1> QED  BY <1>1, <1>2, <1>3 DEF Passes

LEMMA CreateLawful ==
  ASSUME PoolTypeOK, KeysApart, NEW R \in SUBSET Rows, NEW lead \in 0..MaxLead, CreatePool(R, lead)
  PROVE  Lawful /\ Undisturbed
<1>1. \A r \in R : pool[r].status = "absent" /\ pool'[r].status = "to_validate"
  BY DEF CreatePool, Update, Row
<1>2. \A r \in Rows \ R : pool'[r] = pool[r]
  BY DEF CreatePool, Update
<1>3. ASSUME NEW r \in Rows, NEW s \in Rows, r # s, KeyOf[r] = KeyOf[s]
      PROVE  pool'[r].status = "absent" \/ pool'[s].status = "absent"
  <2>1. CASE r \in R
    BY <1>2, <1>3, <2>1 DEF CreatePool
  <2>2. CASE s \in R
    BY <1>2, <1>3, <2>2 DEF CreatePool
  <2>3. CASE r \notin R /\ s \notin R
    BY <1>2, <1>3, <2>3 DEF KeysApart
  <2> QED  BY <2>1, <2>2, <2>3
<1>4. KeysApart'
  BY <1>3 DEF KeysApart
<1>5. Passes
  BY <1>1, <1>2 DEF Passes, Passed
<1> QED  BY <1>1, <1>2, <1>4, <1>5 DEF Lawful, Spends, Attempted, Undisturbed

LEMMA PrepareForValidateLawful ==
  ASSUME PoolTypeOK, KeysApart, NEW R \in SUBSET Rows, PrepareForValidate(R)
  PROVE  /\ Lawful /\ Undisturbed
         /\ \A r \in R : pool[r].status = "to_validate" /\ pool'[r].status = "validating" /\ pool'[r].age = 0
<1>1. \A r \in R : pool[r].status = "to_validate" /\ pool'[r].status = "validating" /\ pool'[r].age = 0
  BY DEF PrepareForValidate, Pages, ToValidate, Update, PoolTypeOK
<1>2. \A r \in Rows \ R : pool'[r] = pool[r]
  BY DEF PrepareForValidate, Update
<1>3. KeysApart' /\ Passes
  BY <1>1, <1>2, MovesOn
<1> QED  BY <1>1, <1>2, <1>3 DEF Lawful, Spends, Attempted, Undisturbed

LEMMA PrepareForSendLawful ==
  ASSUME PoolTypeOK, KeysApart, NEW R \in SUBSET Rows, PrepareForSend(R)
  PROVE  Lawful /\ Undisturbed /\ \A r \in R : pool'[r].status = "sending"
<1>1. \A r \in R : pool[r].status = "scheduled" /\ pool'[r].status = "sending"
  BY DEF PrepareForSend, Pages, Due, Update, PoolTypeOK
<1>2. \A r \in Rows \ R : pool'[r] = pool[r]
  BY DEF PrepareForSend, Update
<1>3. KeysApart' /\ Passes
  BY <1>1, <1>2, MovesOn
<1> QED  BY <1>1, <1>2, <1>3 DEF Lawful, Spends, Attempted, Undisturbed

(* A key names one row that was ever stored.                               *)
LEMMA OneRow ==
  ASSUME PoolTypeOK, KeysApart, NEW r \in Rows, pool[r].status # "absent",
         NEW s \in RowsOf(KeyOf[r])
  PROVE  s = r
BY DEF KeysApart, RowsOf, InPool, Stored, InFlight

(* The Validator's two verdicts, on a row that is claimed.                 *)
LEMMA VerdictLawful ==
  ASSUME PoolTypeOK, KeysApart, NEW q \in Rows, pool[q].status = "validating",
         IF KeyOf[q] \in ValidKeys THEN SetSendingPoolScheduled(KeyOf[q]) ELSE CleanPool(KeyOf[q])
  PROVE  Lawful /\ \A r \in Rows : r # q => pool'[r] = pool[r]
<1>1. \A r \in Rows : r # q => r \notin RowsOf(KeyOf[q])
  BY OneRow
<1>2. \A r \in Rows : r # q => pool'[r] = pool[r]
  BY <1>1 DEF SetSendingPoolScheduled, CleanPool, Update
<1>3. q \in RowsOf(KeyOf[q])
  BY DEF RowsOf, InPool, Stored, InFlight
<1>4. pool'[q].status = IF KeyOf[q] \in ValidKeys THEN "scheduled" ELSE "deleted"
  BY <1>3 DEF SetSendingPoolScheduled, CleanPool, Update, NoRow, Row, PoolTypeOK
<1>5. KeysApart' /\ Passes
  BY <1>2, <1>4, MovesOn
<1> QED  BY <1>2, <1>4, <1>5 DEF Lawful, Spends, Attempted

(* The rows of a key that is passed.                                       *)
LEMMA PassedRows ==
  ASSUME PoolTypeOK, KeysApart, NEW k \in Keys, k \in Passed, NEW r \in RowsOf(k)
  PROVE  pool[r].status \in {"scheduled", "sending"}
<1>1. PICK s \in Rows : KeyOf[s] = k /\ pool[s].status \in {"scheduled", "sending", "deleted"}
  BY DEF Passed
<1>2. r \in Rows /\ KeyOf[r] = k /\ pool[r].status \in Stored
  BY DEF RowsOf, InPool
<1>3. r = s
  BY <1>1, <1>2 DEF KeysApart, Stored, InFlight
<1> QED  BY <1>1, <1>2, <1>3 DEF Stored, InFlight

LEMMA RescheduleLawful ==
  ASSUME PoolTypeOK, KeysApart, NEW k \in Keys, k \in Passed, NEW next, ReschedulePool(k, next)
  PROVE  Lawful /\ Undisturbed
<1>1. \A r \in RowsOf(k) : pool[r].status \in {"scheduled", "sending"}
  BY PassedRows
<1>2. \A r \in RowsOf(k) : pool'[r].status = "scheduled" /\ pool'[r].attempts = Bump(pool[r].attempts)
  BY DEF ReschedulePool, Update, RowsOf, PoolTypeOK
<1>3. \A r \in Rows \ RowsOf(k) : pool'[r] = pool[r]
  BY DEF ReschedulePool, Update
<1>4. KeysApart' /\ Passes
  BY <1>1, <1>2, <1>3, MovesOn
<1>5. \A r \in Rows : Bump(pool[r].attempts) > pool[r].attempts \/ pool[r].attempts = MaxAttempts
  BY RowStatus, PoolAssumption DEF PoolAssumption, Bump
<1> QED  BY <1>1, <1>2, <1>3, <1>4, <1>5 DEF Lawful, Spends, Attempted, Undisturbed

LEMMA DropLawful ==
  ASSUME PoolTypeOK, KeysApart, NEW k \in Keys, k \in Passed, CleanPool(k)
  PROVE  Lawful /\ Undisturbed
<1>1. \A r \in RowsOf(k) : pool[r].status \in {"scheduled", "sending"}
  BY PassedRows
<1>2. \A r \in RowsOf(k) : pool'[r].status = "deleted"
  BY DEF CleanPool, Update, RowsOf, NoRow, Row
<1>3. \A r \in Rows \ RowsOf(k) : pool'[r] = pool[r]
  BY DEF CleanPool, Update
<1>4. KeysApart' /\ Passes
  BY <1>1, <1>2, <1>3, MovesOn
<1> QED  BY <1>1, <1>2, <1>3, <1>4 DEF Lawful, Spends, Attempted, Undisturbed

LEMMA ReclaimLawful ==
  ASSUME PoolTypeOK, KeysApart, NEW from \in InFlight, ReclaimStranded(from)
  PROVE  Lawful /\ Undisturbed
<1>1. PICK R \in Pages(Stranded(from)) :
        pool' = [r \in Rows |-> IF r \in R
                   THEN [pool[r] EXCEPT !.status   = ReclaimTarget(from).to,
                                        !.age      = Unclaimed,
                                        !.attempts = IF ReclaimTarget(from).bump THEN Bump(@) ELSE @]
                   ELSE pool[r]]
  BY DEF ReclaimStranded, Update
<1>2. \A r \in R : r \in Rows /\ pool[r].status = from /\ pool[r].age > ReclaimTarget(from).than
  BY DEF Pages, Stranded
<1>3. \A r \in R : /\ pool'[r].status = ReclaimTarget(from).to
                   /\ pool'[r].attempts = IF ReclaimTarget(from).bump THEN Bump(pool[r].attempts)
                                          ELSE pool[r].attempts
  BY <1>1, <1>2 DEF PoolTypeOK
<1>4. \A r \in Rows \ R : pool'[r] = pool[r]
  BY <1>1
<1>5. \A r \in Rows : Bump(pool[r].attempts) > pool[r].attempts \/ pool[r].attempts = MaxAttempts
  BY RowStatus, PoolAssumption DEF PoolAssumption, Bump
<1>6. CASE from = "sending"
  <2>1. \A r \in R : pool'[r].status = "scheduled" /\ pool'[r].attempts = Bump(pool[r].attempts)
    BY <1>3, <1>6 DEF ReclaimTarget
  <2>2. KeysApart' /\ Passes
    BY <1>2, <1>4, <1>6, <2>1, MovesOn
  <2> QED  BY <1>2, <1>4, <1>5, <1>6, <2>1, <2>2 DEF Lawful, Spends, Attempted, Undisturbed
<1>7. CASE from = "validating"
  <2>1. \A r \in R : pool'[r].status = "to_validate" /\ pool[r].age > ValidateStrand
    BY <1>2, <1>3, <1>7 DEF ReclaimTarget
  <2>2. KeysApart' /\ Passes
    BY <1>2, <1>4, <1>7, <2>1, MovesOn
  <2>3. \A r \in Rows : pool[r].age \in Int
    BY RowStatus, AgeCapType DEF Unclaimed
  <2>4. Undisturbed
    BY <1>2, <1>4, <1>7, <2>1, <2>3, PoolAssumption DEF PoolAssumption, Undisturbed
  <2> QED  BY <1>2, <1>4, <1>7, <2>1, <2>2, <2>4 DEF Lawful, Spends, Attempted
<1> QED  BY <1>6, <1>7 DEF InFlight

LEMMA TickLawful ==
  ASSUME PoolTypeOK, KeysApart, PoolTick
  PROVE  Lawful /\ \A r \in Rows : /\ pool'[r].status = pool[r].status
                                   /\ pool[r].status \in Stored => pool'[r].age = Older(pool[r].age)
<1>1. \A r \in Rows : /\ pool'[r].status = pool[r].status
                      /\ pool[r].status \in Stored => pool'[r].age = Older(pool[r].age)
  BY DEF PoolTick, Update, PoolTypeOK, InPool
<1>2. KeysApart' /\ Passes
  BY <1>1, MovesOn
<1> QED  BY <1>1, <1>2 DEF Lawful, Spends, Attempted

LEMMA StillLawful ==
  ASSUME PoolTypeOK, KeysApart, UNCHANGED poolVars
  PROVE  Lawful /\ Undisturbed
<1>1. pool' = pool
  BY DEF poolVars
<1>2. KeysApart' /\ Passes
  BY <1>1, MovesOn
<1> QED  BY <1>1, <1>2 DEF Lawful, Spends, Attempted, Undisturbed

-----------------------------------------------------------------------------
(* The claims of the Validator, step by step.                              *)
LEMMA LiveFacts ==
  ASSUME TypeOK, LiveIsClaimed, NEW v \in Validators, NEW r \in Rows, Live(v, r)
  PROVE  /\ pool[r].status = "validating" /\ pool[r].age = validator[v].age
         /\ pool[r].age <= ValidateStrand /\ pool[r].age \in 0..ValidateTimeout
         /\ \A u \in Validators : Live(u, r) => u = v
<1>1. /\ pool[r].status = "validating" /\ pool[r].age = validator[v].age
      /\ \A u \in Validators : Live(u, r) => u = v
  BY DEF LiveIsClaimed
<1>2. validator[v].age \in 0..ValidateTimeout
  BY ValidatorAssumption DEF ValidatorAssumption, Live, TypeOK, ValidatorTypeOK
<1> QED  BY <1>1, <1>2, ValidatorAssumption, PoolAssumption DEF ValidatorAssumption, PoolAssumption

LEMMA LiveKept ==
  ASSUME TypeOK, LiveIsClaimed, Undisturbed, UNCHANGED validator
  PROVE  LiveIsClaimed'
<1>1. \A v \in Validators, r \in Rows : Live(v, r)' <=> Live(v, r)
  BY DEF Live
<1>2. ASSUME NEW v \in Validators, NEW r \in Rows, Live(v, r)
      PROVE  /\ pool'[r].status = "validating" /\ pool'[r].age = validator'[v].age
             /\ \A u \in Validators : Live(u, r) => u = v
  BY <1>2, LiveFacts DEF Undisturbed
<1> QED  BY <1>1, <1>2 DEF LiveIsClaimed

LEMMA LiveFewer ==
  ASSUME TypeOK, LiveIsClaimed, UNCHANGED pool,
         \A v \in Validators, r \in Rows :
           Live(v, r)' => Live(v, r) /\ validator'[v].age = validator[v].age
  PROVE  LiveIsClaimed'
BY DEF LiveIsClaimed

LEMMA ClaimLive ==
  ASSUME TypeOK, KeysApart, LiveIsClaimed, NEW v \in Validators, ClaimForValidation(v)
  PROVE  Lawful /\ LiveIsClaimed'
<1>1. PICK R \in SUBSET Rows : PrepareForValidate(R) /\ validator' = [validator EXCEPT ![v].page = R]
  BY DEF ClaimForValidation
<1>2. /\ Lawful /\ Undisturbed
      /\ \A r \in R : pool[r].status = "to_validate" /\ pool'[r].status = "validating" /\ pool'[r].age = 0
  BY <1>1, PrepareForValidateLawful DEF TypeOK
<1>3. /\ validator'[v].page = R /\ validator'[v].age = 0
      /\ \A u \in Validators : u # v => validator'[u] = validator[u]
  BY <1>1 DEF ClaimForValidation, Resting, TypeOK, ValidatorTypeOK
<1>4. ASSUME NEW r \in R, NEW u \in Validators, Live(u, r)
      PROVE  FALSE
  BY <1>2, <1>4, LiveFacts
<1>5. \A r \in Rows : Live(v, r)' => r \in R
  BY <1>3 DEF Live
<1>6. \A u \in Validators, r \in Rows : u # v => (Live(u, r)' <=> Live(u, r))
  BY <1>3 DEF Live
<1>7. ASSUME NEW u \in Validators, NEW r \in Rows, u # v, Live(u, r)
      PROVE  pool'[r].status = "validating" /\ pool'[r].age = validator'[u].age
  BY <1>2, <1>3, <1>7, LiveFacts DEF Undisturbed
<1>8. \A u, w \in Validators, r \in Rows : Live(u, r)' /\ Live(w, r)' => u = w
  BY <1>4, <1>5, <1>6, LiveFacts
<1>9. \A u \in Validators, r \in Rows : Live(u, r)' =>
        pool'[r].status = "validating" /\ pool'[r].age = validator'[u].age
  BY <1>2, <1>3, <1>5, <1>6, <1>7
<1> QED  BY <1>2, <1>8, <1>9 DEF LiveIsClaimed

LEMMA JudgeLive ==
  ASSUME TypeOK, KeysApart, LiveIsClaimed, NEW v \in Validators, JudgeDelivery(v)
  PROVE  Lawful /\ LiveIsClaimed'
<1>1. PICK q \in validator[v].page :
        /\ IF KeyOf[q] \in ValidKeys THEN SetSendingPoolScheduled(KeyOf[q]) ELSE CleanPool(KeyOf[q])
        /\ validator' = [validator EXCEPT ![v].verdict = <<q>>]
  BY DEF JudgeDelivery
<1>2. q \in Rows /\ Live(v, q)
  BY <1>1 DEF JudgeDelivery, Live, NoVerdict, TypeOK, ValidatorTypeOK
<1>3. Lawful /\ \A r \in Rows : r # q => pool'[r] = pool[r]
  BY <1>1, <1>2, LiveFacts, VerdictLawful DEF TypeOK
<1>4. /\ validator'[v].verdict = <<q>> /\ validator'[v].age = validator[v].age
      /\ validator'[v].page = validator[v].page /\ validator[v].verdict = NoVerdict
      /\ \A u \in Validators : u # v => validator'[u] = validator[u]
  BY <1>1 DEF JudgeDelivery, TypeOK, ValidatorTypeOK
<1>5. ASSUME NEW u \in Validators, NEW r \in Rows, Live(u, r)'
      PROVE  Live(u, r) /\ r # q /\ validator'[u].age = validator[u].age
  <2>1. CASE u = v
    BY <1>4, <1>5, <2>1 DEF Live, NoVerdict
  <2>2. CASE u # v
    BY <1>2, <1>4, <1>5, <2>2, LiveFacts, ZenonT(60) DEF Live
  <2> QED  BY <2>1, <2>2
<1>6. LiveIsClaimed'
  BY <1>3, <1>5 DEF LiveIsClaimed
<1> QED  BY <1>3, <1>6

LEMMA PageWithoutLive ==
  ASSUME TypeOK, LiveIsClaimed, UNCHANGED pool, NEW v \in Validators, NEW q \in Rows,
         validator[v].verdict \in {NoVerdict, <<q>>},
         validator' = [validator EXCEPT ![v] = PageWithout(v, q)]
  PROVE  LiveIsClaimed'
<1>1. \A u \in Validators : u # v => validator'[u] = validator[u]
  BY DEF TypeOK, ValidatorTypeOK
<1>2. PICK x : x = validator'[v]
  OBVIOUS
<1>3. x = PageWithout(v, q)
  BY <1>2 DEF TypeOK, ValidatorTypeOK
<1>4. x.page = {} \/ (x.page = validator[v].page \ {q} /\ x.age = validator[v].age)
  <2>1. CASE validator[v].page = {q}
    <3>1. x = Resting
      BY <1>3, <2>1, Zenon DEF PageWithout
    <3> QED  BY <3>1 DEF Resting
  <2>2. CASE validator[v].page # {q}
    <3>1. x = [validator[v] EXCEPT !.page = @ \ {q}, !.verdict = NoVerdict]
      BY <1>3, <2>2, Zenon DEF PageWithout
    <3> QED  BY <3>1 DEF TypeOK, ValidatorTypeOK
  <2> QED  BY <2>1, <2>2
<1>5. \A r \in Rows : r # q => <<r>> # validator[v].verdict
  BY DEF NoVerdict
<1>6. ASSUME NEW u \in Validators, NEW r \in Rows, Live(u, r)'
      PROVE  Live(u, r) /\ validator'[u].age = validator[u].age
  BY <1>1, <1>2, <1>4, <1>5, <1>6 DEF Live
<1> QED  BY <1>6, LiveFewer

LEMMA ValidateLive ==
  ASSUME TypeOK, KeysApart, LiveIsClaimed, NEW v \in Validators, ValidatorStep(v) \/ ValidatorFault(v)
  PROVE  Lawful /\ LiveIsClaimed'
<1>1. CASE ClaimForValidation(v)
  BY <1>1, ClaimLive
<1>2. CASE JudgeDelivery(v)
  BY <1>2, JudgeLive
<1>3. ASSUME UNCHANGED poolVars, LiveIsClaimed'
      PROVE  Lawful /\ LiveIsClaimed'
  BY <1>3, StillLawful DEF TypeOK
<1>4. CASE /\ validator[v].verdict # NoVerdict /\ UNCHANGED poolVars
           /\ validator' = [validator EXCEPT ![v] = PageWithout(v, validator[v].verdict[1])]
  <2>1. PICK q \in Rows : validator[v].verdict = <<q>>
    BY <1>4 DEF TypeOK, ValidatorTypeOK
  <2>2. validator' = [validator EXCEPT ![v] = PageWithout(v, q)] /\ UNCHANGED pool
    BY <1>4, <2>1 DEF poolVars
  <2>3. LiveIsClaimed'
    BY <2>1, <2>2, PageWithoutLive
  <2> QED  BY <1>3, <1>4, <2>3
<1>5. CASE PublishVerdict(v)
  BY <1>4, <1>5 DEF PublishVerdict
<1>6. CASE SkipDelivery(v)
  <2>1. CASE validator[v].verdict # NoVerdict
    BY <1>4, <1>6, <2>1 DEF SkipDelivery
  <2>2. CASE validator[v].verdict = NoVerdict
    <3>1. PICK q \in validator[v].page : validator' = [validator EXCEPT ![v] = PageWithout(v, q)]
      BY <1>6, <2>2 DEF SkipDelivery
    <3>2. q \in Rows
      BY DEF TypeOK, ValidatorTypeOK
    <3>3. UNCHANGED poolVars
      BY <1>6 DEF SkipDelivery
    <3>4. LiveIsClaimed'
      BY <2>2, <3>1, <3>2, <3>3, PageWithoutLive DEF poolVars
    <3> QED  BY <1>3, <3>3, <3>4
  <2> QED  BY <2>1, <2>2
<1>7. CASE CrashValidator(v)
  <2>1. \A u \in Validators : u # v => validator'[u] = validator[u]
    BY <1>7 DEF CrashValidator, TypeOK, ValidatorTypeOK
  <2>2. validator'[v].page = {}
    BY <1>7 DEF CrashValidator, Resting, TypeOK, ValidatorTypeOK
  <2>3. ASSUME NEW u \in Validators, NEW r \in Rows, Live(u, r)'
        PROVE  Live(u, r) /\ validator'[u].age = validator[u].age
    BY <2>1, <2>2, <2>3 DEF Live
  <2>4. UNCHANGED poolVars
    BY <1>7 DEF CrashValidator
  <2>5. LiveIsClaimed'
    BY <2>3, <2>4, LiveFewer DEF poolVars
  <2> QED  BY <1>3, <2>4, <2>5
<1> QED  BY <1>1, <1>2, <1>5, <1>6, <1>7 DEF ValidatorStep, ValidatorFault

LEMMA TickLive ==
  ASSUME TypeOK, KeysApart, LiveIsClaimed, PoolTick, ValidatorTick
  PROVE  Lawful /\ LiveIsClaimed'
<1>1. Lawful /\ \A r \in Rows : /\ pool'[r].status = pool[r].status
                                /\ pool[r].status \in Stored => pool'[r].age = Older(pool[r].age)
  BY TickLawful DEF TypeOK
<1>2. \A v \in Validators : /\ validator'[v].page = validator[v].page
                            /\ validator'[v].verdict = validator[v].verdict
                            /\ validator'[v].age \in {validator[v].age, validator[v].age + 1}
  BY DEF ValidatorTick, TypeOK, ValidatorTypeOK
<1>3. ASSUME NEW v \in Validators, validator[v] # Resting, validator[v].age <= ValidateTimeout
      PROVE  validator'[v].age = validator[v].age + 1
  BY <1>3 DEF ValidatorTick, TypeOK, ValidatorTypeOK
<1>4. ASSUME NEW v \in Validators, NEW r \in Rows, Live(v, r)'
      PROVE  Live(v, r) /\ validator'[v].age = validator[v].age + 1
  <2>1. validator[v].age <= ValidateTimeout
    BY <1>2, <1>4, ValidatorAssumption DEF ValidatorAssumption, Live, TypeOK, ValidatorTypeOK
  <2>2. validator[v] # Resting
    BY <1>2, <1>4 DEF Live, Resting
  <2> QED  BY <1>2, <1>3, <1>4, <2>1, <2>2 DEF Live
<1>5. ASSUME NEW v \in Validators, NEW r \in Rows, Live(v, r)
      PROVE  pool'[r].status = "validating" /\ pool'[r].age = validator[v].age + 1
  <2>1. pool[r].status = "validating" /\ pool[r].age = validator[v].age /\ pool[r].age \in 0..ValidateTimeout
    BY <1>5, LiveFacts
  <2>2. pool[r].age # Unclaimed /\ pool[r].age # AgeCap
    BY <2>1, ValidatorAssumption, PoolAssumption DEF ValidatorAssumption, PoolAssumption, Unclaimed, AgeCap
  <2> QED  BY <1>1, <2>1, <2>2 DEF Older, Stored, InFlight
<1>6. LiveIsClaimed'
  BY <1>4, <1>5 DEF LiveIsClaimed
<1> QED  BY <1>1, <1>6

-----------------------------------------------------------------------------
(* What mentions a key, step by step.                                      *)
LEMMA OutKept ==
  ASSUME OutIsPassed, Passes, UNCHANGED <<sending, outstanding>>
  PROVE  OutIsPassed'
<1>1. \A w \in Workers : Idle(w)' <=> Idle(w)
  BY DEF Idle
<1> QED  BY <1>1 DEF OutIsPassed, Passes

LEMMA BackKept ==
  ASSUME BackIsPassed, Passes,
         \A t \in Consumed, k \in Keys : stats'[<<t, k>>] > 0 => stats[<<t, k>>] > 0 \/ k \in Passed
  PROVE  BackIsPassed'
BY DEF BackIsPassed, Passes

LEMMA PublishBack ==
  ASSUME StreamTypeOK, BackIsPassed, Passes, NEW s \in Outcomes, NEW q \in Keys, PublishStat(s, q),
         s \in Consumed => q \in Passed
  PROVE  BackIsPassed'
<1>1. CASE UNCHANGED stats
  BY <1>1, BackKept
<1>2. CASE s \in Consumed /\ stats' = [stats EXCEPT ![<<s, q>>] = @ + 1]
  <2>1. \A t \in Consumed, k \in Keys : <<t, k>> # <<s, q>> => stats'[<<t, k>>] = stats[<<t, k>>]
    BY <1>2 DEF StreamTypeOK
  <2> QED  BY <1>2, <2>1, BackKept
<1> QED  BY <1>1, <1>2 DEF PublishStat

LEMMA ReadyBack ==
  ASSUME StreamTypeOK, BackIsPassed, Passes, NEW s \in Consumed, NEW q \in Keys, Ready(s, q), q \in Passed
  PROVE  BackIsPassed'
<1>1. \A t \in Consumed, k \in Keys : <<t, k>> # <<s, q>> => stats'[<<t, k>>] = stats[<<t, k>>]
  BY DEF StreamTypeOK, Ready
<1> QED  BY <1>1, BackKept

LEMMA HeldKept ==
  ASSUME HeldIsPassed, Passes,
         \A d \in Dispatchers : \A dlv \in page'[d] : dlv \in page[d] \/ KeyOf[dlv.row] \in Passed',
         \A t \in Threads : job'[t] # IdleJob =>
            \/ job[t] # IdleJob /\ job'[t].key = job[t].key
            \/ job'[t].key \in Passed
  PROVE  HeldIsPassed'
BY DEF HeldIsPassed, Passes

LEMMA Holding ==
  ASSUME TypeOK, HeldIsPassed
  PROVE  /\ \A d \in Dispatchers : \A dlv \in page[d] :
              dlv.row \in Rows /\ KeyOf[dlv.row] \in Keys /\ KeyOf[dlv.row] \in Passed
         /\ \A t \in Threads : job[t] # IdleJob => job[t].key \in Keys /\ job[t].key \in Passed
         /\ IdleJob.pc = "idle"
<1>1. \A d \in Dispatchers : \A dlv \in page[d] : dlv.row \in Rows /\ KeyOf[dlv.row] \in Keys
  BY PoolAssumption DEF PoolAssumption, TypeOK, DispatcherTypeOK, Deliveries
<1>2. \A t \in Threads : job[t] # IdleJob => job[t].key \in Keys
  BY BusyType DEF TypeOK, Jobs
<1>3. IdleJob.pc = "idle"
  BY DEF IdleJob
<1> QED  BY <1>1, <1>2, <1>3 DEF HeldIsPassed

(* A thread goes on with its job, is done with it or takes one up.         *)
LEMMA GotoHeld ==
  ASSUME TypeOK, HeldIsPassed, Passes, NEW t \in Threads, NEW j, Goto(t, j),
         \/ j = IdleJob
         \/ j.key \in Passed,
         \A d \in Dispatchers : \A dlv \in page'[d] : dlv \in page[d]
  PROVE  HeldIsPassed'
<1>1. job'[t] = j /\ \A u \in Threads : u # t => job'[u] = job[u]
  BY DEF Goto, TypeOK, DispatcherTypeOK
<1>2. \A u \in Threads : job'[u] # IdleJob =>
            \/ job[u] # IdleJob /\ job'[u].key = job[u].key
            \/ job'[u].key \in Passed
  BY <1>1
<1> QED  BY <1>2, HeldKept

LEMMA StillHeld ==
  ASSUME TypeOK, HeldIsPassed, Passes, UNCHANGED <<page, job>>
  PROVE  HeldIsPassed'
BY HeldKept

-----------------------------------------------------------------------------
(* The steps of the Dispatcher and of the SMTPSender.                      *)
LEMMA CycleAttempts ==
  ASSUME TypeOK, AttemptInv, NEW d \in Dispatchers, Cycle(d)
  PROVE  Lawful /\ AttemptInv'
<1> USE DEF AttemptInv
<1>1. CASE ClaimForDispatch(d)
  <2>1. PICK R \in SUBSET Rows :
          /\ PrepareForSend(R)
          /\ page' = [page EXCEPT ![d] = {[row |-> r, attempts |-> pool[r].attempts] : r \in R}]
    BY <1>1 DEF ClaimForDispatch
  <2>2. Lawful /\ Undisturbed /\ \A r \in R : pool'[r].status = "sending"
    BY <2>1, PrepareForSendLawful DEF TypeOK
  <2>3. UNCHANGED <<sending, outstanding, stats, validator, job>>
    BY <1>1 DEF Cycle, ClaimForDispatch, streamVars, validatorVars
  <2>4. \A r \in R : KeyOf[r] \in Passed'
    BY <2>2, RowStatus DEF Passed, TypeOK
  <2>5. \A c \in Dispatchers : \A dlv \in page'[c] : dlv \in page[c] \/ KeyOf[dlv.row] \in Passed'
    BY <2>1, <2>4 DEF TypeOK, DispatcherTypeOK
  <2>6. HeldIsPassed'
    BY <2>2, <2>3, <2>5, HeldKept DEF Lawful
  <2> QED  BY <2>2, <2>3, <2>6, LiveKept, OutKept, BackKept DEF Lawful
<1>2. CASE DispatchOne(d)
  <2>1. PICK dlv \in page[d] : /\ SendEmail(KeyOf[dlv.row], ShouldRetry(dlv))
                               /\ page' = [page EXCEPT ![d] = @ \ {dlv}]
    BY <1>2 DEF DispatchOne
  <2>2. UNCHANGED <<poolVars, outstanding, stats, validator, job>>
    BY <1>2 DEF Cycle, DispatchOne, validatorVars
  <2>3. Lawful /\ Undisturbed
    BY <2>2, StillLawful DEF TypeOK
  <2>4. KeyOf[dlv.row] \in Passed
    BY Holding
  <2>5. \A e \in sending' : e \in sending \/ e.key = KeyOf[dlv.row]
    BY <2>1 DEF SendEmail
  <2>6. \A e \in sending' : e.key \in Passed'
    BY <2>3, <2>4, <2>5 DEF Lawful, Passes, OutIsPassed
  <2>7. \A w \in Workers : Idle(w)' <=> Idle(w)
    BY <2>2 DEF Idle
  <2>8. OutIsPassed'
    BY <2>2, <2>3, <2>6, <2>7 DEF Lawful, Passes, OutIsPassed
  <2>9. \A c \in Dispatchers : page'[c] \subseteq page[c]
    BY <2>1 DEF TypeOK, DispatcherTypeOK
  <2>10. HeldIsPassed'
    BY <2>2, <2>3, <2>9, HeldKept DEF Lawful
  <2> QED  BY <2>2, <2>3, <2>8, <2>10, LiveKept, BackKept DEF Lawful
<1>3. CASE DispatchFails(d)
  <2>1. PICK dlv \in page[d] : /\ page' = [page EXCEPT ![d] = @ \ {dlv}]
                               /\ Goto(<<d, "cycle">>, RetryOrFail(KeyOf[dlv.row], dlv.attempts))
    BY <1>3 DEF DispatchFails
  <2>2. UNCHANGED <<poolVars, sending, outstanding, stats, validator>>
    BY <1>3 DEF Cycle, DispatchFails, validatorVars
  <2>3. Lawful /\ Undisturbed
    BY <2>2, StillLawful DEF TypeOK
  <2>4. RetryOrFail(KeyOf[dlv.row], dlv.attempts).key \in Passed
    BY Holding DEF RetryOrFail, Job
  <2>5. \A c \in Dispatchers : page'[c] \subseteq page[c]
    BY <2>1 DEF TypeOK, DispatcherTypeOK
  <2>6. HeldIsPassed'
    BY <2>1, <2>3, <2>4, <2>5, ThreadType, GotoHeld DEF Lawful
  <2> QED  BY <2>2, <2>3, <2>6, LiveKept, OutKept, BackKept DEF Lawful
<1> QED  BY <1>1, <1>2, <1>3 DEF Cycle, CycleStep

LEMMA StatAttempts ==
  ASSUME TypeOK, AttemptInv, NEW d \in Dispatchers, NEW s \in Consumed, Stat(d, s)
  PROVE  Lawful /\ AttemptInv'
<1> USE DEF AttemptInv
<1>1. PICK k \in Keys :
        /\ stats[<<s, k>>] > 0 /\ stats' = [stats EXCEPT ![<<s, k>>] = @ - 1]
        /\ \/ UNCHANGED job
           \/ \E r \in RowsOf(k) : Goto(<<d, s>>, IF s = "error" THEN RetryOrFail(k, pool[r].attempts)
                                                                 ELSE Job("drop", k))
  BY DEF Stat, TakeStat
<1>2. UNCHANGED <<poolVars, sending, outstanding, page, validator>>
  BY DEF Stat, TakeStat, validatorVars
<1>3. Lawful /\ Undisturbed
  BY <1>2, StillLawful DEF TypeOK
<1>4. k \in Passed
  BY <1>1 DEF BackIsPassed
<1>5. \A t \in Consumed, q \in Keys : <<t, q>> # <<s, k>> => stats'[<<t, q>>] = stats[<<t, q>>]
  BY <1>1 DEF TypeOK, StreamTypeOK
<1>6. BackIsPassed'
  BY <1>3, <1>4, <1>5, BackKept DEF Lawful
<1>7. HeldIsPassed'
  <2>1. CASE UNCHANGED job
    BY <1>2, <1>3, <2>1, StillHeld DEF Lawful
  <2>2. CASE ~UNCHANGED job
    <3>1. PICK r \in RowsOf(k) : Goto(<<d, s>>, IF s = "error" THEN RetryOrFail(k, pool[r].attempts)
                                                              ELSE Job("drop", k))
      BY <1>1, <2>2
    <3>2. PICK j : j = IF s = "error" THEN RetryOrFail(k, pool[r].attempts) ELSE Job("drop", k)
      OBVIOUS
    <3>3. j.key = k
      BY <3>2 DEF RetryOrFail, Job
    <3>4. Goto(<<d, s>>, j)
      BY <3>1, <3>2
    <3> QED  BY <1>2, <1>3, <1>4, <3>3, <3>4, ThreadType, GotoHeld DEF Lawful
  <2> QED  BY <2>1, <2>2
<1> QED  BY <1>2, <1>3, <1>6, <1>7, LiveKept, OutKept DEF Lawful

LEMMA WorkAttempts ==
  ASSUME TypeOK, AttemptInv, NEW t \in Threads, Work(t)
  PROVE  Lawful /\ AttemptInv'
<1> USE DEF AttemptInv
<1>1. PICK k : k = job[t].key
  OBVIOUS
<1>2. job[t].pc \in {"reschedule", "update", "fail", "drop"} /\ job[t] # IdleJob
  BY Holding DEF Work, JobStep, RescheduleGet, RescheduleUpdate, FailPublish, Drop
<1>3. k \in Keys /\ k \in Passed /\ job[t] \in Jobs
  BY <1>1, <1>2, Holding, PcType DEF TypeOK
<1>4. UNCHANGED <<sending, outstanding, page, validator>>
  BY DEF Work, JobStep, RescheduleGet, RescheduleUpdate, FailPublish, Drop, streamVars, validatorVars
<1>5. Lawful /\ Undisturbed
  <2>1. CASE RescheduleUpdate(t)
    BY <1>1, <1>3, <2>1, RescheduleLawful DEF RescheduleUpdate, TypeOK
  <2>2. CASE Drop(t)
    BY <1>1, <1>3, <2>2, DropLawful DEF Drop, TypeOK
  <2>3. CASE UNCHANGED poolVars
    BY <2>3, StillLawful DEF TypeOK
  <2> QED  BY <2>1, <2>2, <2>3 DEF Work, JobStep, RescheduleGet, FailPublish
<1>6. BackIsPassed'
  <2>1. CASE FailPublish(t)
    BY <1>1, <1>3, <1>5, <2>1, PublishBack DEF FailPublish, Outcomes, Consumed, Lawful, TypeOK
  <2>2. CASE UNCHANGED stats
    BY <1>5, <2>2, BackKept DEF Lawful
  <2> QED  BY <2>1, <2>2 DEF Work, JobStep, RescheduleGet, RescheduleUpdate, Drop, streamVars
<1>7. HeldIsPassed'
  <2>1. PICK j : Goto(t, j) /\ (j = IdleJob \/ j.key = k)
    <3>1. \A n : [job[t] EXCEPT !.pc = "update", !.next = n].key = k
      BY <1>1, <1>3 DEF Jobs
    <3>2. [job[t] EXCEPT !.pc = "drop"].key = k
      BY <1>1, <1>3 DEF Jobs
    <3> QED  BY <3>1, <3>2, Zenon DEF Work, JobStep, RescheduleGet, RescheduleUpdate, FailPublish, Drop
  <2> QED  BY <1>3, <1>4, <1>5, <2>1, GotoHeld DEF Lawful
<1> QED  BY <1>4, <1>5, <1>6, <1>7, LiveKept, OutKept DEF Lawful

LEMMA FaultAttempts ==
  ASSUME TypeOK, AttemptInv, NEW d \in Dispatchers, DispatcherFault(d), UNCHANGED validatorVars
  PROVE  Lawful /\ AttemptInv'
<1> USE DEF AttemptInv
<1>1. UNCHANGED <<poolVars, sending, outstanding, validator>>
  BY DEF DispatcherFault, JobFails, RedeliverStat, CrashDispatcher, validatorVars
<1>2. Lawful /\ Undisturbed
  BY <1>1, StillLawful DEF TypeOK
<1>3. ASSUME NEW s \in Consumed \cup {"cycle"}, JobFails(<<d, s>>) \/ RedeliverStat(<<d, s>>)
      PROVE  BackIsPassed' /\ HeldIsPassed'
  <2>1. PICK t \in Threads : t = <<d, s>> /\ t[2] = s
    BY ThreadType
  <2>2. job[t] # IdleJob /\ UNCHANGED page /\ (UNCHANGED job \/ Goto(t, IdleJob))
    BY <1>3, <2>1 DEF JobFails, RedeliverStat
  <2>3. job[t].key \in Keys /\ job[t].key \in Passed
    BY <2>2, Holding
  <2>4. UNCHANGED stats \/ (s \in Consumed /\ Ready(s, job[t].key))
    BY <1>3, <2>1 DEF JobFails, RedeliverStat
  <2>5. BackIsPassed'
    BY <1>2, <2>3, <2>4, BackKept, ReadyBack DEF Lawful, TypeOK
  <2>6. HeldIsPassed'
    BY <1>2, <2>2, StillHeld, GotoHeld DEF Lawful
  <2> QED  BY <2>5, <2>6
<1>4. ASSUME CrashDispatcher(d)
      PROVE  BackIsPassed' /\ HeldIsPassed'
  <2>1. \A c \in Dispatchers : page'[c] \subseteq page[c]
    BY <1>4 DEF CrashDispatcher, TypeOK, DispatcherTypeOK
  <2>2. \A t \in Threads : job'[t] # IdleJob => job'[t] = job[t]
    BY <1>4 DEF CrashDispatcher
  <2>3. HeldIsPassed'
    BY <1>2, <2>1, <2>2, HeldKept DEF Lawful
  <2>4. ASSUME NEW s \in Consumed, NEW k \in Keys, stats'[<<s, k>>] > 0
        PROVE  stats[<<s, k>>] > 0 \/ k \in Passed
    <3>1. \/ stats'[<<s, k>>] = stats[<<s, k>>]
          \/ job[<<d, s>>] # IdleJob /\ job[<<d, s>>].key = k
      BY <1>4 DEF CrashDispatcher
    <3> QED  BY <2>4, <3>1, Holding, ThreadType
  <2>5. BackIsPassed'
    BY <1>2, <2>4, BackKept DEF Lawful
  <2> QED  BY <2>3, <2>5
<1>5. BackIsPassed' /\ HeldIsPassed'
  BY <1>3, <1>4 DEF DispatcherFault
<1> QED  BY <1>1, <1>2, <1>5, LiveKept, OutKept DEF Lawful

LEMMA SendAttempts ==
  ASSUME TypeOK, AttemptInv, NEW w \in Workers, Send(w)
  PROVE  Lawful /\ AttemptInv'
<1> USE DEF AttemptInv
<1>1. UNCHANGED <<poolVars, validator, page, job>>
  BY DEF Send, validatorVars, dispatcherVars
<1>2. Lawful /\ Undisturbed
  BY <1>1, StillLawful DEF TypeOK
<1>3. HeldIsPassed'
  BY <1>1, <1>2, StillHeld DEF Lawful
<1>4. ASSUME \A e \in sending' : e \in sending \/ (~Idle(w) /\ e = outstanding[w]),
             \A u \in Workers : \/ outstanding'[u] = NoEnvelope \/ outstanding'[u] = outstanding[u]
                                \/ \E e \in sending : outstanding'[u].key = e.key
      PROVE  OutIsPassed'
  <2>1. \A e \in sending' : e.key \in Passed'
    BY <1>2, <1>4 DEF OutIsPassed, Lawful, Passes
  <2>2. ASSUME NEW u \in Workers, outstanding'[u] # NoEnvelope
        PROVE  outstanding'[u].key \in Passed'
    BY <1>2, <1>4, <2>2 DEF OutIsPassed, Lawful, Passes, Idle
  <2> QED  BY <2>1, <2>2 DEF OutIsPassed, Idle
<1>5. CASE HandleMessage(w)
  <2>1. PICK e \in sending : /\ Claim(w, e) \/ ClaimLost(w, e) \/ ClaimFailsOpen(w, e)
                             /\ sending' = sending \ {e}
    BY <1>5 DEF HandleMessage
  <2>2. e \in Envelope
    BY DEF TypeOK, StreamTypeOK
  <2>3. PICK f : f = [e EXCEPT !.admitted = IF @ < 2 THEN @ + 1 ELSE @]
    OBVIOUS
  <2>4. f.key = e.key
    BY <2>2, <2>3 DEF Envelope
  <2>5. outstanding' \in {outstanding, [outstanding EXCEPT ![w] = e], [outstanding EXCEPT ![w] = f]}
    BY <2>1, <2>3 DEF Claim, ClaimLost, ClaimFailsOpen
  <2>6. \A u \in Workers : outstanding'[u] = outstanding[u] \/ outstanding'[u].key = e.key
    BY <2>4, <2>5 DEF TypeOK, StreamTypeOK
  <2>7. OutIsPassed'
    BY <1>4, <2>1, <2>6
  <2>8. UNCHANGED stats
    BY <1>5 DEF HandleMessage
  <2> QED  BY <1>1, <1>2, <1>3, <2>7, <2>8, LiveKept, BackKept DEF Lawful
<1>6. CASE Report(w)
  <2>1. PICK answer \in Answers : PublishStat(OutcomeOf(answer, outstanding[w]), outstanding[w].key)
    BY <1>6 DEF Report
  <2>2. ~Idle(w) /\ UNCHANGED sending /\ outstanding' = [outstanding EXCEPT ![w] = NoEnvelope]
    BY <1>6 DEF Report
  <2>3. outstanding[w].key \in Keys /\ outstanding[w].key \in Passed
    BY <2>2 DEF OutIsPassed, Idle, TypeOK, StreamTypeOK, Envelope
  <2>4. OutcomeOf(answer, outstanding[w]) \in Outcomes
    BY DEF OutcomeOf, Outcomes, Consumed
  <2>5. BackIsPassed'
    BY <1>2, <2>1, <2>3, <2>4, PublishBack DEF Lawful, TypeOK
  <2>6. \A u \in Workers : outstanding'[u] = NoEnvelope \/ outstanding'[u] = outstanding[u]
    BY <2>2 DEF TypeOK, StreamTypeOK
  <2>7. OutIsPassed'
    BY <1>4, <2>2, <2>6
  <2> QED  BY <1>1, <1>2, <1>3, <2>5, <2>7, LiveKept DEF Lawful
<1>7. CASE ReportRefused(w) \/ AckDeadline(w)
  <2>1. /\ ~Idle(w) /\ sending' = sending \cup {outstanding[w]} /\ UNCHANGED stats
        /\ outstanding' = [outstanding EXCEPT ![w] = NoEnvelope] \/ UNCHANGED outstanding
    BY <1>7 DEF ReportRefused, AckDeadline
  <2>2. \A u \in Workers : outstanding'[u] = NoEnvelope \/ outstanding'[u] = outstanding[u]
    BY <2>1 DEF TypeOK, StreamTypeOK
  <2>3. OutIsPassed'
    BY <1>4, <2>1, <2>2
  <2> QED  BY <1>1, <1>2, <1>3, <2>1, <2>3, LiveKept, BackKept DEF Lawful
<1> QED  BY <1>5, <1>6, <1>7 DEF Send, SenderStep

LEMMA AttemptStep ==
  ASSUME TypeOK, AttemptInv, [Next]_vars
  PROVE  AttemptInv' /\ Spends /\ Attempted
<1> USE DEF AttemptInv
<1>1. SUFFICES Lawful /\ AttemptInv'
  BY DEF Lawful
<1>2. ASSUME UNCHANGED <<sending, outstanding, stats, page, job>>, Lawful, LiveIsClaimed'
      PROVE  Lawful /\ AttemptInv'
  BY <1>2, OutKept, BackKept, StillHeld DEF Lawful
<1>3. CASE Intake
  <2>1. Lawful /\ Undisturbed
    BY <1>3, CreateLawful DEF Intake, TypeOK
  <2>2. UNCHANGED <<sending, outstanding, stats, page, job, validator>>
    BY <1>3 DEF Intake, streamVars, validatorVars, dispatcherVars
  <2> QED  BY <1>2, <2>1, <2>2, LiveKept
<1>4. CASE Tick
  <2>1. Lawful /\ LiveIsClaimed'
    BY <1>4, TickLive DEF Tick
  <2>2. UNCHANGED <<sending, outstanding, stats, page, job>>
    BY <1>4 DEF Tick, dispatcherVars
  <2> QED  BY <1>2, <2>1, <2>2
<1>5. ASSUME NEW v \in Validators, Validate(v)
      PROVE  Lawful /\ AttemptInv'
  <2>1. Lawful /\ LiveIsClaimed'
    BY <1>5, ValidateLive DEF Validate
  <2>2. UNCHANGED <<sending, outstanding, page, job>>
    BY <1>5 DEF Validate, ValidatorStep, ValidatorFault, ClaimForValidation, JudgeDelivery,
                PublishVerdict, SkipDelivery, CrashValidator, streamVars, dispatcherVars
  <2>3. CASE PublishVerdict(v)
    <3>1. PICK s \in {"accepted", "rejected"} : \E r \in Rows : PublishStat(s, KeyOf[r])
      BY <2>3 DEF PublishVerdict, TypeOK, ValidatorTypeOK
    <3>2. PICK r \in Rows : PublishStat(s, KeyOf[r])
      BY <3>1
    <3>3. s \in Outcomes /\ s \notin Consumed
      BY <3>1 DEF Outcomes, Consumed
    <3>4. BackIsPassed'
      BY <2>1, <3>2, <3>3, RowStatus, PublishBack DEF Lawful, TypeOK
    <3> QED  BY <2>1, <2>2, <3>4, OutKept, StillHeld DEF Lawful
  <2>4. CASE UNCHANGED stats
    BY <1>2, <2>1, <2>2, <2>4
  <2> QED  BY <1>5, <2>3, <2>4 DEF Validate, ValidatorStep, ValidatorFault, ClaimForValidation,
                JudgeDelivery, SkipDelivery, CrashValidator, streamVars
<1>6. CASE ValidateReclaim \/ DispatchReclaim
  <2>1. Lawful /\ Undisturbed
    BY <1>6, ReclaimLawful DEF ValidateReclaim, ReclaimValidating, DispatchReclaim, ReclaimSending,
                               InFlight, TypeOK
  <2>2. UNCHANGED <<sending, outstanding, stats, page, job, validator>>
    BY <1>6 DEF ValidateReclaim, ReclaimValidating, DispatchReclaim, ReclaimSending,
                streamVars, validatorVars, dispatcherVars
  <2> QED  BY <1>2, <2>1, <2>2, LiveKept
<1>7. ASSUME NEW d \in Dispatchers, Cycling(d)
      PROVE  Lawful /\ AttemptInv'
  BY <1>7, CycleAttempts, WorkAttempts, ThreadType DEF Cycling
<1>8. ASSUME NEW d \in Dispatchers, NEW s \in Consumed, Consuming(d, s)
      PROVE  Lawful /\ AttemptInv'
  BY <1>8, StatAttempts, WorkAttempts, ThreadType DEF Consuming
<1>9. ASSUME NEW k \in Keys, DeleteTemplate(k), UNCHANGED validatorVars
      PROVE  Lawful /\ AttemptInv'
  <2>1. UNCHANGED <<poolVars, sending, outstanding, stats, page, job, validator>>
    BY <1>9 DEF DeleteTemplate, streamVars, validatorVars
  <2>2. Lawful /\ Undisturbed
    BY <2>1, StillLawful DEF TypeOK
  <2> QED  BY <1>2, <2>1, <2>2, LiveKept
<1>10. CASE UNCHANGED vars
  <2>1. UNCHANGED <<poolVars, sending, outstanding, stats, page, job, validator>>
    BY <1>10 DEF vars, streamVars, validatorVars, dispatcherVars
  <2>2. Lawful /\ Undisturbed
    BY <2>1, StillLawful DEF TypeOK
  <2> QED  BY <1>2, <2>1, <2>2, LiveKept
<1> QED  BY <1>3, <1>4, <1>5, <1>6, <1>7, <1>8, <1>9, <1>10, FaultAttempts, SendAttempts DEF Next

LEMMA AttemptInit == Init => AttemptInv
<1> SUFFICES ASSUME Init
             PROVE  AttemptInv
  OBVIOUS
<1>1. \A r \in Rows : pool[r].status = "absent"
  BY DEF Init, PoolInit, NoRow, Row
<1>2. \A v \in Validators, r \in Rows : ~Live(v, r)
  BY DEF Init, ValidatorInit, Resting, Live
<1>3. OutIsPassed /\ BackIsPassed
  BY DEF Init, StreamInit, OutIsPassed, BackIsPassed, Idle
<1>4. HeldIsPassed
  BY DEF Init, DispatcherInit, HeldIsPassed
<1> QED  BY <1>1, <1>2, <1>3, <1>4 DEF AttemptInv, KeysApart, LiveIsClaimed

(* A row that was claimed for dispatch becomes claimable again only at the *)
(* price of an attempt: a verdict of the Validator, which costs none, only *)
(* ever reaches a row that its own live claim still holds                  *)
(* (pkg/validator, handleDelivery; pkg/dispatcher, retryOrFail, reclaim).  *)
THEOREM ResendsSpendAttempts == Spec => ResendSpendsAttempt
<1>1. ASSUME TypeOK, AttemptInv, [Next]_vars
      PROVE  [\A r \in Rows :
                pool[r].status = "sending" /\ pool'[r].status = "scheduled" =>
                  \/ pool'[r].attempts > pool[r].attempts
                  \/ pool[r].attempts = MaxAttempts]_vars
  BY <1>1, AttemptStep DEF Spends
<1>2. TypeOK /\ AttemptInv /\ [Next]_vars => AttemptInv'
  BY AttemptStep
<1> QED  BY <1>1, <1>2, AttemptInit, PipelineTypes, PTL DEF Spec, ResendSpendsAttempt

(* A row that the Validator has not passed is deleted only if its address  *)
(* is invalid: no job, stat or Envelope carries the key of such a row, so  *)
(* the deletions of the Dispatcher, which ask for no status, miss it       *)
(* (pkg/dispatcher, handleDelivered, handleBounced, fail).                 *)
THEOREM DeliveriesAreAttempted == Spec => AtLeastOneAttempt
<1>1. ASSUME TypeOK, AttemptInv, [Next]_vars
      PROVE  [\A r \in Rows :
                /\ pool[r].status \in {"to_validate", "validating"}
                /\ pool'[r].status = "deleted"
                => KeyOf[r] \notin ValidKeys]_vars
  BY <1>1, AttemptStep DEF Attempted
<1>2. TypeOK /\ AttemptInv /\ [Next]_vars => AttemptInv'
  BY AttemptStep
<1> QED  BY <1>1, <1>2, AttemptInit, PipelineTypes, PTL DEF Spec, AtLeastOneAttempt
=============================================================================
