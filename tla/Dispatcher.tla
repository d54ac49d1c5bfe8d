------------------------------ MODULE Dispatcher ------------------------------
(***************************************************************************)
(* The Dispatcher (pkg/dispatcher).  Each replica runs five goroutines: the *)
(* dispatch cycle, which turns claimed rows into Envelopes; one consumer    *)
(* for each of the stats error, delivered and bounced, which bring the      *)
(* outcome of an Envelope back to the row; and the reclaim loop.            *)
(*                                                                          *)
(* The four that hold a Delivery in memory are threads here.  A thread's    *)
(* job is the key of that Delivery, where in retryOrFail, fail or Drop the  *)
(* thread stands, and the next retry once it is computed; the row may       *)
(* change under it between any two of its statements.                       *)
(***************************************************************************)
EXTENDS SendingPool, Streams

CONSTANT Dispatchers      \* replicas of the Dispatcher

VARIABLES
  page,      \* per replica: the claimed Deliveries it has yet to dispatch
  job,       \* per thread: the Delivery it is handling
  orphaned   \* keys whose Batch has lost its Template: no Envelope can be built

dispatcherVars == <<page, job, orphaned>>

-----------------------------------------------------------------------------
Threads == Dispatchers \X (Consumed \cup {"cycle"})

IdleJob == [pc |-> "idle"]
Job(pc, k) == [pc |-> pc, key |-> k, next |-> 0]

Goto(t, j) == job' = [job EXCEPT ![t] = j]

(* Mutant: a Delivery without budget is dropped, nothing is published.     *)
RetryOrDrop(k, n) == Job(IF CanRetry(n) THEN "reschedule" ELSE "drop", k)

(* Mutant: the budget is never asked.                                      *)
AlwaysRetry(k, n) == Job("reschedule", k)

(* retryOrFail: the verdict on the Delivery in memory, whose tally is n.   *)
RetryOrFail(k, n) == Job(IF CanRetry(n) THEN "reschedule" ELSE "fail", k)

(* DispatchCycle: the claim.  The slice element keeps the tally it read.   *)
ClaimForDispatch(d) ==
  /\ page[d] = {}
  /\ job[<<d, "cycle">>] = IdleJob
  /\ \E R \in SUBSET Rows :
       /\ PrepareForSend(R)
       /\ page' = [page EXCEPT ![d] = {[row |-> r, attempts |-> pool[r].attempts] : r \in R}]
  /\ UNCHANGED <<streamVars, job, orphaned>>

(* Build stamps the Envelope with CanRetry of the Delivery in memory.      *)
ShouldRetry(dlv) == CanRetry(dlv.attempts)

(* dispatchOne, the Envelope built and handed on; whether there is budget  *)
(* left for it is not asked.                                               *)
DispatchOne(d) ==
  /\ job[<<d, "cycle">>] = IdleJob
  /\ \E dlv \in page[d] :
       /\ KeyOf[dlv.row] \notin orphaned
       /\ SendEmail(KeyOf[dlv.row], ShouldRetry(dlv))
       /\ page' = [page EXCEPT ![d] = @ \ {dlv}]
  /\ UNCHANGED <<poolVars, job, orphaned, outstanding, guard, stats, published>>

(* dispatchOne, Build or SendEmail failed: reschedule.                     *)
DispatchFails(d) ==
  /\ job[<<d, "cycle">>] = IdleJob
  /\ \E dlv \in page[d] :
       /\ IF KeyOf[dlv.row] \in orphaned THEN UNCHANGED faults ELSE Fault
       /\ page' = [page EXCEPT ![d] = @ \ {dlv}]
       /\ Goto(<<d, "cycle">>, RetryOrFail(KeyOf[dlv.row], dlv.attempts))
  /\ UNCHANGED <<poolVars, orphaned, sending, outstanding, guard, stats, published>>

(* handleMsg: a consumer takes a stat and looks its Delivery up.  A stat   *)
(* for a row that is gone is terminated.                                   *)
TakeStat(d, s) ==
  /\ job[<<d, s>>] = IdleJob
  /\ \E k \in Keys :
       /\ stats[<<s, k>>] > 0
       /\ stats' = [stats EXCEPT ![<<s, k>>] = @ - 1]
       /\ \/ RowsOf(k) = {} /\ UNCHANGED job
          \/ \E r \in RowsOf(k) :
               Goto(<<d, s>>, IF s = "error" THEN RetryOrFail(k, pool[r].attempts)
                                             ELSE Job("drop", k))
  /\ UNCHANGED <<poolVars, page, orphaned, sending, outstanding, guard, published, faults>>

(* Repository.Reschedule reads the row again, and computes the next retry  *)
(* from what it finds ...                                                  *)
RescheduleGet(t) ==
  /\ job[t].pc = "reschedule"
  /\ \/ RowsOf(job[t].key) = {} /\ Goto(t, IdleJob)
     \/ \E r \in RowsOf(job[t].key) :
          Goto(t, [job[t] EXCEPT !.pc = "update", !.next = NextRetryAt(pool[r].attempts)])
  /\ UNCHANGED <<poolVars, streamVars, page, orphaned>>

(* ... and then updates it in a second statement.                          *)
RescheduleUpdate(t) ==
  /\ job[t].pc = "update"
  /\ ReschedulePool(job[t].key, job[t].next)
  /\ Goto(t, IdleJob)
  /\ UNCHANGED <<streamVars, page, orphaned>>

(* Mutant: the stat is not published.                                      *)
FailSilently(t) ==
  /\ job[t].pc = "fail"
  /\ Goto(t, [job[t] EXCEPT !.pc = "drop"])
  /\ UNCHANGED <<poolVars, streamVars, page, orphaned>>

(* fail: the stat first, the row afterwards.                               *)
FailPublish(t) ==
  /\ job[t].pc = "fail"
  /\ PublishStat("failed", job[t].key)
  /\ Goto(t, [job[t] EXCEPT !.pc = "drop"])
  /\ UNCHANGED <<poolVars, page, orphaned, sending, outstanding, guard>>

Drop(t) ==
  /\ job[t].pc = "drop"
  /\ CleanPool(job[t].key)
  /\ Goto(t, IdleJob)
  /\ UNCHANGED <<streamVars, page, orphaned>>

(* A statement or a publish of the job fails: the dispatch cycle logs it   *)
(* and goes on, a consumer asks for the stat again (NakWithDelay).         *)
JobFails(t) ==
  /\ job[t] # IdleJob
  /\ Fault
  /\ Goto(t, IdleJob)
  /\ IF t[2] \in Consumed THEN Ready(t[2], job[t].key) ELSE UNCHANGED stats
  /\ UNCHANGED <<poolVars, page, orphaned, sending, outstanding, guard, published>>

(* The ack deadline of a consumer passes, or its Ack is lost: another copy *)
(* of the stat it is handling will be handled.                             *)
RedeliverStat(t) ==
  /\ job[t] # IdleJob
  /\ t[2] \in Consumed
  /\ Fault
  /\ Ready(t[2], job[t].key)
  /\ UNCHANGED <<poolVars, page, job, orphaned, sending, outstanding, guard, published>>

(* The process dies and is started again.  Its page is gone; the stats its *)
(* consumers held become ready again.                                      *)
CrashDispatcher(d) ==
  /\ page[d] # {} \/ \E s \in Consumed \cup {"cycle"} : job[<<d, s>>] # IdleJob
  /\ Fault
  /\ page' = [page EXCEPT ![d] = {}]
  /\ job' = [t \in Threads |-> IF t[1] = d THEN IdleJob ELSE job[t]]
  /\ stats' = [sk \in Consumed \X Keys |->
       IF /\ job[<<d, sk[1]>>] # IdleJob
          /\ job[<<d, sk[1]>>].key = sk[2]
          /\ stats[sk] < MaxPending
       THEN stats[sk] + 1 ELSE stats[sk]]
  /\ UNCHANGED <<poolVars, orphaned, sending, outstanding, guard, published>>

(* reclaimLoop.                                                            *)
ReclaimSending ==
  /\ ReclaimStranded("sending")
  /\ UNCHANGED <<streamVars, dispatcherVars>>

(* External: the Template of a Batch is deleted under its Deliveries;      *)
(* GetSendingData finds no row to join from now on.                        *)
DeleteTemplate(k) ==
  /\ k \notin orphaned
  /\ orphaned' = orphaned \cup {k}
  /\ UNCHANGED <<poolVars, streamVars, page, job>>

JobStep(t) == RescheduleGet(t) \/ RescheduleUpdate(t) \/ FailPublish(t) \/ Drop(t)

CycleStep(d) == ClaimForDispatch(d) \/ DispatchOne(d)

DispatcherFault(d) ==
  \/ \E s \in Consumed \cup {"cycle"} : JobFails(<<d, s>>) \/ RedeliverStat(<<d, s>>)
  \/ CrashDispatcher(d)

DispatcherInit ==
  /\ page = [d \in Dispatchers |-> {}]
  /\ job = [t \in Threads |-> IdleJob]
  /\ orphaned = {}

(* Pages hold Deliveries as they were claimed, jobs hold them as read.     *)
Deliveries == [row : Rows, attempts : 0..MaxAttempts]

Jobs == [pc : {"reschedule", "update", "fail", "drop"}, key : Keys,
         next : 0..Horizon]

DispatcherTypeOK ==
  /\ page \in [Dispatchers -> SUBSET Deliveries]
  /\ job \in [Threads -> Jobs \cup {IdleJob}]
  /\ orphaned \subseteq Keys

=============================================================================
