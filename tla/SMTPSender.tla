------------------------------ MODULE SMTPSender ------------------------------
(***************************************************************************)
(* The SMTPSender (pkg/smtpsender): workers that take Envelopes from the    *)
(* kannon-sending stream, claim each in the send guard, talk to the relay   *)
(* and report the outcome as a stat.                                        *)
(*                                                                          *)
(* A worker with an outstanding Envelope is inside sender.Send.  What the   *)
(* relay answers is chosen when the worker reports it; a worker that dies   *)
(* before that has sent the mail or has not, and nobody knows.              *)
(***************************************************************************)
EXTENDS Streams

CONSTANT
  Prompt   \* TRUE: whatever the guard admitted is settled within the TTL

ASSUME PromptAssumption == Prompt \in BOOLEAN

-----------------------------------------------------------------------------
Idle(w) == outstanding[w] = NoEnvelope

(* Mutant: the entry is written whether it is there or not (Put, not       *)
(* Create).                                                                *)
ClaimByPut(w, e) ==
  /\ guard' = [guard EXCEPT ![e.seq] = 0]
  /\ outstanding' = [outstanding EXCEPT ![w] =
       [e EXCEPT !.admitted = IF @ < 2 THEN @ + 1 ELSE @]]
  /\ UNCHANGED faults

(* handleMessage up to sender.Send.  kvSendGuard.Claim creates the key of  *)
(* the stored message or finds it there; in the latter case the redelivery *)
(* is acknowledged and dropped without a stat.  A guard that cannot be     *)
(* asked does not keep the mail from being sent (claimSend fails open).    *)
Claim(w, e) ==
  /\ guard[e.seq] = Forgotten
  /\ guard' = [guard EXCEPT ![e.seq] = 0]
  /\ outstanding' = [outstanding EXCEPT ![w] =
       [e EXCEPT !.admitted = IF @ < 2 THEN @ + 1 ELSE @]]
  /\ UNCHANGED faults

ClaimLost(w, e) ==
  /\ guard[e.seq] # Forgotten
  /\ UNCHANGED <<guard, outstanding, faults>>

ClaimFailsOpen(w, e) ==
  /\ Fault
  /\ outstanding' = [outstanding EXCEPT ![w] = e]
  /\ UNCHANGED <<guard>>

HandleMessage(w) ==
  /\ Idle(w)
  /\ \E e \in sending :
       /\ Claim(w, e) \/ ClaimLost(w, e) \/ ClaimFailsOpen(w, e)
       /\ sending' = sending \ {e}
  /\ UNCHANGED <<stats, published>>

(* handleSendSuccess and handleSendError.  A transient answer is reported  *)
(* as an error to be retried only while the Envelope says it may be; after *)
(* that, and for a permanent answer, the Delivery bounces.                 *)
Answers == {"accepted", "transient", "permanent"}

OutcomeOf(answer, e) ==
  IF answer = "accepted" THEN "delivered"
  ELSE IF answer = "permanent" \/ ~e.shouldRetry THEN "bounced" ELSE "error"

Report(w) ==
  /\ ~Idle(w)
  /\ \E answer \in Answers :
       PublishStat(OutcomeOf(answer, outstanding[w]), outstanding[w].key)
  /\ outstanding' = [outstanding EXCEPT ![w] = NoEnvelope]
  /\ UNCHANGED <<sending, guard>>

(* The Envelope of w goes back to the stream and w is free: the stat could *)
(* not be published (handleMsgAck: Nak), or the process died.              *)
ReportRefused(w) ==
  /\ ~Idle(w)
  /\ Fault
  /\ sending' = sending \cup {outstanding[w]}
  /\ outstanding' = [outstanding EXCEPT ![w] = NoEnvelope]
  /\ UNCHANGED <<guard, stats, published>>

(* The ack deadline of sendAckPolicy passes, or the Ack is lost: the       *)
(* Envelope is ready again while w is still at it.                         *)
AckDeadline(w) ==
  /\ ~Idle(w)
  /\ Fault
  /\ sending' = sending \cup {outstanding[w]}
  /\ UNCHANGED <<outstanding, guard, stats, published>>

(* Under Prompt the clock waits for what the guard admitted: the relay     *)
(* answers within the deadlines of internal/smtp and a redelivered         *)
(* Envelope is taken before the entry that recognises it expires.          *)
SettledInTime ==
  \A s \in Seqs : guard[s] = TTL =>
    /\ \A e \in sending : e.seq # s
    /\ \A w \in Workers : outstanding[w].seq # s

SenderTick ==
  /\ Prompt => SettledInTime
  /\ GuardTick

SenderStep(w) == HandleMessage(w) \/ Report(w) \/ ReportRefused(w) \/ AckDeadline(w)

-----------------------------------------------------------------------------
(* The SMTPSender by itself, fed by a Dispatcher that may publish an       *)
(* Envelope at any time and whose consumers take stats at any time.        *)
Dispatch ==
  /\ \E k \in Keys, b \in BOOLEAN : SendEmail(k, b)
  /\ UNCHANGED <<outstanding, guard, stats, published>>

Consume ==
  /\ \E t \in Consumed, k \in Keys :
       /\ stats[<<t, k>>] > 0
       /\ stats' = [stats EXCEPT ![<<t, k>>] = @ - 1]
  /\ UNCHANGED <<sending, outstanding, guard, published, faults>>

Wait ==
  /\ SenderTick
  /\ UNCHANGED <<sending, outstanding, stats, published, faults>>

SenderNext == Dispatch \/ Consume \/ Wait \/ \E w \in Workers : SenderStep(w)

SenderSpec == StreamInit /\ [][SenderNext]_streamVars

-----------------------------------------------------------------------------
(* The guard admits at most one SMTP transaction per stored Envelope,      *)
(* whatever redeliveries, crashes and concurrent workers there are: no     *)
(* copy of it was let through twice, and while a copy that was let through *)
(* is at a worker the entry stands that turns the other copies away.       *)
OneTransactionPerEnvelope ==
  \A w \in Workers : ~Idle(w) /\ outstanding[w].admitted > 0 =>
    outstanding[w].admitted = 1 /\ guard[outstanding[w].seq] # Forgotten

=============================================================================
