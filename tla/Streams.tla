------------------------------- MODULE Streams -------------------------------
(***************************************************************************)
(* What the components use of NATS: the kannon-sending stream with the one  *)
(* durable consumer the SMTPSenders share, the kannon.stats.* subjects with *)
(* the Dispatcher's three durable consumers, and the key/value bucket of    *)
(* the send guard.  NATS is not part of the repository; it is modelled from *)
(* the options and calls the code uses.                                     *)
(*                                                                          *)
(* Delivery is at least once.  A message that has been handed out leaves    *)
(* the set of the ready ones; a Nak, the death of its holder or an expired  *)
(* ack deadline makes it ready again, the last while the first holder is    *)
(* still at work.  Acknowledging a message is never handing it out again,   *)
(* so an Ack that arrives in time needs no step.                            *)
(*                                                                          *)
(* The publisher is the core one (nc.Publish, x/container): a message it    *)
(* accepted without an error may still never reach the stream.              *)
(***************************************************************************)
EXTENDS DeliveryKey, Integers, FiniteSets

CONSTANTS
  Workers,      \* tasks of the SMTPSenders, over all replicas
  Seqs,         \* stream sequence numbers in use at one time
  MaxPending,   \* bound: stats of a kind and key waiting at one time
  MaxFaults,    \* bound: failures of the environment in one behaviour
  TTL,          \* sendGuardTTL
  StatsReach    \* FALSE: no stat ever reaches the Dispatcher's consumers

ASSUME StreamAssumption ==
  /\ Seqs \subseteq Nat
  /\ MaxPending \in Nat \ {0}
  /\ MaxFaults \in Nat
  /\ TTL \in Nat
  /\ StatsReach \in BOOLEAN

VARIABLES
  sending,      \* Envelopes ready to be handed to a worker
  outstanding,  \* the Envelope each worker holds, if any
  guard,        \* age of the guard's entry for each sequence number
  stats,        \* number of ready stats, by kind and key
  published,    \* history: the kinds of stat ever published for a key
  faults        \* failures the environment may still inflict

streamVars == <<sending, outstanding, guard, stats, published, faults>>

-----------------------------------------------------------------------------
Consumed == {"delivered", "bounced", "error"}   \* the Dispatcher's consumers
Outcomes == Consumed \cup {"accepted", "rejected", "failed"}

(* A stored Envelope.  The field admitted is history: how many times the   *)
(* send guard has let a worker transmit this stored message.               *)
Envelope   == [seq : Seqs, key : Keys, shouldRetry : BOOLEAN, admitted : 0..2]
NoEnvelope == [seq |-> -1]

Forgotten == -1                      \* no entry in the bucket

(* One failure of the environment: a lost message, a refused call, a       *)
(* redelivery, a crash.                                                    *)
Fault == faults > 0 /\ faults' = faults - 1

(* Sequence numbers nothing remembers.  A stream never reuses a number;    *)
(* one that no message, worker or guard entry mentions any longer is as    *)
(* good as new.                                                            *)
FreshSeqs ==
  {s \in Seqs : /\ guard[s] = Forgotten
                /\ \A e \in sending : e.seq # s
                /\ \A w \in Workers : outstanding[w].seq # s}

NextSeq == CHOOSE s \in FreshSeqs : TRUE

(* publisher.SendEmail that returned nil: the Envelope is stored under a   *)
(* new sequence number, or lost on the way.                                *)
SendEmail(k, shouldRetry) ==
  \/ /\ FreshSeqs # {}
     /\ sending' = sending \cup
          {[seq |-> NextSeq, key |-> k, shouldRetry |-> shouldRetry, admitted |-> 0]}
     /\ UNCHANGED faults
  \/ /\ Fault
     /\ UNCHANGED sending

(* publisher.PublishStat that returned nil, for the Dispatcher's consumers *)
(* and for the history.                                                    *)
PublishStat(t, k) ==
  /\ published' = [published EXCEPT ![k] = @ \cup {t}]
  /\ \/ /\ t \in Consumed /\ StatsReach
        /\ stats[<<t, k>>] < MaxPending
        /\ stats' = [stats EXCEPT ![<<t, k>>] = @ + 1]
        /\ UNCHANGED faults
     \/ /\ t \in Consumed /\ StatsReach
        /\ Fault
        /\ UNCHANGED stats
     \/ /\ t \in Consumed => ~StatsReach
        /\ UNCHANGED <<stats, faults>>

(* A stat is ready (again), as far as the bound on waiting ones allows.    *)
Ready(t, k) == stats' = [stats EXCEPT ![<<t, k>>] = IF @ < MaxPending THEN @ + 1 ELSE @]

(* The bucket drops an entry once it is older than its TTL.                *)
GuardTick ==
  guard' = [s \in Seqs |-> IF guard[s] \in {Forgotten, TTL} THEN Forgotten ELSE guard[s] + 1]

StreamInit ==
  /\ sending = {}
  /\ outstanding = [w \in Workers |-> NoEnvelope]
  /\ guard = [s \in Seqs |-> Forgotten]
  /\ stats = [tk \in Consumed \X Keys |-> 0]
  /\ published = [k \in Keys |-> {}]
  /\ faults = MaxFaults

(* The streams, the bucket and the history hold values of their types.     *)
StreamTypeOK ==
  /\ sending \subseteq Envelope
  /\ outstanding \in [Workers -> Envelope \cup {NoEnvelope}]
  /\ guard \in [Seqs -> (0..TTL) \cup {Forgotten}]
  /\ stats \in [Consumed \X Keys -> 0..MaxPending]
  /\ published \in [Keys -> SUBSET Outcomes]
  /\ faults \in 0..MaxFaults

=============================================================================
