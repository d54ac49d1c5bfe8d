-------------------------------- MODULE Audit --------------------------------
(***************************************************************************)
(* The register of authorization decisions.  A Principal is issued, may be  *)
(* narrowed any number of times and is held against a Resource by Guard     *)
(* (internal/authz); the Recorder publishes the decision (internal/audit)   *)
(* to a stream that forgets, the writer (pkg/audit) turns what it is        *)
(* delivered into rows, any number of times each, and a sweep removes the   *)
(* rows that outlived the retention.                                        *)
(***************************************************************************)
EXTENDS Authz, FiniteSets

CONSTANTS
  Places,      \* where a Role may be issued: "root", a domain name or "*"
  Asked,       \* the Resources requests name and Principals are narrowed to
  Ids,         \* bound: identifiers of Audit Records
  Writers,     \* replicas of the audit worker
  StreamAge,   \* MaxAge of the stream
  Retention,   \* audit.retention
  MaxAge,      \* bound: where ages stop
  MaxFaults,   \* bound: failures of the environment
  None

Claims   == {NoClaim, "operator"}
Outcomes == {"allowed", "denied", "no-principal"}

(* What a message carries, and what a writer holds of one.                 *)
Records ==
  [principal : RoleNames \cup {""}, action : allActions, resource : Asked, outcome : Outcomes,
   attribution : Claims, of : [role : RoleNames \cup {""}, place : Places \cup {""}],
   narrowed : BOOLEAN]
Held == [msg : Ids, step : {"read", "ack"}]

ASSUME AuditAssumption ==
  /\ Places \subseteq STRING
  /\ \A r \in Asked : r \in Seq(STRING)
  /\ StreamAge \in Nat /\ Retention \in Nat /\ MaxAge \in Nat /\ MaxFaults \in Nat
  /\ None \notin Records \cup Held

VARIABLES
  issued,    \* the Role and the place the current Principal was issued for
  who,       \* the Principal as it is now
  recorder,  \* what Guard reports to: "log" or "publishing"
  decided,   \* the decision that bears an identifier, or None
  wire,      \* where its message is
  rows,      \* table audit_records: "none", "row" or "swept"
  age,       \* how old the decision is
  handling,  \* what a writer holds: None or the message and the step
  faults     \* failures so far

sessionVars == <<issued, who>>
auditVars   == <<sessionVars, recorder, decided, wire, rows, age, handling, faults>>

Nobody == [role |-> "", place |-> ""]

AnchorAt(place) ==
  CASE place = "root" -> RootAnchor
    [] place = "*"    -> AllDomainsAnchor
    [] OTHER          -> DomainAnchor(place)

(* A failure of the environment.                                           *)
Fault == faults < MaxFaults /\ faults' = faults + 1

-----------------------------------------------------------------------------
(* NewGrant and NewPrincipal for a credential, with the claim its request  *)
(* makes, if any (attributed).                                             *)
Issue(role, place, claim) ==
  /\ issued = Nobody /\ \E i \in Ids : decided[i] = None
  /\ MayGrant(role, AnchorAt(place))
  /\ issued' = [role |-> role, place |-> place]
  /\ who' = WithAttribution(NewPrincipal(role, {Grant(role, AnchorAt(place))}), claim)
  /\ UNCHANGED <<recorder, decided, wire, rows, age, handling, faults>>

Narrow(asked) ==
  /\ issued # Nobody
  /\ who' = Attenuate(who, asked)
  /\ who' # who
  /\ UNCHANGED <<issued, recorder, decided, wire, rows, age, handling, faults>>

(* NewRecord.                                                              *)
Record(a, r, outcome) ==
  [principal |-> who.id, action |-> a, resource |-> r, outcome |-> outcome,
   attribution |-> who.attribution, of |-> issued,
   narrowed |-> who.grants # {Grant(issued.role, AnchorAt(issued.place))}]

(* recorder.Record: the log has every decision.  A publish that fails, or  *)
(* that reaches no stream, is lost; there is no acknowledgement.           *)
Publish(i) ==
  \/ recorder = "publishing" /\ wire' = [wire EXCEPT ![i] = "queued"] /\ UNCHANGED faults
  \/ recorder = "publishing" /\ wire' = [wire EXCEPT ![i] = "lost"] /\ Fault
  \/ recorder = "log" /\ UNCHANGED <<wire, faults>>

(* Guard, for a request the edge let through with or without a Principal.  *)
Guard(i, a, r) ==
  /\ decided[i] = None
  /\ LET p == IF issued = Nobody THEN NoPrincipal ELSE who
     IN decided' = [decided EXCEPT ![i] = Record(a, r, Decide(p, a, r))]
  /\ Publish(i)
  /\ issued' = Nobody /\ who' = NoPrincipal
  /\ UNCHANGED <<recorder, rows, age, handling>>

(* startAuditRecording when the API boots: without the configuration or    *)
(* without NATS decisions stay in the log.                                 *)
StartAuditRecording(r) ==
  /\ r # recorder
  /\ recorder' = r
  /\ issued = Nobody
  /\ UNCHANGED <<sessionVars, decided, wire, rows, age, handling, faults>>

-----------------------------------------------------------------------------
(* Record.validate, at the consumer.                                       *)
Valid(d) ==
  /\ d.action \in allActions
  /\ d.outcome \in Outcomes
  /\ ResourceIsWellFormed(d.resource)
  /\ (d.principal = "") <=> (d.outcome = "no-principal")

(* The durable consumer hands a message to one of the writers.             *)
Deliver(w, i) ==
  /\ handling[w] = None /\ wire[i] = "queued"
  /\ handling' = [handling EXCEPT ![w] = [msg |-> i, step |-> "read"]]
  /\ wire' = [wire EXCEPT ![i] = "pending"]
  /\ UNCHANGED <<sessionVars, recorder, decided, rows, age, faults>>

(* Its ack deadline passes: the message is delivered again, although the   *)
(* writer may still hold it.                                               *)
Redeliver(i) ==
  /\ wire[i] = "pending"
  /\ wire' = [wire EXCEPT ![i] = "queued"]
  /\ Fault
  /\ UNCHANGED <<sessionVars, recorder, decided, rows, age, handling>>

Settled(i, how) == wire' = IF wire[i] \in {"queued", "pending"} THEN [wire EXCEPT ![i] = how] ELSE wire
Holds(w, step)  == handling[w] # None /\ handling[w].step = step
LetGo(w)        == handling' = [handling EXCEPT ![w] = None]

(* INSERT ... ON CONFLICT (id) DO NOTHING.                                 *)
InsertAuditRecord(i) == rows' = IF rows[i] = "row" THEN rows ELSE [rows EXCEPT ![i] = "row"]

(* Mutant: the settlement of a failed INSERT is the one of a finished one. *)
InsertFailsAcked(w) ==
  /\ Fault
  /\ Settled(handling[w].msg, "acked") /\ LetGo(w)
  /\ UNCHANGED rows

(* Mutant: a record that a failed INSERT left behind is abandoned.         *)
AbandonsAll(w) == Settled(handling[w].msg, "termed") /\ LetGo(w) /\ UNCHANGED <<rows, faults>>

(* A database error: Nak.                                                  *)
InsertFails(w) ==
  /\ Fault
  /\ Settled(handling[w].msg, "queued") /\ LetGo(w)
  /\ UNCHANGED rows

InsertSucceeds(w) ==
  /\ InsertAuditRecord(handling[w].msg)
  /\ handling' = [handling EXCEPT ![w].step = "ack"]
  /\ UNCHANGED <<wire, faults>>

(* handleRecordMsg: Unmarshal, then the INSERT.                            *)
HandleRecordMsg(w) ==
  /\ Holds(w, "read")
  /\ LET i == handling[w].msg IN
       \/ /\ ~Valid(decided[i])
          /\ Settled(i, "termed") /\ LetGo(w)
          /\ UNCHANGED <<rows, faults>>
       \/ Valid(decided[i]) /\ InsertFails(w)
       \/ Valid(decided[i]) /\ InsertSucceeds(w)
  /\ UNCHANGED <<sessionVars, recorder, decided, age>>

AckRecord(w) ==
  /\ Holds(w, "ack")
  /\ Settled(handling[w].msg, "acked") /\ LetGo(w)
  /\ UNCHANGED <<sessionVars, recorder, decided, rows, age, faults>>

(* A worker is restarted; what it held is delivered again.                 *)
CrashWriter(w) ==
  /\ handling[w] # None
  /\ LetGo(w)
  /\ Settled(handling[w].msg, "queued")
  /\ Fault
  /\ UNCHANGED <<sessionVars, recorder, decided, rows, age>>

-----------------------------------------------------------------------------
GrowOlder(i) ==
  /\ decided[i] # None /\ age[i] < MaxAge
  /\ age' = [age EXCEPT ![i] = @ + 1]
  /\ UNCHANGED <<sessionVars, recorder, decided, wire, rows, handling, faults>>

(* The stream drops what is older than its MaxAge.                         *)
Expire(i) ==
  /\ age[i] > StreamAge /\ wire[i] \in {"queued", "pending", "acked", "termed"}
  /\ wire' = [wire EXCEPT ![i] = "expired"]
  /\ UNCHANGED <<sessionVars, recorder, decided, rows, age, handling, faults>>

(* Mutant: the sweep takes what is younger than the retention.             *)
SweepsTheYoung == {i \in Ids : rows[i] = "row" /\ age[i] < Retention}

DeleteOlderThan == {i \in Ids : rows[i] = "row" /\ age[i] > Retention}

(* cleanupCycle; an error leaves the rows to the next sweep.               *)
CleanupCycle ==
  /\ DeleteOlderThan # {}
  /\ rows' = [i \in Ids |-> IF i \in DeleteOlderThan THEN "swept" ELSE rows[i]]
  /\ UNCHANGED <<sessionVars, recorder, decided, wire, age, handling, faults>>

-----------------------------------------------------------------------------
AuditInit ==
  /\ issued = Nobody /\ who = NoPrincipal
  /\ recorder = "publishing"
  /\ decided = [i \in Ids |-> None]
  /\ wire = [i \in Ids |-> "none"]
  /\ rows = [i \in Ids |-> "none"]
  /\ age = [i \in Ids |-> 0]
  /\ handling = [w \in Writers |-> None]
  /\ faults = 0

Handle(w) == HandleRecordMsg(w) \/ AckRecord(w)

AuditNext ==
  \/ \E role \in RoleNames, place \in Places, claim \in Claims : Issue(role, place, claim)
  \/ \E asked \in SUBSET Asked : Cardinality(asked) \in 1..2 /\ Narrow(asked)
  \/ \E i \in Ids, a \in allActions, r \in Asked : Guard(i, a, r)
  \/ \E r \in {"log", "publishing"} : StartAuditRecording(r)
  \/ \E w \in Writers, i \in Ids : Deliver(w, i)
  \/ \E w \in Writers : Handle(w) \/ CrashWriter(w)
  \/ \E i \in Ids : Redeliver(i) \/ GrowOlder(i) \/ Expire(i)
  \/ CleanupCycle

(* The consumer delivers what is queued, a handler runs to its end, the    *)
(* sweep runs every hour.                                                  *)
AuditSpec ==
  /\ AuditInit /\ [][AuditNext]_auditVars
  /\ \A w \in Writers : WF_auditVars(Handle(w))
  /\ \A i \in Ids : WF_auditVars(\E w \in Writers : Deliver(w, i))
  /\ WF_auditVars(CleanupCycle)

-----------------------------------------------------------------------------
(* What the Roles mean, said without patterns or Anchors: admin may do     *)
(* everything at its place and beneath it, sender may create what is in    *)
(* the Batches of its Domains.                                             *)
Within(place, r) ==
  place = "root" \/ (Len(r) >= 2 /\ r[1] = "domains" /\ place \in {r[2], "*"})

May(of, a, r) ==
  /\ ResourceIsWellFormed(r)
  /\ Within(of.place, r)
  /\ \/ of.role = "admin"
     \/ of.role = "sender" /\ a = "create" /\ Len(r) >= 3 /\ r[3] = "batches"

(* Every variable has its type.                                            *)
AuditTypeOK ==
  /\ \A i \in Ids : wire[i] \in {"none", "queued", "pending", "acked", "termed", "lost", "expired"}
  /\ rows \in [Ids -> {"none", "row", "swept"}]
  /\ age \in [Ids -> 0..MaxAge]
  /\ \A w \in Writers : handling[w] # None => decided[handling[w].msg] # None
  /\ \A i \in Ids : rows[i] = "swept" => age[i] > Retention

(* Nothing that was allowed lies outside of what the credential was issued *)
(* for, however often its Principal was narrowed since and whomever the    *)
(* request claims to act for; and a Principal that was not narrowed is     *)
(* refused nothing it was issued for.  A claim needs "attribute" as well.  *)
AllowedIsTrue ==
  \A i \in Ids : decided[i] # None =>
    LET d  == decided[i]
        ok == /\ May(d.of, d.action, d.resource)
              /\ d.attribution # NoClaim => May(d.of, "attribute", d.resource)
    IN /\ d.outcome = "allowed" => ok
       /\ ok /\ ~d.narrowed => d.outcome = "allowed"

(* The writer lets go of a message only with its row stored, unless the    *)
(* message could not be read: an Ack after a failed INSERT, or before it,  *)
(* would lose the decision to a crash.                                     *)
AckedIsStored ==
  \A i \in Ids : /\ wire[i] = "acked" => rows[i] # "none"
                 /\ rows[i] # "none" => Valid(decided[i])

(* A decision that is on the stream and that can be read becomes a row,    *)
(* or stays unread until the stream drops it.                              *)
RecordReachesTable ==
  \A i \in Ids : (wire[i] = "queued" /\ Valid(decided[i])) ~> (rows[i] # "none" \/ wire[i] = "expired")

(* No row outlives the retention for good, although a late delivery may    *)
(* store again what the sweep had removed.                                 *)
RetentionIsKept ==
  \A i \in Ids : (rows[i] = "row" /\ age[i] > Retention) ~> (rows[i] = "swept")

=============================================================================
