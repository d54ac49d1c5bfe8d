----------------------------- MODULE StatsWorker -----------------------------
(***************************************************************************)
(* The Stats worker (pkg/stats) and the stats API (pkg/statsapi).  Two      *)
(* durable consumers read the kannon-stats stream, each for itself: one     *)
(* files a row per event, the other counts the event in the bucket of its   *)
(* Domain, hour and type.  A cycle removes the rows past the retention; its *)
(* failure ends the whole worker.  The API reads the rows and the counters. *)
(*                                                                          *)
(* Time is counted in units of which an hour has HourLength.                *)
(***************************************************************************)
EXTENDS Authz, FiniteSets

CONSTANTS
  MaxMsgs,     \* bound: stored messages of the stream
  Kinds,       \* the events producers publish, but for their timestamp
  Replicas,    \* processes that run the worker
  HourLength, Retention,
  MaxDeliver,  \* consumerMaxDeliver
  MaxTime,     \* bound: where the clock stops
  MaxFaults,   \* bound: failures of the environment
  Spans,       \* bound: the [domain, from, to] that clients ask for
  Pages,       \* bound: their [skip, take]
  None

ASSUME StatsAssumption ==
  /\ HourLength \in Nat \ {0} /\ Retention \in Nat /\ MaxDeliver \in Nat \ {0}
  /\ MaxMsgs \in Nat /\ MaxTime \in Nat /\ MaxFaults \in Nat
  /\ \A page \in Pages : page.skip \in Nat /\ page.take \in Nat

VARIABLES
  event,     \* what a stored message says, or None
  wire,      \* where each consumer is with it
  tries,     \* how often it was handed out, by consumer
  handling,  \* what a consumer's handler holds in a replica: None or a message
  filed,     \* table stats
  counts,    \* table aggregated_stats
  now,       \* the clock
  query,     \* a request to the stats API
  faults     \* failures so far

workerVars == <<event, wire, tries, handling, filed, counts>>
statVars   == <<workerVars, now, query, faults>>

Msgs      == 1..MaxMsgs
Consumers == {"kannon-stats-logs", "kannon-aggregated-stats"}
Idle      == [pc |-> "idle"]
StatFault == faults < MaxFaults /\ faults' = faults + 1

-----------------------------------------------------------------------------
(* What each Outcome has to say for itself.  A field that is empty is the  *)
(* same as one that is absent, in the message and in the document.         *)
Accepted  == {}
Delivered == {}
Rejected  == {"reason"}
Failed    == {"reason"}
Bounced   == {"permanent", "code", "msg"}
Errored   == {"code", "msg"}
Opened    == {"userAgent", "ip"}
Clicked   == {"userAgent", "ip", "url"}

Says == [accepted |-> Accepted, delivered |-> Delivered, rejected |-> Rejected,
         failed |-> Failed, bounced |-> Bounced, error |-> Errored,
         opened |-> Opened, clicked |-> Clicked]

Outcome(variant, fields) == [variant |-> variant, fields |-> fields]
ZeroOutcome == Outcome("", {})
Type(o)     == IF o.variant = "" THEN "unknown" ELSE o.variant

(* FromOutcome, ToOutcome: a variant that this build does not know reads   *)
(* as the zero Outcome, which is sent as nothing.                          *)
FromOutcome(o) == IF o.variant \in DOMAIN Says THEN Outcome(o.variant, o.fields \cap Says[o.variant]) ELSE ZeroOutcome
ToOutcome(d)   == IF d.variant \in DOMAIN Says THEN Outcome(d.variant, d.fields \cap Says[d.variant]) ELSE ZeroOutcome

(* Mutant: a document that loses what separates a 4xx from a 5xx.          *)
ForgetsPermanent(o) == Outcome(FromOutcome(o).variant, FromOutcome(o).fields \ {"permanent"})

(* The document of the column data, and what is read back from it.         *)
StatsDataFromOutcome(o) == FromOutcome(o)
StatsDataOutcome(d)     == ToOutcome(d)

(* FromEvent and ToEvent; the subject's type is not read back.             *)
ToEvent(k, at) ==
  [parses |-> k.parses, domain |-> k.domain, who |-> k.who, id |-> k.id, mode |-> k.mode,
   outcome |-> ToOutcome(k.outcome), at |-> at]
Events == {ToEvent(k, at) : k \in Kinds, at \in 0..MaxTime}

ASSUME NoneAssumption == None \notin Events /\ None \notin Msgs

-----------------------------------------------------------------------------
(* UnmarshalEvent and eventDomain.                                         *)
Readable(e) == e.parses /\ e.domain # ""

NamesNobody(e) == e.who = ""

(* NewStat and the row of it.                                              *)
NewStat(e) ==
  [domain |-> e.domain, who |-> e.who, id |-> e.id, at |-> e.at,
   type |-> Type(e.outcome), data |-> StatsDataFromOutcome(e.outcome)]

(* The unique index over (email, message_id, domain, type, timestamp).     *)
SameStat(r, s) ==
  /\ r.domain = s.domain /\ r.who = s.who /\ r.id = s.id /\ r.at = s.at /\ r.type = s.type

(* ON CONFLICT DO NOTHING.                                                 *)
InsertStat(r) == filed' = IF \E s \in filed : SameStat(r, s) THEN filed ELSE filed \cup {r}

Hour(t)   == HourLength * (t \div HourLength)
Bucket(e) == [domain |-> e.domain, hour |-> Hour(e.at), type |-> Type(e.outcome)]
CountOf(b) == IF b \in DOMAIN counts THEN counts[b] ELSE 0

(* INSERT ... ON CONFLICT DO UPDATE SET count = count + 1.                 *)
IncrementAggregatedStat(b) ==
  counts' = [a \in DOMAIN counts \cup {b} |-> IF a = b THEN CountOf(b) + 1 ELSE counts[a]]

-----------------------------------------------------------------------------
(* The consumers.  Handing out a message and its handler up to the write   *)
(* are one step: whatever comes between the two can come before them.      *)
Unsettled(c, m) == wire[c][m] \in {"queued", "pending"}
Settled(c, m, how) == IF Unsettled(c, m) THEN [wire EXCEPT ![c][m] = how] ELSE wire

(* Mutant: a consumer without the cap.                                     *)
AgainForever(n) == IF n < MaxDeliver + 1 THEN "queued" ELSE "given up"

(* A message is ready again, until it has been handed out MaxDeliver times. *)
Again(n) == IF n < MaxDeliver THEN "queued" ELSE "given up"

HandedOut(c, r, m) ==
  /\ handling[c][r] = None /\ wire[c][m] = "queued"
  /\ tries' = [tries EXCEPT ![c][m] = @ + 1]
  /\ UNCHANGED <<event, now, query>>

(* The ack deadline passes, whoever may still be at work.                  *)
Redeliver(c, m) ==
  /\ wire[c][m] = "pending"
  /\ wire' = [wire EXCEPT ![c][m] = Again(tries[c][m])]
  /\ StatFault
  /\ UNCHANGED <<event, tries, handling, filed, counts, now, query>>

(* A handler that ends without having written: Term or Ack, or Nak, at     *)
(* once, where the database fails.                                         *)
Ends(c, m, how) == wire' = Settled(c, m, how) /\ UNCHANGED <<handling, filed, counts>>
Nak(c, m)       == StatFault /\ Ends(c, m, Again(tries[c][m] + 1))

(* The statement has been executed; its Ack is a step of its own.          *)
Written(c, r, m) ==
  /\ handling' = [handling EXCEPT ![c][r] = m]
  /\ wire' = [wire EXCEPT ![c][m] = "pending"]
  /\ UNCHANGED faults

Ack(c, r) ==
  /\ handling[c][r] # None
  /\ wire' = Settled(c, handling[c][r], "acked")
  /\ handling' = [handling EXCEPT ![c][r] = None]
  /\ UNCHANGED <<event, tries, filed, counts, now, query, faults>>

(* Mutants of the handlers: the failed write is acknowledged; an Anonymous *)
(* event is filed; an INSERT without its conflict clause, which raises for *)
(* a row that is there, so that the message is refused whenever it comes.  *)
AcksFailure(r, m) ==
  LET c == "kannon-aggregated-stats"
      e == event[m]
  IN /\ HandedOut(c, r, m)
     /\ \/ StatFault /\ Ends(c, m, "acked")
        \/ Readable(e) /\ IncrementAggregatedStat(Bucket(e)) /\ Written(c, r, m) /\ UNCHANGED filed

FilesNobody(r, m) ==
  LET c == "kannon-stats-logs"
      e == event[m]
  IN /\ HandedOut(c, r, m) /\ Readable(e)
     /\ InsertStat(NewStat(e)) /\ Written(c, r, m) /\ UNCHANGED counts

InsertRaises(r, m) ==
  LET c == "kannon-stats-logs"
      e == event[m]
      anonymous == e.mode = "anonymous"
      duplicate == \E s \in filed : SameStat(NewStat(e), s)
  IN /\ HandedOut(c, r, m)
     /\ \/ ~Readable(e) /\ Ends(c, m, "termed") /\ UNCHANGED faults
        \/ Readable(e) /\ anonymous /\ Ends(c, m, "acked") /\ UNCHANGED faults
        \/ Readable(e) /\ ~anonymous /\ NamesNobody(e) /\ Ends(c, m, "termed") /\ UNCHANGED faults
        \/ Readable(e) /\ ~anonymous /\ ~NamesNobody(e) /\ Nak(c, m)
        \/ /\ Readable(e) /\ ~anonymous /\ ~NamesNobody(e)
           /\ IF duplicate THEN Ends(c, m, Again(tries[c][m] + 1)) /\ UNCHANGED faults
              ELSE InsertStat(NewStat(e)) /\ Written(c, r, m) /\ UNCHANGED counts

HandleStatsMsg(r, m) ==
  LET c == "kannon-stats-logs"
      e == event[m]
      anonymous == e.mode = "anonymous"
  IN /\ HandedOut(c, r, m)
     /\ \/ ~Readable(e) /\ Ends(c, m, "termed") /\ UNCHANGED faults
        \/ Readable(e) /\ anonymous /\ Ends(c, m, "acked") /\ UNCHANGED faults
        \/ Readable(e) /\ ~anonymous /\ NamesNobody(e) /\ Ends(c, m, "termed") /\ UNCHANGED faults
        \/ Readable(e) /\ ~anonymous /\ ~NamesNobody(e) /\ Nak(c, m)
        \/ /\ Readable(e) /\ ~anonymous /\ ~NamesNobody(e)
           /\ InsertStat(NewStat(e)) /\ Written(c, r, m) /\ UNCHANGED counts

HandleAggregatedStatsMsg(r, m) ==
  LET c == "kannon-aggregated-stats"
      e == event[m]
  IN /\ HandedOut(c, r, m)
     /\ \/ ~Readable(e) /\ Ends(c, m, "termed") /\ UNCHANGED faults
        \/ Readable(e) /\ Nak(c, m)
        \/ Readable(e) /\ IncrementAggregatedStat(Bucket(e)) /\ Written(c, r, m) /\ UNCHANGED filed

-----------------------------------------------------------------------------
(* The worker of a replica ends, with the process, and the orchestrator    *)
(* starts it again: what its handlers held is left to the ack deadline.    *)
Stops(r) ==
  /\ StatFault
  /\ handling' = [c \in Consumers |-> [handling[c] EXCEPT ![r] = None]]
  /\ wire' = [c \in Consumers |-> [m \in Msgs |->
               IF handling[c][r] = m /\ wire[c][m] = "pending"
               THEN Again(tries[c][m]) ELSE wire[c][m]]]
  /\ UNCHANGED <<event, tries, counts, now>>

Crash(r) == Stops(r) /\ UNCHANGED <<filed, query>>

DeleteStatsOlderThan == {s \in filed : s.at < now - Retention}

(* cleanupCycle: the rows, and then the expired keys (see Tokens).  An     *)
(* error of the second ends the worker after the rows have gone.           *)
CleanupCycle(r) ==
  /\ DeleteStatsOlderThan # {}
  /\ filed' = filed \ DeleteStatsOlderThan
  /\ query' = IF query.pc = "count" THEN [query EXCEPT !.swept = TRUE] ELSE query
  /\ \/ Stops(r)
     \/ UNCHANGED <<event, wire, tries, handling, counts, now, faults>>

-----------------------------------------------------------------------------
(* The stats API, for a client that bears the token.  A range includes its *)
(* start and not its end.                                                  *)
AdminReader == NewPrincipal("admin-token", {Grant("admin", RootAnchor)})

Within(s, d, from, to) == s.domain = d /\ s.at >= from /\ s.at < to
Matching(d, from, to)  == {s \in filed : Within(s, d, from, to)}

(* The rows that ORDER BY timestamp DESC LIMIT n may return.               *)
Newest(rows, n) ==
  {S \in SUBSET rows : /\ Cardinality(S) = IF Cardinality(rows) < n THEN Cardinality(rows) ELSE n
                       /\ \A s \in S, t \in rows \ S : s.at >= t.at}

QueryStats(rows, skip, take) ==
  {page \in SUBSET rows :
     \E S \in Newest(rows, skip), T \in Newest(rows, skip + take) : S \subseteq T /\ page = T \ S}

(* statToPb: the type is the column's, the detail the document's.          *)
StatToPb(s) == [type |-> s.type, data |-> FromOutcome(StatsDataOutcome(s.data)),
                domain |-> s.domain, who |-> s.who, at |-> s.at]

(* GetStats: the page, and in a second statement the total.                *)
GetStats(d, from, to, page) ==
  /\ query = Idle /\ Decide(AdminReader, "list", Stats(d)) = "allowed"
  /\ \E got \in QueryStats(Matching(d, from, to), page.skip, page.take) :
       query' = [pc |-> "count", domain |-> d, from |-> from, to |-> to, skip |-> page.skip,
                 got |-> {StatToPb(s) : s \in got}, size |-> Cardinality(got), swept |-> FALSE]
  /\ UNCHANGED <<workerVars, now, faults>>

CountQueryStats(d, from, to) == Cardinality(Matching(d, from, to))

CountStats ==
  /\ query.pc = "count"
  /\ query' = Idle
  /\ UNCHANGED <<workerVars, now, faults>>

BucketOf(s) == [domain |-> s.domain, hour |-> Hour(s.at), type |-> s.type]

(* GetStatsAggregated (v1): the rows, grouped.                             *)
QueryStatsTimeline(d, from, to) ==
  LET rows == Matching(d, from, to)
  IN [b \in {BucketOf(s) : s \in rows} |-> Cardinality({s \in rows : BucketOf(s) = b})]

(* GetAggregatedStats (v2): the counters, by the start of their hour.      *)
QueryAggregatedStats(d, from, to) ==
  [b \in {b \in DOMAIN counts : b.domain = d /\ b.hour >= from /\ b.hour < to} |-> counts[b]]

(* What a client that bears the token is answered.  v2 refuses a range     *)
(* without an extent; v1 has nothing to say of one.                        *)
Allowed(a, resource) == Decide(AdminReader, a, resource) = "allowed"

GetStatsAggregated(d, from, to) ==
  IF Allowed("read", Stats(d)) THEN QueryStatsTimeline(d, from, to) ELSE <<>>

GetAggregatedStats(d, from, to) ==
  IF from < to /\ Allowed("read", AggregatedStats(d)) THEN QueryAggregatedStats(d, from, to) ELSE <<>>

-----------------------------------------------------------------------------
(* A producer publishes what happened now; the message is stored once.     *)
Publish(m, k) ==
  /\ event[m] = None /\ \A n \in 1..m - 1 : event[n] # None
  /\ event' = [event EXCEPT ![m] = ToEvent(k, now)]
  /\ wire' = [c \in Consumers |-> [wire[c] EXCEPT ![m] = "queued"]]
  /\ UNCHANGED <<tries, handling, filed, counts, now, query, faults>>

Tick ==
  /\ now < MaxTime
  /\ now' = now + 1
  /\ UNCHANGED <<workerVars, query, faults>>

StatsInit ==
  /\ event = [m \in Msgs |-> None]
  /\ wire = [c \in Consumers |-> [m \in Msgs |-> "none"]]
  /\ tries = [c \in Consumers |-> [m \in Msgs |-> 0]]
  /\ handling = [c \in Consumers |-> [r \in Replicas |-> None]]
  /\ filed = {}
  /\ counts = <<>>
  /\ now = 0
  /\ query = Idle
  /\ faults = 0

Handle(c, m) ==
  \E r \in Replicas : \/ c = "kannon-stats-logs" /\ HandleStatsMsg(r, m)
                      \/ c = "kannon-aggregated-stats" /\ HandleAggregatedStatsMsg(r, m)

StatsNext ==
  \/ \E m \in Msgs, k \in Kinds : Publish(m, k)
  \/ \E c \in Consumers, m \in Msgs : Handle(c, m) \/ Redeliver(c, m)
  \/ \E c \in Consumers, r \in Replicas : Ack(c, r)
  \/ \E r \in Replicas : Crash(r) \/ CleanupCycle(r)
  \/ \E span \in Spans, page \in Pages : GetStats(span.domain, span.from, span.to, page)
  \/ CountStats \/ Tick

(* A handler runs to its end, and a consumer hands out something as long   *)
(* as something is queued.                                                 *)
StatsSpec ==
  /\ StatsInit /\ [][StatsNext]_statVars
  /\ \A c \in Consumers, r \in Replicas : WF_statVars(Ack(c, r))
  /\ \A c \in Consumers : WF_statVars(\E m \in Msgs : Handle(c, m))

-----------------------------------------------------------------------------
InBucket(b) == {m \in Msgs : event[m] # None /\ Readable(event[m]) /\ Bucket(event[m]) = b}

(* The occasions on which a consumer was handed one of these messages.     *)
HandOuts(c, msgs) == {h \in msgs \X (1..MaxDeliver) : h[2] <= tries[c][h[1]]}

(* Every variable has its type.                                            *)
StatsTypeOK ==
  /\ \A c \in Consumers, m \in Msgs :
       /\ wire[c][m] \in {"none", "queued", "pending", "acked", "termed", "given up"}
       /\ tries[c][m] \in 0..MaxDeliver
       /\ wire[c][m] = "none" <=> event[m] = None
  /\ \A r, s \in filed : SameStat(r, s) => r = s

(* Between what the consumer has settled and what it was handed: a counter *)
(* has every event whose message was acknowledged, and counts an event     *)
(* twice only where its message was handed out twice.  v1 groups rows and  *)
(* v2 reads counters; v1 never shows more than v2 does once the consumer   *)
(* is done with a bucket.                                                  *)
CountsEveryEvent ==
  LET c == "kannon-aggregated-stats"
      Known == DOMAIN counts \cup {Bucket(event[m]) : m \in {m \in Msgs : event[m] # None /\ Readable(event[m])}}
  IN \A b \in Known :
       LET members == InBucket(b) IN
         /\ Cardinality({m \in members : wire[c][m] = "acked"}) <= CountOf(b)
         /\ CountOf(b) <= Cardinality(HandOuts(c, members))
         /\ LET v1 == GetStatsAggregated(b.domain, b.hour, b.hour + HourLength)
                v2 == GetAggregatedStats(b.domain, b.hour, b.hour + HourLength)
            IN (\A m \in members : wire[c][m] = "acked") /\ b \in DOMAIN v1
                 => b \in DOMAIN v2 /\ v1[b] <= v2[b]

(* An acknowledged event has its row until the retention passes, and only  *)
(* an event that names somebody, in a Mode that may, ever has one: the     *)
(* identity under Anonymous is never stored however often it is delivered. *)
AckedIsFiled ==
  /\ \A m \in Msgs :
       LET e == event[m] IN
       wire["kannon-stats-logs"][m] = "acked" =>
         \/ e.mode = "anonymous"
         \/ \E s \in filed : SameStat(s, NewStat(e))
         \/ e.at < now - Retention
  /\ \A s \in filed : \E m \in Msgs :
       LET e == event[m] IN
       e # None /\ SameStat(s, NewStat(e)) /\ e.mode # "anonymous" /\ ~NamesNobody(e)

(* What GetStats reports of a Domain is what producers said of it, after   *)
(* two encodings and a column, with no detail lost or made up; and the     *)
(* total, whenever it is read, covers the page unless the sweep has come   *)
(* between the two statements.                                             *)
ReportIsFaithful ==
  query.pc = "count" =>
    /\ \A s \in query.got :
         \E m \in Msgs : /\ event[m] # None /\ event[m].domain = query.domain
                         /\ event[m].at = s.at /\ event[m].who = s.who
                         /\ s.type = Type(event[m].outcome)
                         /\ s.data = event[m].outcome
    /\ query.size > 0 /\ ~query.swept =>
         query.skip + query.size <= CountQueryStats(query.domain, query.from, query.to)

(* Each consumer acknowledges or terminates each event some time.  One is   *)
(* given up only where the environment has failed at each of the MaxDeliver *)
(* deliveries: no event is lost for what it says, for having come before,   *)
(* or for the failures that a smaller number of deliveries can meet.        *)
EveryStatSettles ==
  \A c \in Consumers, m \in Msgs :
    wire[c][m] = "queued" ~> wire[c][m] \in {"acked", "termed"} \/ faults >= MaxDeliver

=============================================================================
