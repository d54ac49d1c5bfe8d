-------------------------- MODULE StatsWorkerProofs ---------------------------
(***************************************************************************)
(* The Stats worker, for any events, replicas and failures: an event that   *)
(* its consumer acknowledged has its row until the retention passes, no row *)
(* tells what its event may not, what GetStats reports is what the          *)
(* producers said, and a counter holds every event that was acknowledged.   *)
(***************************************************************************)
EXTENDS StatsWorker, FiniteSetTheorems, SequenceTheorems, TLAPS

Logs   == "kannon-stats-logs"
Counts == "kannon-aggregated-stats"
Wires  == {"none", "queued", "pending", "acked", "termed", "given up"}

Anonymous(e) == e.mode = "anonymous"

-----------------------------------------------------------------------------
(* Functions of consumers and messages.                                    *)
LEMMA AtOne ==
  ASSUME NEW C, NEW M, NEW W, NEW f \in [C -> [M -> W]], NEW c \in C, NEW m \in M, NEW x \in W,
         NEW g, g = [f EXCEPT ![c][m] = x]
  PROVE  /\ g \in [C -> [M -> W]] /\ g[c][m] = x
         /\ \A d \in C, n \in M : d # c \/ n # m => g[d][n] = f[d][n]
<1>1. g = [f EXCEPT ![c] = [f[c] EXCEPT ![m] = x]]
  OBVIOUS
<1>2. [f[c] EXCEPT ![m] = x] \in [M -> W]
  OBVIOUS
<1> QED  BY <1>1, <1>2

-----------------------------------------------------------------------------
(* Outcomes: what was read from a message is written and read back as it   *)
(* is.                                                                     *)
LEMMA OutcomeFields ==
  ASSUME NEW v, NEW f
  PROVE  Outcome(v, f).variant = v /\ Outcome(v, f).fields = f
BY DEF Outcome

LEMMA RoundTrip ==
  ASSUME NEW o
  PROVE  /\ FromOutcome(ToOutcome(o)) = ToOutcome(o)
         /\ ToOutcome(ToOutcome(o)) = ToOutcome(o)
<1>1. PICK D : D = DOMAIN Says
  OBVIOUS
<1>2. CASE o.variant \in D
  <2>1. PICK v, F : v = o.variant /\ F = o.fields \cap Says[o.variant]
    OBVIOUS
  <2>2. ToOutcome(o) = Outcome(v, F) /\ v \in D
    BY <1>1, <1>2, <2>1, Zenon DEF ToOutcome
  <2>3. F \cap Says[v] = F
    BY <2>1
  <2>4. PICK t : t = Outcome(v, F)
    OBVIOUS
  <2>5. t.variant = v /\ t.fields = F
    BY <2>4, OutcomeFields
  <2>6. FromOutcome(t) = t /\ ToOutcome(t) = t
    BY <1>1, <2>2, <2>3, <2>4, <2>5, Zenon DEF FromOutcome, ToOutcome
  <2> QED  BY <2>2, <2>4, <2>6, Zenon
<1>3. CASE o.variant \notin D
  <2>1. ToOutcome(o) = ZeroOutcome
    BY <1>1, <1>3, Zenon DEF ToOutcome
  <2>2. ZeroOutcome.variant = "" /\ "" \notin DOMAIN Says
    BY DEF ZeroOutcome, Outcome, Says
  <2>3. FromOutcome(ZeroOutcome) = ZeroOutcome /\ ToOutcome(ZeroOutcome) = ZeroOutcome
    BY <2>2, Zenon DEF FromOutcome, ToOutcome
  <2> QED  BY <2>1, <2>3, Zenon
<1> QED  BY <1>2, <1>3

(* The fields of an event, of its row and of what is reported of it.       *)
LEMMA EventFields ==
  ASSUME NEW e \in Events
  PROVE  e.at \in 0..MaxTime /\ \E o : e.outcome = ToOutcome(o)
<1>1. PICK k \in Kinds, t \in 0..MaxTime : e = ToEvent(k, t)
  BY DEF Events
<1>2. e.at = t /\ e.outcome = ToOutcome(k.outcome)
  BY <1>1 DEF ToEvent
<1> QED  BY <1>2

LEMMA StatFields ==
  ASSUME NEW e, NEW s, s = NewStat(e)
  PROVE  /\ s.domain = e.domain /\ s.who = e.who /\ s.id = e.id /\ s.at = e.at
         /\ s.type = Type(e.outcome) /\ s.data = StatsDataFromOutcome(e.outcome)
BY DEF NewStat

LEMMA ReportFields ==
  ASSUME NEW s, NEW p, p = StatToPb(s)
  PROVE  /\ p.type = s.type /\ p.data = FromOutcome(StatsDataOutcome(s.data))
         /\ p.domain = s.domain /\ p.who = s.who /\ p.at = s.at
BY DEF StatToPb

LEMMA ReportOfEvent ==
  ASSUME NEW e \in Events, NEW p, p = StatToPb(NewStat(e))
  PROVE  /\ p.domain = e.domain /\ p.at = e.at /\ p.who = e.who
         /\ p.type = Type(e.outcome) /\ p.data = e.outcome
<1>1. PICK s : s = NewStat(e)
  OBVIOUS
<1>2. /\ s.domain = e.domain /\ s.who = e.who /\ s.at = e.at
      /\ s.type = Type(e.outcome) /\ s.data = StatsDataFromOutcome(e.outcome)
  BY <1>1, StatFields
<1>3. /\ p.type = s.type /\ p.data = FromOutcome(StatsDataOutcome(s.data))
      /\ p.domain = s.domain /\ p.who = s.who /\ p.at = s.at
  BY <1>1, ReportFields
<1>4. PICK o : e.outcome = ToOutcome(o)
  BY EventFields
<1>5. FromOutcome(StatsDataOutcome(StatsDataFromOutcome(e.outcome))) = e.outcome
  BY <1>4, RoundTrip, Zenon DEF StatsDataOutcome, StatsDataFromOutcome
<1> QED  BY <1>2, <1>3, <1>5, Zenon

-----------------------------------------------------------------------------
(* A page that has something in it lies within the rows there are.         *)
LEMMA PageFits ==
  ASSUME NEW R, IsFiniteSet(R), NEW skip \in Nat, NEW take \in Nat, NEW got \in QueryStats(R, skip, take)
  PROVE  /\ got \subseteq R /\ Cardinality(got) \in Nat
         /\ Cardinality(got) > 0 => skip + Cardinality(got) <= Cardinality(R)
<1>1. PICK S \in Newest(R, skip), T \in Newest(R, skip + take) : got = T \ S
  BY DEF QueryStats
<1>2. S \subseteq R /\ got \subseteq R /\ got \cap S = {}
  BY <1>1 DEF Newest, QueryStats
<1>3. IsFiniteSet(S) /\ IsFiniteSet(got)
  BY <1>2, FS_Subset
<1>4. Cardinality(S) \in Nat /\ Cardinality(got) \in Nat /\ Cardinality(R) \in Nat
  BY <1>3, FS_CardinalityType
<1>5. ~(Cardinality(got) + Cardinality(S) > Cardinality(R))
  BY <1>2, FS_MajoritiesIntersect
<1>6. Cardinality(S) = IF Cardinality(R) < skip THEN Cardinality(R) ELSE skip
  BY <1>1 DEF Newest
<1> QED  BY <1>2, <1>4, <1>5, <1>6

-----------------------------------------------------------------------------
(* The invariant.  What a consumer was handed, the rows, and the report    *)
(* that is being put together.                                             *)
StatsType ==
  /\ event \in [Msgs -> Events \cup {None}]
  /\ wire \in [Consumers -> [Msgs -> Wires]]
  /\ tries \in [Consumers -> [Msgs -> 0..MaxDeliver]]
  /\ handling \in [Consumers -> [Replicas -> Msgs \cup {None}]]
  /\ now \in 0..MaxTime
  /\ IsFiniteSet(filed)

Spent(c, m) ==
  /\ wire[c][m] = "none" <=> event[m] = None
  /\ wire[c][m] = "none" => tries[c][m] = 0
  /\ wire[c][m] = "queued" => tries[c][m] < MaxDeliver

Recorded(m) ==
  /\ event[m] # None
  /\ \/ Anonymous(event[m])
     \/ \E s \in filed : SameStat(s, NewStat(event[m]))
     \/ event[m].at < now - Retention

Sourced(s) ==
  \E m \in Msgs : /\ event[m] # None /\ s = NewStat(event[m])
                  /\ Readable(event[m]) /\ ~Anonymous(event[m]) /\ ~NamesNobody(event[m])

FiledInv ==
  /\ \A m \in Msgs : wire[Logs][m] = "acked" => Recorded(m)
  /\ \A r \in Replicas, m \in Msgs : handling[Logs][r] = m => Recorded(m)
  /\ \A s \in filed : Sourced(s)
  /\ \A s, t \in filed : SameStat(s, t) => s = t

Answer(d, from, to, skip, got, size, swept) ==
  [pc |-> "count", domain |-> d, from |-> from, to |-> to, skip |-> skip,
   got |-> got, size |-> size, swept |-> swept]

Reported(s, d) ==
  \E m \in Msgs : /\ event[m] # None /\ event[m].domain = d
                  /\ event[m].at = s.at /\ event[m].who = s.who
                  /\ s.type = Type(event[m].outcome) /\ s.data = event[m].outcome

QueryInv ==
  \/ query = Idle
  \/ /\ query = Answer(query.domain, query.from, query.to, query.skip, query.got, query.size, query.swept)
     /\ query.skip \in Nat /\ query.size \in Nat /\ query.swept \in BOOLEAN
     /\ \A s \in query.got : Reported(s, query.domain)
     /\ query.size > 0 /\ ~query.swept =>
          query.skip + query.size <= Cardinality(Matching(query.domain, query.from, query.to))

StatsInv ==
  /\ StatsType /\ \A c \in Consumers, m \in Msgs : Spent(c, m)
  /\ FiledInv /\ QueryInv

-----------------------------------------------------------------------------
(* What steps keep.  An event never changes.                               *)
Grows == \A m \in Msgs : event[m] # None => event'[m] = event[m]

LEMMA RecordedKept ==
  ASSUME StatsType, StatsType', Grows, now' >= now,
         \A s \in filed : s \in filed' \/ s.at < now - Retention,
         NEW m \in Msgs, Recorded(m)
  PROVE  Recorded(m)'
<1> USE StatsAssumption DEF StatsAssumption
<1>1. PICK e : e = event[m]
  OBVIOUS
<1>2. e # None /\ event'[m] = e
  BY <1>1 DEF Recorded, Grows
<1>3. e \in Events
  BY <1>1, <1>2 DEF StatsType
<1>4. e.at \in 0..MaxTime /\ now \in Nat /\ now' \in Nat
  BY <1>3, EventFields DEF StatsType
<1>5. e.at < now - Retention => e.at < now' - Retention
  BY <1>4
<1>6. CASE Anonymous(e)
  BY <1>2, <1>6 DEF Recorded
<1>7. CASE e.at < now - Retention
  BY <1>2, <1>5, <1>7 DEF Recorded
<1>8. ASSUME NEW s \in filed, SameStat(s, NewStat(e))
      PROVE  Recorded(m)'
  <2>1. s.at = e.at
    BY <1>8, StatFields DEF SameStat
  <2>2. CASE s \in filed'
    BY <1>2, <1>8, <2>2 DEF Recorded
  <2>3. CASE s.at < now - Retention
    BY <1>7, <2>1, <2>3
  <2> QED  BY <2>2, <2>3
<1> QED  BY <1>1, <1>6, <1>7, <1>8 DEF Recorded

LEMMA SourcedKept ==
  ASSUME Grows, NEW s, Sourced(s)
  PROVE  Sourced(s)'
<1>1. PICK m \in Msgs : /\ event[m] # None /\ s = NewStat(event[m])
                        /\ Readable(event[m]) /\ ~Anonymous(event[m]) /\ ~NamesNobody(event[m])
  BY Zenon DEF Sourced
<1>2. event'[m] = event[m]
  BY <1>1 DEF Grows
<1> QED  BY <1>1, <1>2, Zenon DEF Sourced

LEMMA ReportedKept ==
  ASSUME Grows, NEW s, NEW d, Reported(s, d)
  PROVE  Reported(s, d)'
<1>1. PICK m \in Msgs : /\ event[m] # None /\ event[m].domain = d
                        /\ event[m].at = s.at /\ event[m].who = s.who
                        /\ s.type = Type(event[m].outcome) /\ s.data = event[m].outcome
  BY Zenon DEF Reported
<1>2. event'[m] = event[m]
  BY <1>1 DEF Grows
<1> QED  BY <1>1, <1>2, Zenon DEF Reported

LEMMA MatchingGrows ==
  ASSUME IsFiniteSet(filed'), filed \subseteq filed', NEW d, NEW from, NEW to
  PROVE  /\ Cardinality(Matching(d, from, to)) \in Nat
         /\ Cardinality(Matching(d, from, to))' \in Nat
         /\ Cardinality(Matching(d, from, to)) <= Cardinality(Matching(d, from, to))'
<1>1. PICK A, B : A = Matching(d, from, to) /\ B = Matching(d, from, to)'
  OBVIOUS
<1>2. A \subseteq B /\ B \subseteq filed'
  BY <1>1 DEF Matching
<1>3. IsFiniteSet(B)
  BY <1>2, FS_Subset
<1>4. IsFiniteSet(A) /\ Cardinality(A) <= Cardinality(B)
  BY <1>2, <1>3, FS_Subset
<1>5. Cardinality(A) \in Nat /\ Cardinality(B) \in Nat
  BY <1>3, <1>4, FS_CardinalityType
<1> QED  BY <1>1, <1>4, <1>5

LEMMA QueryKept ==
  ASSUME QueryInv, Grows, IsFiniteSet(filed'), filed \subseteq filed', UNCHANGED query
  PROVE  QueryInv'
<1>1. CASE query = Idle
  BY <1>1, Zenon DEF QueryInv
<1>2. CASE query # Idle
  <2>1. PICK q : q = query
    OBVIOUS
  <2>2. /\ q = Answer(q.domain, q.from, q.to, q.skip, q.got, q.size, q.swept)
        /\ q.skip \in Nat /\ q.size \in Nat /\ q.swept \in BOOLEAN
        /\ \A s \in q.got : Reported(s, q.domain)
        /\ q.size > 0 /\ ~q.swept => q.skip + q.size <= Cardinality(Matching(q.domain, q.from, q.to))
    BY <1>2, <2>1, Zenon DEF QueryInv
  <2>3. PICK d, from, to, n, k : d = q.domain /\ from = q.from /\ to = q.to /\ n = q.skip + q.size
                                 /\ k = Cardinality(Matching(d, from, to))
    OBVIOUS
  <2>4. PICK j : j = Cardinality(Matching(d, from, to))'
    OBVIOUS
  <2>5. k \in Nat /\ j \in Nat /\ k <= j
    BY <2>3, <2>4, MatchingGrows
  <2>6. n \in Nat
    BY <2>2, <2>3
  <2>7. n <= k => n <= j
    BY <2>5, <2>6
  <2>8. q.size > 0 /\ ~q.swept => q.skip + q.size <= j
    BY <2>2, <2>3, <2>7, Zenon
  <2>9. \A s \in q.got : Reported(s, q.domain)'
    BY <2>2, ReportedKept
  <2>10. query' = q
    BY <2>1
  <2> QED  BY <2>2, <2>3, <2>4, <2>8, <2>9, <2>10, Zenon DEF QueryInv
<1> QED  BY <1>1, <1>2

(* Rows that stay and rows that come.                                      *)
LEMMA FiledKept ==
  ASSUME StatsInv, StatsType', Grows, now' >= now,
         \A s \in filed : s \in filed' \/ s.at < now - Retention,
         \A s \in filed' : s \in filed \/ Sourced(s),
         \A s, t \in filed' : SameStat(s, t) => s = t,
         \A m \in Msgs : wire'[Logs][m] = "acked" => wire[Logs][m] = "acked" \/ Recorded(m),
         \A r \in Replicas, m \in Msgs : handling'[Logs][r] = m => handling[Logs][r] = m \/ Recorded(m)'
  PROVE  FiledInv'
<1>1. \A m \in Msgs : Recorded(m) => Recorded(m)'
  BY RecordedKept DEF StatsInv
<1>2. \A m \in Msgs : wire'[Logs][m] = "acked" => Recorded(m)'
  BY <1>1 DEF StatsInv, FiledInv
<1>3. \A s \in filed' : Sourced(s)'
  BY SourcedKept DEF StatsInv, FiledInv
<1>4. \A r \in Replicas, m \in Msgs : handling'[Logs][r] = m => Recorded(m)'
  BY <1>1 DEF StatsInv, FiledInv
<1> QED  BY <1>2, <1>3, <1>4 DEF FiledInv

-----------------------------------------------------------------------------
(* The steps of the worker.                                                *)
LEMMA TwoConsumers == Consumers = {Logs, Counts} /\ Logs # Counts
BY DEF Consumers, Logs, Counts

AckedWell    == \A m \in Msgs : wire'[Logs][m] = "acked" => wire[Logs][m] = "acked" \/ Recorded(m)
HandlingWell == \A r \in Replicas, m \in Msgs :
                  handling'[Logs][r] = m => handling[Logs][r] = m \/ Recorded(m)'
SpentAll     == \A c \in Consumers, m \in Msgs : Spent(c, m)

(* A step that leaves the rows alone.                                      *)
LEMMA QuietStep ==
  ASSUME StatsInv, StatsType', SpentAll', AckedWell, HandlingWell, Grows, now' >= now,
         UNCHANGED <<filed, query>>
  PROVE  StatsInv'
<1>1. FiledInv'
  BY FiledKept DEF StatsInv, FiledInv, AckedWell, HandlingWell
<1>2. QueryInv'
  BY QueryKept DEF StatsInv, StatsType
<1> QED  BY <1>1, <1>2 DEF StatsInv, SpentAll

LEMMA SettledWire ==
  ASSUME StatsType, NEW c \in Consumers, NEW m \in Msgs, NEW how \in Wires, wire' = Settled(c, m, how)
  PROVE  /\ wire' \in [Consumers -> [Msgs -> Wires]]
         /\ \A d \in Consumers, n \in Msgs :
              \/ wire'[d][n] = wire[d][n]
              \/ /\ d = c /\ n = m /\ wire'[d][n] = how
                 /\ wire[d][n] # "none"
<1>1. wire \in [Consumers -> [Msgs -> Wires]]
  BY DEF StatsType
<1>2. CASE ~Unsettled(c, m)
  BY <1>1, <1>2 DEF Settled
<1>3. CASE Unsettled(c, m)
  <2>1. wire' = [wire EXCEPT ![c][m] = how]
    BY <1>3 DEF Settled
  <2>2. wire[c][m] # "none"
    BY <1>3 DEF Unsettled
  <2>3. /\ wire' \in [Consumers -> [Msgs -> Wires]] /\ wire'[c][m] = how
        /\ \A d \in Consumers, n \in Msgs : d # c \/ n # m => wire'[d][n] = wire[d][n]
    BY <1>1, <2>1, AtOne
  <2> QED  BY <2>2, <2>3
<1> QED  BY <1>2, <1>3

(* The tally of deliveries at its cap.                                     *)
LEMMA AgainSpares ==
  ASSUME NEW n \in 0..MaxDeliver
  PROVE  Again(n) \in Wires /\ Again(n) # "none" /\ Again(n) # "acked" /\ (Again(n) = "queued" => n < MaxDeliver)
BY StatsAssumption DEF StatsAssumption, Again, Wires

LEMMA HandedOutTries ==
  ASSUME StatsInv, NEW c \in Consumers, NEW r \in Replicas, NEW m \in Msgs, HandedOut(c, r, m)
  PROVE  /\ tries[c][m] + 1 \in 0..MaxDeliver
         /\ tries' \in [Consumers -> [Msgs -> 0..MaxDeliver]] /\ tries'[c][m] = tries[c][m] + 1
         /\ \A d \in Consumers, n \in Msgs : d # c \/ n # m => tries'[d][n] = tries[d][n]
         /\ wire[c][m] = "queued" /\ event[m] # None
         /\ UNCHANGED <<event, now, query>>
<1> USE StatsAssumption DEF StatsAssumption
<1>1. wire[c][m] = "queued" /\ UNCHANGED <<event, now, query>>
  BY DEF HandedOut
<1>2. tries[c][m] < MaxDeliver /\ event[m] # None
  BY <1>1 DEF StatsInv, Spent
<1>3. tries \in [Consumers -> [Msgs -> 0..MaxDeliver]]
  BY DEF StatsInv, StatsType
<1>4. tries[c][m] \in 0..MaxDeliver
  BY <1>3
<1>5. PICK n : n = tries[c][m] + 1
  OBVIOUS
<1>6. n \in 0..MaxDeliver
  BY <1>2, <1>4, <1>5
<1>7. tries' = [tries EXCEPT ![c][m] = n]
  BY <1>5 DEF HandedOut
<1>8. /\ tries' \in [Consumers -> [Msgs -> 0..MaxDeliver]] /\ tries'[c][m] = n
      /\ \A d \in Consumers, k \in Msgs : d # c \/ k # m => tries'[d][k] = tries[d][k]
  BY <1>3, <1>6, <1>7, AtOne
<1> QED  BY <1>1, <1>2, <1>5, <1>6, <1>8

(* A handler that ends without having written.                             *)
LEMMA EndsStep ==
  ASSUME StatsInv, NEW c \in Consumers, NEW r \in Replicas, NEW m \in Msgs, HandedOut(c, r, m),
         NEW how \in Wires, how # "none", Ends(c, m, how),
         how = "queued" => tries[c][m] + 1 < MaxDeliver,
         c = Logs /\ how = "acked" => Recorded(m)
  PROVE  StatsInv'
<1> USE StatsAssumption DEF StatsAssumption
<1>1. /\ tries[c][m] + 1 \in 0..MaxDeliver
      /\ tries' \in [Consumers -> [Msgs -> 0..MaxDeliver]] /\ tries'[c][m] = tries[c][m] + 1
      /\ \A d \in Consumers, n \in Msgs : d # c \/ n # m => tries'[d][n] = tries[d][n]
      /\ wire[c][m] = "queued" /\ event[m] # None
      /\ UNCHANGED <<event, now, query>>
  BY HandedOutTries
<1>2. wire' = Settled(c, m, how) /\ UNCHANGED <<handling, filed, counts>>
  BY DEF Ends
<1>3. wire' = [wire EXCEPT ![c][m] = how]
  BY <1>1, <1>2 DEF Settled, Unsettled
<1>4. wire \in [Consumers -> [Msgs -> Wires]]
  BY DEF StatsInv, StatsType
<1>5. /\ wire' \in [Consumers -> [Msgs -> Wires]] /\ wire'[c][m] = how
      /\ \A d \in Consumers, n \in Msgs : d # c \/ n # m => wire'[d][n] = wire[d][n]
  BY <1>3, <1>4, AtOne
<1>6. StatsType'
  BY <1>1, <1>2, <1>5 DEF StatsInv, StatsType
<1>7. SpentAll'
  <2> SUFFICES ASSUME NEW d \in Consumers, NEW n \in Msgs
               PROVE  Spent(d, n)'
    BY DEF SpentAll
  <2>1. CASE d = c /\ n = m
    BY <1>1, <1>5, <2>1 DEF Spent
  <2>2. CASE d # c \/ n # m
    BY <1>1, <1>5, <2>2 DEF StatsInv, Spent
  <2> QED  BY <2>1, <2>2
<1>8. AckedWell
  BY <1>5, TwoConsumers DEF AckedWell
<1>9. HandlingWell
  BY <1>2 DEF HandlingWell
<1>10. now' >= now /\ Grows
  BY <1>1 DEF StatsInv, StatsType, Grows
<1> QED  BY <1>1, <1>2, <1>6, <1>7, <1>8, <1>9, <1>10, QuietStep

(* A write: the message is pending, the handler holds it.                  *)
LEMMA WrittenTypes ==
  ASSUME StatsInv, NEW c \in Consumers, NEW r \in Replicas, NEW m \in Msgs, HandedOut(c, r, m),
         Written(c, r, m), IsFiniteSet(filed')
  PROVE  /\ StatsType' /\ SpentAll' /\ AckedWell
         /\ handling'[c][r] = m
         /\ \A d \in Consumers, x \in Replicas : d # c \/ x # r => handling'[d][x] = handling[d][x]
<1>1. /\ tries[c][m] + 1 \in 0..MaxDeliver
      /\ tries' \in [Consumers -> [Msgs -> 0..MaxDeliver]] /\ tries'[c][m] = tries[c][m] + 1
      /\ \A d \in Consumers, n \in Msgs : d # c \/ n # m => tries'[d][n] = tries[d][n]
      /\ event[m] # None
      /\ UNCHANGED <<event, now, query>>
  BY HandedOutTries
<1>2. /\ wire \in [Consumers -> [Msgs -> Wires]]
      /\ handling \in [Consumers -> [Replicas -> Msgs \cup {None}]]
  BY DEF StatsInv, StatsType
<1>3. PICK p : p = "pending" /\ p \in Wires
  BY DEF Wires
<1>4. wire' = [wire EXCEPT ![c][m] = p] /\ handling' = [handling EXCEPT ![c][r] = m]
  BY <1>3 DEF Written
<1>5. /\ wire' \in [Consumers -> [Msgs -> Wires]] /\ wire'[c][m] = p
      /\ \A d \in Consumers, n \in Msgs : d # c \/ n # m => wire'[d][n] = wire[d][n]
  BY <1>2, <1>3, <1>4, AtOne
<1>6. m \in Msgs \cup {None}
  OBVIOUS
<1>7. /\ handling' \in [Consumers -> [Replicas -> Msgs \cup {None}]] /\ handling'[c][r] = m
      /\ \A d \in Consumers, x \in Replicas : d # c \/ x # r => handling'[d][x] = handling[d][x]
  BY <1>2, <1>4, <1>6, AtOne
<1>8. StatsType'
  BY <1>1, <1>5, <1>7 DEF StatsInv, StatsType
<1>9. p # "none" /\ p # "queued" /\ p # "acked"
  BY <1>3
<1>10. SpentAll'
  <2> SUFFICES ASSUME NEW d \in Consumers, NEW n \in Msgs
               PROVE  Spent(d, n)'
    BY DEF SpentAll
  <2>1. CASE d = c /\ n = m
    BY <1>1, <1>5, <1>9, <2>1 DEF Spent
  <2>2. CASE d # c \/ n # m
    BY <1>1, <1>5, <2>2 DEF StatsInv, Spent
  <2> QED  BY <2>1, <2>2
<1>11. AckedWell
  BY <1>5, <1>9, TwoConsumers DEF AckedWell
<1> QED  BY <1>7, <1>8, <1>10, <1>11

(* The conflict clause of the INSERT: one row per event, whoever comes     *)
(* again with it.                                                          *)
LEMMA Inserted ==
  ASSUME StatsInv, NEW row, InsertStat(row)
  PROVE  /\ filed \subseteq filed' /\ IsFiniteSet(filed')
         /\ \A s \in filed' : s \in filed \/ s = row
         /\ \E s \in filed' : SameStat(s, row)
         /\ \A s, t \in filed' : SameStat(s, t) => s = t
<1>1. \A s, t : SameStat(s, t) => SameStat(t, s)
  BY Zenon DEF SameStat
<1>2. SameStat(row, row)
  BY Zenon DEF SameStat
<1>3. IsFiniteSet(filed) /\ \A s, t \in filed : SameStat(s, t) => s = t
  BY DEF StatsInv, StatsType, FiledInv
<1>4. CASE \E s \in filed : SameStat(row, s)
  BY <1>1, <1>3, <1>4 DEF InsertStat
<1>5. CASE ~\E s \in filed : SameStat(row, s)
  <2>1. filed' = filed \cup {row}
    BY <1>5 DEF InsertStat
  <2>2. IsFiniteSet(filed \cup {row})
    BY <1>3, FS_AddElement
  <2> QED  BY <1>1, <1>2, <1>3, <1>5, <2>1, <2>2
<1> QED  BY <1>4, <1>5

LEMMA FilesStep ==
  ASSUME StatsInv, NEW r \in Replicas, NEW m \in Msgs, HandedOut(Logs, r, m),
         Readable(event[m]), ~Anonymous(event[m]), ~NamesNobody(event[m]),
         InsertStat(NewStat(event[m])), Written(Logs, r, m)
  PROVE  StatsInv'
<1> USE StatsAssumption DEF StatsAssumption
<1>1. PICK row : row = NewStat(event[m])
  OBVIOUS
<1>2. /\ filed \subseteq filed' /\ IsFiniteSet(filed')
      /\ \A s \in filed' : s \in filed \/ s = row
      /\ \E s \in filed' : SameStat(s, row)
      /\ \A s, t \in filed' : SameStat(s, t) => s = t
  BY <1>1, Inserted
<1>3. Logs \in Consumers
  BY TwoConsumers
<1>4. /\ StatsType' /\ SpentAll' /\ AckedWell
      /\ handling'[Logs][r] = m
      /\ \A d \in Consumers, x \in Replicas : d # Logs \/ x # r => handling'[d][x] = handling[d][x]
  BY <1>2, <1>3, WrittenTypes
<1>5. event[m] # None /\ UNCHANGED <<event, now, query>>
  BY <1>3, HandedOutTries
<1>6. Sourced(row)
  BY <1>1, <1>5, Zenon DEF Sourced
<1>7. Recorded(m)'
  BY <1>1, <1>2, <1>5 DEF Recorded
<1>8. HandlingWell
  BY <1>3, <1>4, <1>7 DEF HandlingWell
<1>9. Grows /\ now' >= now
  BY <1>5 DEF Grows, StatsInv, StatsType
<1>10. FiledInv'
  BY <1>2, <1>4, <1>6, <1>8, <1>9, FiledKept DEF AckedWell, HandlingWell
<1>11. QueryInv'
  BY <1>2, <1>5, <1>9, QueryKept DEF StatsInv
<1> QED  BY <1>4, <1>10, <1>11 DEF StatsInv, SpentAll

LEMMA CountsStep ==
  ASSUME StatsInv, NEW r \in Replicas, NEW m \in Msgs, HandedOut(Counts, r, m),
         Written(Counts, r, m), UNCHANGED filed
  PROVE  StatsInv'
<1>1. Counts \in Consumers /\ Logs \in Consumers /\ Logs # Counts
  BY TwoConsumers
<1>2. IsFiniteSet(filed')
  BY DEF StatsInv, StatsType
<1>3. /\ StatsType' /\ SpentAll' /\ AckedWell
      /\ \A d \in Consumers, x \in Replicas : d # Counts \/ x # r => handling'[d][x] = handling[d][x]
  BY <1>1, <1>2, WrittenTypes
<1>4. UNCHANGED <<event, now, query>>
  BY <1>1, HandedOutTries
<1>5. HandlingWell
  BY <1>1, <1>3 DEF HandlingWell
<1>6. Grows /\ now' >= now
  BY <1>4, StatsAssumption DEF Grows, StatsInv, StatsType, StatsAssumption
<1> QED  BY <1>3, <1>4, <1>5, <1>6, QuietStep

LEMMA HandleStep ==
  ASSUME StatsInv, NEW c \in Consumers, NEW m \in Msgs, Handle(c, m)
  PROVE  StatsInv'
<1>1. "termed" \in Wires /\ "acked" \in Wires
  BY DEF Wires
<1>2. ASSUME NEW d \in Consumers, NEW r \in Replicas, HandedOut(d, r, m), Nak(d, m)
      PROVE  StatsInv'
  <2>1. tries[d][m] + 1 \in 0..MaxDeliver
    BY <1>2, HandedOutTries
  <2>2. PICK how : how = Again(tries[d][m] + 1)
    OBVIOUS
  <2>3. how \in Wires /\ how # "none" /\ how # "acked" /\ (how = "queued" => tries[d][m] + 1 < MaxDeliver)
    BY <2>1, <2>2, AgainSpares
  <2>4. Ends(d, m, how)
    BY <1>2, <2>2 DEF Nak
  <2> QED  BY <1>2, <2>3, <2>4, EndsStep
<1>3. ASSUME NEW r \in Replicas, HandleStatsMsg(r, m)
      PROVE  StatsInv'
  <2>1. Logs \in Consumers
    BY TwoConsumers
  <2>2. HandedOut(Logs, r, m)
    BY <1>3 DEF HandleStatsMsg, Logs
  <2>3. event[m] # None
    BY <2>1, <2>2, HandedOutTries
  <2>4. CASE Ends(Logs, m, "termed")
    BY <1>1, <2>1, <2>2, <2>4, EndsStep
  <2>5. CASE Anonymous(event[m]) /\ Ends(Logs, m, "acked")
    <3>1. Recorded(m)
      BY <2>3, <2>5 DEF Recorded
    <3> QED  BY <1>1, <2>1, <2>2, <2>5, <3>1, EndsStep
  <2>6. CASE Nak(Logs, m)
    BY <1>2, <2>1, <2>2, <2>6
  <2>7. CASE /\ Readable(event[m]) /\ ~Anonymous(event[m]) /\ ~NamesNobody(event[m])
             /\ InsertStat(NewStat(event[m])) /\ Written(Logs, r, m)
    BY <2>2, <2>7, FilesStep
  <2> QED  BY <1>3, <2>4, <2>5, <2>6, <2>7, Zenon DEF HandleStatsMsg, Logs, Anonymous
<1>4. ASSUME NEW r \in Replicas, HandleAggregatedStatsMsg(r, m)
      PROVE  StatsInv'
  <2>1. Counts \in Consumers /\ Counts # Logs
    BY TwoConsumers
  <2>2. HandedOut(Counts, r, m)
    BY <1>4 DEF HandleAggregatedStatsMsg, Counts
  <2>3. CASE Ends(Counts, m, "termed")
    BY <1>1, <2>1, <2>2, <2>3, EndsStep
  <2>4. CASE Nak(Counts, m)
    BY <1>2, <2>1, <2>2, <2>4
  <2>5. CASE Written(Counts, r, m) /\ UNCHANGED filed
    BY <2>2, <2>5, CountsStep
  <2> QED  BY <1>4, <2>3, <2>4, <2>5, Zenon DEF HandleAggregatedStatsMsg, Counts
<1> QED  BY <1>3, <1>4, Zenon DEF Handle

(* Steps that only move messages: where each goes, and what is let go of.  *)
LEMMA MovesStep ==
  ASSUME StatsInv, UNCHANGED <<event, tries, now, query, filed>>,
         wire' \in [Consumers -> [Msgs -> Wires]],
         handling' \in [Consumers -> [Replicas -> Msgs \cup {None}]],
         \A c \in Consumers, m \in Msgs :
            \/ wire'[c][m] = wire[c][m]
            \/ /\ wire[c][m] # "none" /\ wire'[c][m] # "none"
               /\ wire'[c][m] = "queued" => tries[c][m] < MaxDeliver
               /\ c = Logs /\ wire'[c][m] = "acked" => Recorded(m),
         \A r \in Replicas : handling'[Logs][r] \in {handling[Logs][r], None}
  PROVE  StatsInv'
<1>1. StatsType'
  BY DEF StatsInv, StatsType
<1>2. SpentAll'
  BY DEF SpentAll, StatsInv, Spent
<1>3. AckedWell
  BY TwoConsumers DEF AckedWell
<1>4. HandlingWell
  BY NoneAssumption DEF HandlingWell, NoneAssumption
<1>5. Grows /\ now' >= now
  BY StatsAssumption DEF Grows, StatsInv, StatsType, StatsAssumption
<1> QED  BY <1>1, <1>2, <1>3, <1>4, <1>5, QuietStep

LEMMA RedeliverStep ==
  ASSUME StatsInv, NEW c \in Consumers, NEW m \in Msgs, Redeliver(c, m)
  PROVE  StatsInv'
<1>1. /\ wire \in [Consumers -> [Msgs -> Wires]] /\ tries[c][m] \in 0..MaxDeliver
      /\ handling \in [Consumers -> [Replicas -> Msgs \cup {None}]]
  BY DEF StatsInv, StatsType
<1>2. PICK how : how = Again(tries[c][m])
  OBVIOUS
<1>3. how \in Wires /\ how # "none" /\ how # "acked" /\ (how = "queued" => tries[c][m] < MaxDeliver)
  BY <1>1, <1>2, AgainSpares
<1>4. wire[c][m] = "pending" /\ wire' = [wire EXCEPT ![c][m] = how]
  BY <1>2 DEF Redeliver
<1>5. /\ wire' \in [Consumers -> [Msgs -> Wires]] /\ wire'[c][m] = how
      /\ \A d \in Consumers, n \in Msgs : d # c \/ n # m => wire'[d][n] = wire[d][n]
  BY <1>1, <1>3, <1>4, AtOne
<1>6. UNCHANGED <<event, tries, now, query, filed, handling>>
  BY DEF Redeliver
<1>7. \A d \in Consumers, n \in Msgs :
        \/ wire'[d][n] = wire[d][n]
        \/ /\ wire[d][n] # "none" /\ wire'[d][n] # "none"
           /\ wire'[d][n] = "queued" => tries[d][n] < MaxDeliver
           /\ d = Logs /\ wire'[d][n] = "acked" => Recorded(n)
  <2> TAKE d \in Consumers, n \in Msgs
  <2>1. CASE d = c /\ n = m
    BY <1>3, <1>4, <1>5, <2>1
  <2>2. CASE d # c \/ n # m
    BY <1>5, <2>2
  <2> QED  BY <2>1, <2>2
<1> QED  BY <1>1, <1>5, <1>6, <1>7, MovesStep

LEMMA AckStep ==
  ASSUME StatsInv, NEW c \in Consumers, NEW r \in Replicas, Ack(c, r)
  PROVE  StatsInv'
<1>1. /\ wire \in [Consumers -> [Msgs -> Wires]]
      /\ handling \in [Consumers -> [Replicas -> Msgs \cup {None}]]
  BY DEF StatsInv, StatsType
<1>2. PICK m : m = handling[c][r]
  OBVIOUS
<1>3. m \in Msgs
  BY <1>1, <1>2 DEF Ack
<1>4. PICK how : how = "acked" /\ how \in Wires
  BY DEF Wires
<1>5. wire' = Settled(c, m, how)
  BY <1>2, <1>4 DEF Ack
<1>6. /\ wire' \in [Consumers -> [Msgs -> Wires]]
      /\ \A d \in Consumers, n \in Msgs :
           \/ wire'[d][n] = wire[d][n]
           \/ /\ d = c /\ n = m /\ wire'[d][n] = how
              /\ wire[d][n] # "none"
  BY <1>3, <1>4, <1>5, SettledWire DEF StatsInv
<1>7. None \in Msgs \cup {None} /\ handling' = [handling EXCEPT ![c][r] = None]
  BY DEF Ack
<1>8. /\ handling' \in [Consumers -> [Replicas -> Msgs \cup {None}]] /\ handling'[c][r] = None
      /\ \A d \in Consumers, x \in Replicas : d # c \/ x # r => handling'[d][x] = handling[d][x]
  BY <1>1, <1>7, AtOne
<1>9. c = Logs => Recorded(m)
  BY <1>2, <1>3 DEF StatsInv, FiledInv
<1>10. \A d \in Consumers, n \in Msgs :
         \/ wire'[d][n] = wire[d][n]
         \/ /\ wire[d][n] # "none" /\ wire'[d][n] # "none"
            /\ wire'[d][n] = "queued" => tries[d][n] < MaxDeliver
            /\ d = Logs /\ wire'[d][n] = "acked" => Recorded(n)
  BY <1>4, <1>6, <1>9
<1>11. \A x \in Replicas : handling'[Logs][x] \in {handling[Logs][x], None}
  BY <1>8, TwoConsumers
<1>12. UNCHANGED <<event, tries, now, query, filed>>
  BY DEF Ack
<1> QED  BY <1>6, <1>8, <1>10, <1>11, <1>12, MovesStep

(* A replica stops.                                                        *)
LEMMA StopsMoves ==
  ASSUME StatsInv, NEW r \in Replicas, Stops(r)
  PROVE  /\ wire' \in [Consumers -> [Msgs -> Wires]]
         /\ handling' \in [Consumers -> [Replicas -> Msgs \cup {None}]]
         /\ \A c \in Consumers, m \in Msgs :
              \/ wire'[c][m] = wire[c][m]
              \/ /\ wire[c][m] # "none" /\ wire'[c][m] # "none"
                 /\ wire'[c][m] = "queued" => tries[c][m] < MaxDeliver
                 /\ wire'[c][m] # "acked"
         /\ \A x \in Replicas : handling'[Logs][x] \in {handling[Logs][x], None}
         /\ UNCHANGED <<event, tries, now>>
<1>1. /\ wire \in [Consumers -> [Msgs -> Wires]]
      /\ tries \in [Consumers -> [Msgs -> 0..MaxDeliver]]
      /\ handling \in [Consumers -> [Replicas -> Msgs \cup {None}]]
  BY DEF StatsInv, StatsType
<1>2. /\ handling' = [c \in Consumers |-> [handling[c] EXCEPT ![r] = None]]
      /\ wire' = [c \in Consumers |-> [m \in Msgs |->
                   IF handling[c][r] = m /\ wire[c][m] = "pending"
                   THEN Again(tries[c][m]) ELSE wire[c][m]]]
      /\ UNCHANGED <<event, tries, now>>
  BY DEF Stops
<1>3. \A c \in Consumers, m \in Msgs :
        \/ wire'[c][m] = wire[c][m]
        \/ wire[c][m] = "pending" /\ wire'[c][m] = Again(tries[c][m])
  BY <1>2
<1>4. \A c \in Consumers, m \in Msgs :
        /\ Again(tries[c][m]) \in Wires /\ Again(tries[c][m]) # "none" /\ Again(tries[c][m]) # "acked"
        /\ Again(tries[c][m]) = "queued" => tries[c][m] < MaxDeliver
  <2> TAKE c \in Consumers, m \in Msgs
  <2>1. tries[c][m] \in 0..MaxDeliver
    BY <1>1
  <2> QED  BY <2>1, AgainSpares
<1>5. \A c \in Consumers : wire'[c] \in [Msgs -> Wires]
  BY <1>1, <1>2, <1>4
<1>6. wire' \in [Consumers -> [Msgs -> Wires]]
  BY <1>2, <1>5
<1>7. \A c \in Consumers, m \in Msgs :
        \/ wire'[c][m] = wire[c][m]
        \/ /\ wire[c][m] # "none" /\ wire'[c][m] # "none"
           /\ wire'[c][m] = "queued" => tries[c][m] < MaxDeliver
           /\ wire'[c][m] # "acked"
  <2> TAKE c \in Consumers, m \in Msgs
  <2>1. CASE wire'[c][m] = wire[c][m]
    BY <2>1
  <2>2. CASE wire[c][m] = "pending" /\ wire'[c][m] = Again(tries[c][m])
    BY <1>4, <2>2
  <2> QED  BY <1>3, <2>1, <2>2
<1>8. handling' \in [Consumers -> [Replicas -> Msgs \cup {None}]]
  BY <1>1, <1>2
<1>9. \A x \in Replicas : handling'[Logs][x] \in {handling[Logs][x], None}
  BY <1>1, <1>2, TwoConsumers
<1> QED  BY <1>2, <1>6, <1>7, <1>8, <1>9

LEMMA CrashStep ==
  ASSUME StatsInv, NEW r \in Replicas, Crash(r)
  PROVE  StatsInv'
<1>1. Stops(r) /\ UNCHANGED <<filed, query>>
  BY DEF Crash
<1>2. /\ wire' \in [Consumers -> [Msgs -> Wires]]
      /\ handling' \in [Consumers -> [Replicas -> Msgs \cup {None}]]
      /\ \A c \in Consumers, m \in Msgs :
           \/ wire'[c][m] = wire[c][m]
           \/ /\ wire[c][m] # "none" /\ wire'[c][m] # "none"
              /\ wire'[c][m] = "queued" => tries[c][m] < MaxDeliver
              /\ wire'[c][m] # "acked"
      /\ \A x \in Replicas : handling'[Logs][x] \in {handling[Logs][x], None}
      /\ UNCHANGED <<event, tries, now>>
  BY <1>1, StopsMoves
<1>3. \A c \in Consumers, m \in Msgs :
           \/ wire'[c][m] = wire[c][m]
           \/ /\ wire[c][m] # "none" /\ wire'[c][m] # "none"
              /\ wire'[c][m] = "queued" => tries[c][m] < MaxDeliver
              /\ c = Logs /\ wire'[c][m] = "acked" => Recorded(m)
  BY <1>2
<1> QED  BY <1>1, <1>2, <1>3, MovesStep

-----------------------------------------------------------------------------
(* The sweep, between the two statements of a report or elsewhere.         *)
Answers(d, from, to, skip, got, size, swept) ==
  [pc : {"count"}, domain : {d}, from : {from}, to : {to}, skip : {skip},
   got : {got}, size : {size}, swept : swept]

IsAnswer(q) ==
  q.swept \in BOOLEAN /\ q = Answer(q.domain, q.from, q.to, q.skip, q.got, q.size, q.swept)

Swept(q) == Answer(q.domain, q.from, q.to, q.skip, q.got, q.size, TRUE)

LEMMA AnswerSwept ==
  ASSUME NEW q, IsAnswer(q)
  PROVE  [q EXCEPT !.swept = TRUE] = Swept(q)
<1>1. q \in Answers(q.domain, q.from, q.to, q.skip, q.got, q.size, BOOLEAN)
  BY DEF IsAnswer, Answer, Answers
<1>2. PICK p : p = [q EXCEPT !.swept = TRUE]
  OBVIOUS
<1>3. p \in Answers(q.domain, q.from, q.to, q.skip, q.got, q.size, {TRUE})
  BY <1>1, <1>2, Zenon DEF Answers
<1>4. p = Answer(q.domain, q.from, q.to, q.skip, q.got, q.size, TRUE)
  BY <1>3 DEF Answer, Answers
<1> QED  BY <1>2, <1>4, Zenon DEF Swept

LEMMA IdleIsNotCounting == Idle.pc # "count"
<1>1. Idle.pc = "idle"
  BY DEF Idle
<1> QED  BY <1>1

LEMMA SweptQuery ==
  ASSUME QueryInv, Grows,
         query' = IF query.pc = "count" THEN [query EXCEPT !.swept = TRUE] ELSE query
  PROVE  QueryInv'
<1>1. CASE query = Idle
  <2>1. query' = Idle
    BY <1>1, IdleIsNotCounting, Zenon
  <2> QED  BY <2>1, Zenon DEF QueryInv
<1>2. CASE query # Idle
  <2>1. PICK q : q = query
    OBVIOUS
  <2>2. /\ q = Answer(q.domain, q.from, q.to, q.skip, q.got, q.size, q.swept)
        /\ q.skip \in Nat /\ q.size \in Nat /\ q.swept \in BOOLEAN
        /\ \A s \in q.got : Reported(s, q.domain)
    BY <1>2, <2>1, Zenon DEF QueryInv
  <2>3. PICK p : p = Answer(q.domain, q.from, q.to, q.skip, q.got, q.size, TRUE)
    OBVIOUS
  <2>4. q.pc = "count" /\ [q EXCEPT !.swept = TRUE] = p
    <3>1. IsAnswer(q)
      BY <2>2, Zenon DEF IsAnswer
    <3>2. q.pc = "count"
      BY <2>2 DEF Answer
    <3>3. [q EXCEPT !.swept = TRUE] = Swept(q)
      BY <3>1, AnswerSwept, Zenon
    <3> QED  BY <2>3, <3>2, <3>3, Zenon DEF Swept
  <2>5. query' = p
    BY <2>1, <2>4, Zenon
  <2>6. /\ p.domain = q.domain /\ p.from = q.from /\ p.to = q.to /\ p.skip = q.skip
        /\ p.got = q.got /\ p.size = q.size /\ p.swept = TRUE
    BY <2>3 DEF Answer
  <2>7. \A s \in p.got : Reported(s, p.domain)'
    BY <2>2, <2>6, ReportedKept
  <2>8. p = Answer(p.domain, p.from, p.to, p.skip, p.got, p.size, p.swept)
    BY <2>3, <2>6, Zenon
  <2>9. p.skip \in Nat /\ p.size \in Nat /\ p.swept \in BOOLEAN
    BY <2>2, <2>6, Zenon
  <2> QED  BY <2>5, <2>6, <2>7, <2>8, <2>9, Zenon DEF QueryInv
<1> QED  BY <1>1, <1>2

LEMMA CleanupStep ==
  ASSUME StatsInv, NEW r \in Replicas, CleanupCycle(r)
  PROVE  StatsInv'
<1> USE StatsAssumption DEF StatsAssumption
<1>1. filed' = filed \ DeleteStatsOlderThan
  BY DEF CleanupCycle
<1>2. /\ \A s \in filed : s \in filed' \/ s.at < now - Retention
      /\ filed' \subseteq filed
  BY <1>1 DEF DeleteStatsOlderThan
<1>3. IsFiniteSet(filed')
  BY <1>2, FS_Subset DEF StatsInv, StatsType
<1>4. /\ wire' \in [Consumers -> [Msgs -> Wires]]
      /\ handling' \in [Consumers -> [Replicas -> Msgs \cup {None}]]
      /\ \A c \in Consumers, m \in Msgs :
           \/ wire'[c][m] = wire[c][m]
           \/ /\ wire[c][m] # "none" /\ wire'[c][m] # "none"
              /\ wire'[c][m] = "queued" => tries[c][m] < MaxDeliver
              /\ wire'[c][m] # "acked"
      /\ \A x \in Replicas : handling'[Logs][x] \in {handling[Logs][x], None}
      /\ UNCHANGED <<event, tries, now>>
  <2>1. CASE Stops(r)
    BY <2>1, StopsMoves
  <2>2. CASE UNCHANGED <<event, wire, tries, handling, now>>
    BY <2>2 DEF StatsInv, StatsType
  <2> QED  BY <2>1, <2>2 DEF CleanupCycle
<1>5. StatsType'
  BY <1>3, <1>4 DEF StatsInv, StatsType
<1>6. SpentAll'
  BY <1>4 DEF SpentAll, StatsInv, Spent
<1>7. AckedWell
  BY <1>4, TwoConsumers DEF AckedWell
<1>8. HandlingWell
  BY <1>4, NoneAssumption DEF HandlingWell, NoneAssumption
<1>9. Grows /\ now' >= now
  BY <1>4 DEF Grows, StatsInv, StatsType
<1>10. \A s, t \in filed' : SameStat(s, t) => s = t
  BY <1>2 DEF StatsInv, FiledInv
<1>11. FiledInv'
  BY <1>2, <1>5, <1>7, <1>8, <1>9, <1>10, FiledKept DEF AckedWell, HandlingWell
<1>12. query' = IF query.pc = "count" THEN [query EXCEPT !.swept = TRUE] ELSE query
  BY Zenon DEF CleanupCycle
<1>13. QueryInv'
  BY <1>9, <1>12, SweptQuery DEF StatsInv
<1> QED  BY <1>5, <1>6, <1>11, <1>13 DEF StatsInv, SpentAll

-----------------------------------------------------------------------------
(* Producers, the clock and the clients of the API.                        *)
LEMMA PublishStep ==
  ASSUME StatsInv, NEW m \in Msgs, NEW k \in Kinds, Publish(m, k)
  PROVE  StatsInv'
<1> USE StatsAssumption DEF StatsAssumption
<1>1. /\ event \in [Msgs -> Events \cup {None}]
      /\ wire \in [Consumers -> [Msgs -> Wires]]
      /\ now \in 0..MaxTime
  BY DEF StatsInv, StatsType
<1>2. PICK e : e = ToEvent(k, now)
  OBVIOUS
<1>3. e \in Events /\ e # None
  BY <1>1, <1>2, NoneAssumption DEF Events, NoneAssumption
<1>4. event[m] = None /\ event' = [event EXCEPT ![m] = e]
  BY <1>2 DEF Publish
<1>5. event' \in [Msgs -> Events \cup {None}] /\ event'[m] = e /\ \A n \in Msgs : n # m => event'[n] = event[n]
  BY <1>1, <1>3, <1>4
<1>6. wire' = [c \in Consumers |-> [wire[c] EXCEPT ![m] = "queued"]]
  BY DEF Publish
<1>7. /\ wire' \in [Consumers -> [Msgs -> Wires]]
      /\ \A c \in Consumers, n \in Msgs : wire'[c][n] = IF n = m THEN "queued" ELSE wire[c][n]
  BY <1>1, <1>6 DEF Wires
<1>8. UNCHANGED <<tries, handling, filed, now, query>>
  BY DEF Publish
<1>9. StatsType'
  BY <1>5, <1>7, <1>8 DEF StatsInv, StatsType
<1>10. SpentAll'
  <2> SUFFICES ASSUME NEW c \in Consumers, NEW n \in Msgs
               PROVE  Spent(c, n)'
    BY DEF SpentAll
  <2>1. CASE n = m
    <3>1. tries[c][n] = 0
      BY <1>4, <2>1 DEF StatsInv, Spent
    <3> QED  BY <1>3, <1>5, <1>7, <1>8, <2>1, <3>1 DEF Spent
  <2>2. CASE n # m
    BY <1>5, <1>7, <1>8, <2>2 DEF StatsInv, Spent
  <2> QED  BY <2>1, <2>2
<1>11. AckedWell
  BY <1>7, TwoConsumers DEF AckedWell
<1>12. HandlingWell
  BY <1>8 DEF HandlingWell
<1>13. Grows /\ now' >= now
  BY <1>1, <1>4, <1>5, <1>8 DEF Grows
<1> QED  BY <1>8, <1>9, <1>10, <1>11, <1>12, <1>13, QuietStep

LEMMA TickStep ==
  ASSUME StatsInv, Tick
  PROVE  StatsInv'
<1> USE StatsAssumption DEF StatsAssumption
<1>1. UNCHANGED <<event, wire, tries, handling, filed, query>>
  BY DEF Tick, workerVars
<1>2. now \in 0..MaxTime /\ now' = now + 1 /\ now < MaxTime
  BY DEF StatsInv, StatsType, Tick
<1>3. now' \in 0..MaxTime /\ now' >= now
  BY <1>2
<1>4. StatsType'
  BY <1>1, <1>3 DEF StatsInv, StatsType
<1>5. SpentAll' /\ AckedWell /\ HandlingWell /\ Grows
  BY <1>1 DEF SpentAll, StatsInv, Spent, AckedWell, HandlingWell, Grows
<1> QED  BY <1>1, <1>3, <1>4, <1>5, QuietStep

LEMMA ReportStep ==
  ASSUME StatsInv, UNCHANGED <<event, wire, tries, handling, filed, now>>, QueryInv'
  PROVE  StatsInv'
<1> USE StatsAssumption DEF StatsAssumption
<1>1. StatsType'
  BY DEF StatsInv, StatsType
<1>2. SpentAll'
  BY DEF SpentAll, StatsInv, Spent
<1>3. AckedWell /\ HandlingWell /\ Grows /\ now' >= now
  BY DEF AckedWell, HandlingWell, Grows, StatsInv, StatsType
<1>4. FiledInv'
  BY <1>1, <1>3, FiledKept DEF StatsInv, FiledInv, AckedWell, HandlingWell
<1> QED  BY <1>1, <1>2, <1>4 DEF StatsInv, SpentAll

LEMMA GetStatsStep ==
  ASSUME StatsInv, NEW d, NEW from, NEW to, NEW page \in Pages, GetStats(d, from, to, page)
  PROVE  StatsInv'
<1> USE StatsAssumption DEF StatsAssumption
<1>1. UNCHANGED <<event, wire, tries, handling, filed, now>>
  BY DEF GetStats, workerVars
<1>2. PICK R, skip, take : R = Matching(d, from, to) /\ skip = page.skip /\ take = page.take
  OBVIOUS
<1>3. PICK found \in QueryStats(R, skip, take) :
        query' = Answer(d, from, to, skip, {StatToPb(s) : s \in found}, Cardinality(found), FALSE)
  BY <1>2, Zenon DEF GetStats, Answer
<1>4. skip \in Nat /\ take \in Nat
  BY <1>2
<1>5. R \subseteq filed /\ IsFiniteSet(R) /\ \A s \in R : s.domain = d
  <2>1. R \subseteq filed
    BY <1>2 DEF Matching
  <2>2. IsFiniteSet(R)
    BY <2>1, FS_Subset DEF StatsInv, StatsType
  <2>3. \A s \in R : s.domain = d
    BY <1>2 DEF Matching, Within
  <2> QED  BY <2>1, <2>2, <2>3
<1>6. PICK size : size = Cardinality(found)
  OBVIOUS
<1>7. /\ found \subseteq R /\ size \in Nat
      /\ size > 0 => skip + size <= Cardinality(R)
  BY <1>4, <1>5, <1>6, PageFits
<1>8. PICK got : got = {StatToPb(s) : s \in found}
  OBVIOUS
<1>9. \A p \in got : Reported(p, d)'
  <2> TAKE p \in got
  <2>1. PICK s \in found : p = StatToPb(s)
    BY <1>8
  <2>2. s \in filed /\ s.domain = d
    BY <1>5, <1>7
  <2>3. PICK m \in Msgs : event[m] # None /\ s = NewStat(event[m])
    BY <2>2, Zenon DEF StatsInv, FiledInv, Sourced
  <2>4. PICK e : e = event[m]
    OBVIOUS
  <2>5. e \in Events
    BY <2>3, <2>4 DEF StatsInv, StatsType
  <2>6. /\ p.domain = e.domain /\ p.at = e.at /\ p.who = e.who
        /\ p.type = Type(e.outcome) /\ p.data = e.outcome
    BY <2>1, <2>3, <2>4, <2>5, ReportOfEvent
  <2>7. e.domain = d
    BY <2>2, <2>3, <2>4, StatFields
  <2>8. event'[m] = e
    BY <1>1, <2>4
  <2> QED  BY <2>3, <2>4, <2>6, <2>7, <2>8, Zenon DEF Reported
<1>10. PICK q : q = Answer(d, from, to, skip, got, size, FALSE)
  OBVIOUS
<1>11. query' = q
  BY <1>3, <1>6, <1>8, <1>10
<1>12. /\ q.domain = d /\ q.from = from /\ q.to = to /\ q.skip = skip
       /\ q.got = got /\ q.size = size /\ q.swept = FALSE
  BY <1>10 DEF Answer
<1>13. Matching(d, from, to)' = R
  BY <1>1, <1>2 DEF Matching
<1>14. q = Answer(q.domain, q.from, q.to, q.skip, q.got, q.size, q.swept)
  BY <1>10, <1>12, Zenon
<1>15. q.skip \in Nat /\ q.size \in Nat /\ q.swept \in BOOLEAN
  BY <1>4, <1>7, <1>12, Zenon
<1>16. QueryInv'
  BY <1>7, <1>9, <1>11, <1>12, <1>13, <1>14, <1>15, Zenon DEF QueryInv
<1> QED  BY <1>1, <1>16, ReportStep

LEMMA CountStatsStep ==
  ASSUME StatsInv, CountStats
  PROVE  StatsInv'
<1>1. UNCHANGED <<event, wire, tries, handling, filed, now>>
  BY DEF CountStats, workerVars
<1>2. query' = Idle
  BY DEF CountStats
<1>3. QueryInv'
  BY <1>2, Zenon DEF QueryInv
<1> QED  BY <1>1, <1>3, ReportStep

-----------------------------------------------------------------------------
LEMMA StatsInitially ==
  ASSUME StatsInit
  PROVE  StatsInv
<1> USE StatsAssumption DEF StatsAssumption
<1>1. StatsType
  BY FS_EmptySet DEF StatsInit, StatsType, Wires
<1>2. SpentAll
  BY DEF StatsInit, SpentAll, Spent
<1>3. FiledInv
  BY NoneAssumption, TwoConsumers DEF StatsInit, FiledInv, NoneAssumption
<1>4. QueryInv
  BY Zenon DEF StatsInit, QueryInv
<1> QED  BY <1>1, <1>2, <1>3, <1>4 DEF StatsInv, SpentAll

LEMMA StatsStep ==
  ASSUME StatsInv, [StatsNext]_statVars
  PROVE  StatsInv'
<1>1. CASE UNCHANGED statVars
  <2>1. UNCHANGED <<event, wire, tries, handling, filed, now, query>>
    BY <1>1 DEF statVars, workerVars
  <2>2. Grows /\ IsFiniteSet(filed')
    BY <2>1 DEF Grows, StatsInv, StatsType
  <2>3. QueryInv'
    BY <2>1, <2>2, QueryKept DEF StatsInv
  <2> QED  BY <2>1, <2>3, ReportStep
<1>2. CASE \E m \in Msgs, k \in Kinds : Publish(m, k)
  BY <1>2, PublishStep
<1>3. CASE \E c \in Consumers, m \in Msgs : Handle(c, m) \/ Redeliver(c, m)
  BY <1>3, HandleStep, RedeliverStep
<1>4. CASE \E c \in Consumers, r \in Replicas : Ack(c, r)
  BY <1>4, AckStep
<1>5. CASE \E r \in Replicas : Crash(r) \/ CleanupCycle(r)
  BY <1>5, CrashStep, CleanupStep
<1>6. CASE \E span \in Spans, page \in Pages : GetStats(span.domain, span.from, span.to, page)
  BY <1>6, GetStatsStep
<1>7. CASE CountStats \/ Tick
  BY <1>7, CountStatsStep, TickStep
<1> QED  BY <1>1, <1>2, <1>3, <1>4, <1>5, <1>6, <1>7 DEF StatsNext

(* Every behaviour keeps the invariant.                                    *)
THEOREM StatsInvariant == StatsSpec => []StatsInv
<1>1. StatsInit => StatsInv
  BY StatsInitially
<1>2. StatsInv /\ [StatsNext]_statVars => StatsInv'
  BY StatsStep
<1> QED  BY <1>1, <1>2, PTL DEF StatsSpec

(* Messages are where the consumers may leave them, none is handed out     *)
(* more than consumerMaxDeliver times, and the table keeps one row per     *)
(* event.                                                                  *)
THEOREM StatsTypes == StatsSpec => []StatsTypeOK
<1>1. StatsInv => StatsTypeOK
  BY DEF StatsInv, StatsType, Spent, FiledInv, Wires, StatsTypeOK
<1> QED  BY <1>1, StatsInvariant, PTL

(* An acknowledged event has its row until the retention passes, and the   *)
(* row of nobody is never stored (handleStatsMsg, InsertStat, cleanup).    *)
THEOREM AcksFollowFiles == StatsSpec => []AckedIsFiled
<1>1. StatsInv => AckedIsFiled
  <2> SUFFICES ASSUME StatsInv PROVE AckedIsFiled
    OBVIOUS
  <2>1. \A m \in Msgs : wire[Logs][m] = "acked" => Recorded(m)
    BY DEF StatsInv, FiledInv
  <2>2. \A s \in filed : \E m \in Msgs :
          event[m] # None /\ SameStat(s, NewStat(event[m])) /\ ~Anonymous(event[m]) /\ ~NamesNobody(event[m])
    BY Zenon DEF StatsInv, FiledInv, Sourced, SameStat
  <2> QED  BY <2>1, <2>2, Zenon DEF AckedIsFiled, Recorded, Anonymous, Logs
<1> QED  BY <1>1, StatsInvariant, PTL

(* GetStats reports what producers said, and a total that covers its page  *)
(* unless the sweep came between the two statements.                       *)
THEOREM ReportsAreFaithful == StatsSpec => []ReportIsFaithful
<1>1. StatsInv => ReportIsFaithful
  <2> SUFFICES ASSUME StatsInv, query.pc = "count" PROVE ReportIsFaithful
    BY DEF ReportIsFaithful
  <2>1. query # Idle
    BY IdleIsNotCounting, Zenon
  <2> QED  BY <2>1, Zenon DEF StatsInv, QueryInv, Reported, ReportIsFaithful, CountQueryStats
<1> QED  BY <1>1, StatsInvariant, PTL

-----------------------------------------------------------------------------
(* The counters.  A message is tallied once its event is in a counter: it  *)
(* was acknowledged, or a handler is about to do so.  A counter lies       *)
(* between the tallied messages of its bucket and the occasions on which   *)
(* the consumer was handed one of them.                                    *)
Buckets      == {Bucket(e) : e \in Events}
Tallied(m)   == wire[Counts][m] = "acked" \/ \E r \in Replicas : handling[Counts][r] = m
TalliedIn(b) == {m \in InBucket(b) : Tallied(m)}

CountInv ==
  /\ DOMAIN counts \subseteq Buckets
  /\ \A r \in Replicas, m \in Msgs : handling[Counts][r] = m => event[m] # None
  /\ \A b \in Buckets :
       /\ CountOf(b) \in Nat
       /\ Cardinality(TalliedIn(b)) <= CountOf(b)
       /\ CountOf(b) <= Cardinality(HandOuts(Counts, InBucket(b)))

LEMMA FewMessages ==
  ASSUME NEW S, S \subseteq Msgs
  PROVE  IsFiniteSet(S) /\ Cardinality(S) \in Nat
<1>1. IsFiniteSet(Msgs)
  BY FS_Interval, StatsAssumption DEF Msgs, StatsAssumption
<1>2. IsFiniteSet(S)
  BY <1>1, FS_Subset
<1> QED  BY <1>2, FS_CardinalityType

LEMMA FewHandOuts ==
  ASSUME NEW H, H \subseteq Msgs \X (1..MaxDeliver)
  PROVE  IsFiniteSet(H) /\ Cardinality(H) \in Nat
<1>1. IsFiniteSet(Msgs) /\ IsFiniteSet(1..MaxDeliver)
  BY FewMessages, FS_Interval, StatsAssumption DEF StatsAssumption
<1>2. IsFiniteSet(Msgs \X (1..MaxDeliver))
  BY <1>1, FS_Product
<1>3. IsFiniteSet(H)
  BY <1>2, FS_Subset
<1> QED  BY <1>3, FS_CardinalityType

(* What is in a bucket, and what was handed out of it.                     *)
LEMMA BucketSets ==
  ASSUME NEW b
  PROVE  /\ InBucket(b) \subseteq Msgs /\ TalliedIn(b) \subseteq Msgs
         /\ HandOuts(Counts, InBucket(b)) \subseteq Msgs \X (1..MaxDeliver)
BY DEF InBucket, TalliedIn, HandOuts

LEMMA TalliedIsKnown ==
  ASSUME StatsInv, CountInv, NEW m \in Msgs, Tallied(m)
  PROVE  event[m] # None
<1>1. CASE wire[Counts][m] = "acked"
  BY <1>1, TwoConsumers DEF StatsInv, Spent
<1>2. CASE \E r \in Replicas : handling[Counts][r] = m
  BY <1>2 DEF CountInv
<1> QED  BY <1>1, <1>2 DEF Tallied

(* A step that counts nothing.                                             *)
LEMMA CountKept ==
  ASSUME StatsInv, StatsType', CountInv, Grows, UNCHANGED counts,
         \A m \in Msgs : Tallied(m)' => Tallied(m),
         \A m \in Msgs : tries'[Counts][m] >= tries[Counts][m]
  PROVE  CountInv'
<1> USE StatsAssumption DEF StatsAssumption
<1>1. \A m \in Msgs : Tallied(m)' => event[m] # None
  BY TalliedIsKnown
<1>2. \A r \in Replicas, m \in Msgs : handling'[Counts][r] = m => event'[m] # None
  BY <1>1 DEF Tallied, Grows
<1>3. \A b \in Buckets : CountOf(b)' = CountOf(b)
  BY DEF CountOf
<1>4. ASSUME NEW b \in Buckets
      PROVE  /\ CountOf(b)' \in Nat
             /\ Cardinality(TalliedIn(b))' <= CountOf(b)'
             /\ CountOf(b)' <= Cardinality(HandOuts(Counts, InBucket(b)))'
  <2>1. PICK T, T1, H, H1, n :
          /\ T = TalliedIn(b) /\ T1 = TalliedIn(b)' /\ n = CountOf(b)
          /\ H = HandOuts(Counts, InBucket(b)) /\ H1 = HandOuts(Counts, InBucket(b))'
    OBVIOUS
  <2>2. T1 \subseteq T
    <3> SUFFICES ASSUME NEW m \in T1 PROVE m \in T
      OBVIOUS
    <3>1. m \in Msgs /\ Readable(event'[m]) /\ Bucket(event'[m]) = b /\ Tallied(m)'
      BY <2>1 DEF TalliedIn, InBucket
    <3>2. event[m] # None /\ event'[m] = event[m] /\ Tallied(m)
      BY <1>1, <3>1 DEF Grows
    <3> QED  BY <2>1, <3>1, <3>2 DEF TalliedIn, InBucket
  <2>3. InBucket(b) \subseteq InBucket(b)'
    BY DEF InBucket, Grows
  <2>4. H \subseteq H1
    <3> SUFFICES ASSUME NEW h \in H PROVE h \in H1
      OBVIOUS
    <3>1. h \in InBucket(b) \X (1..MaxDeliver) /\ h[2] <= tries[Counts][h[1]]
      BY <2>1 DEF HandOuts
    <3>2. h[1] \in Msgs
      BY <3>1 DEF InBucket
    <3>3. tries[Counts][h[1]] \in Nat /\ tries'[Counts][h[1]] \in Nat
      BY <3>2, TwoConsumers DEF StatsInv, StatsType
    <3>4. h[2] <= tries'[Counts][h[1]]
      BY <3>1, <3>2, <3>3
    <3> QED  BY <2>1, <2>3, <3>1, <3>4 DEF HandOuts
  <2>5. T \subseteq Msgs /\ H1 \subseteq Msgs \X (1..MaxDeliver)
    BY <2>1 DEF TalliedIn, InBucket, HandOuts
  <2>6. /\ IsFiniteSet(T) /\ Cardinality(T) \in Nat /\ IsFiniteSet(H1) /\ Cardinality(H1) \in Nat
    BY <2>5, FewMessages, FewHandOuts
  <2>7. Cardinality(T1) <= Cardinality(T) /\ Cardinality(H) <= Cardinality(H1)
    BY <2>2, <2>4, <2>6, FS_Subset
  <2>8. Cardinality(T1) \in Nat /\ Cardinality(H) \in Nat
    BY <2>2, <2>4, <2>5, FewMessages, FewHandOuts
  <2>9. n \in Nat /\ Cardinality(T) <= n /\ n <= Cardinality(H)
    BY <2>1 DEF CountInv
  <2>10. Cardinality(T1) <= n /\ n <= Cardinality(H1)
    BY <2>6, <2>7, <2>8, <2>9
  <2>11. CountOf(b)' = n
    BY <1>3, <2>1
  <2>12. Cardinality(TalliedIn(b))' = Cardinality(T1) /\ Cardinality(HandOuts(Counts, InBucket(b)))' = Cardinality(H1)
    BY <2>1
  <2> QED  BY <2>9, <2>10, <2>11, <2>12
<1>5. DOMAIN counts' \subseteq Buckets
  BY DEF CountInv
<1> QED  BY <1>2, <1>4, <1>5 DEF CountInv

(* The write: one event more in the counter, and one hand-out more behind  *)
(* it.                                                                     *)
LEMMA Incremented ==
  ASSUME NEW b, IncrementAggregatedStat(b)
  PROVE  /\ DOMAIN counts' = {b} \cup DOMAIN counts
         /\ CountOf(b)' = CountOf(b) + 1
         /\ \A a : a # b => CountOf(a)' = CountOf(a)
BY DEF IncrementAggregatedStat, CountOf

LEMMA CountWritten ==
  ASSUME StatsInv, StatsType', CountInv, NEW r \in Replicas, NEW m \in Msgs, HandedOut(Counts, r, m),
         Readable(event[m]), IncrementAggregatedStat(Bucket(event[m])), Written(Counts, r, m)
  PROVE  CountInv'
<1> USE StatsAssumption DEF StatsAssumption
<1>1. Counts \in Consumers
  BY TwoConsumers
<1>2. PICK e, b : e = event[m] /\ b = Bucket(e)
  OBVIOUS
<1>3. /\ tries'[Counts][m] = tries[Counts][m] + 1 /\ tries[Counts][m] + 1 \in 0..MaxDeliver
      /\ \A n \in Msgs : n # m => tries'[Counts][n] = tries[Counts][n]
      /\ e # None /\ event' = event
  BY <1>1, <1>2, HandedOutTries
<1>4. b \in Buckets
  <2>1. e \in Events
    BY <1>2, <1>3 DEF StatsInv, StatsType
  <2> QED  BY <1>2, <2>1 DEF Buckets
<1>5. /\ DOMAIN counts' = {b} \cup DOMAIN counts
      /\ CountOf(b)' = CountOf(b) + 1
      /\ \A a : a # b => CountOf(a)' = CountOf(a)
  BY <1>2, Incremented
<1>6. \A n \in Msgs : n # m => (Tallied(n)' => Tallied(n))
  <2>1. wire' = [wire EXCEPT ![Counts][m] = "pending"] /\ handling' = [handling EXCEPT ![Counts][r] = m]
    BY DEF Written
  <2>2. /\ wire \in [Consumers -> [Msgs -> Wires]]
        /\ handling \in [Consumers -> [Replicas -> Msgs \cup {None}]]
    BY DEF StatsInv, StatsType
  <2>3. \A n \in Msgs : n # m => wire'[Counts][n] = wire[Counts][n]
    BY <1>1, <2>1, <2>2
  <2>4. \A x \in Replicas : handling'[Counts][x] = IF x = r THEN m ELSE handling[Counts][x]
    BY <1>1, <2>1, <2>2
  <2> QED  BY <2>3, <2>4 DEF Tallied
<1>7. \A a : InBucket(a)' = InBucket(a)
  BY <1>3 DEF InBucket
<1>8. \A a : m \in InBucket(a) => a = b
  BY <1>2 DEF InBucket
<1>9. m \in InBucket(b)
  BY <1>2, <1>3 DEF InBucket
<1>10. \A x \in Replicas, n \in Msgs : handling'[Counts][x] = n => event'[n] # None
  <2> SUFFICES ASSUME NEW x \in Replicas, NEW n \in Msgs, handling'[Counts][x] = n PROVE event[n] # None
    BY <1>3
  <2>1. CASE n = m
    BY <1>2, <1>3, <2>1
  <2>2. CASE n # m
    <3>1. Tallied(n)
      BY <1>6, <2>2 DEF Tallied
    <3> QED  BY <3>1, TalliedIsKnown
  <2> QED  BY <2>1, <2>2
<1>11. ASSUME NEW a \in Buckets
       PROVE  /\ CountOf(a)' \in Nat
              /\ Cardinality(TalliedIn(a))' <= CountOf(a)'
              /\ CountOf(a)' <= Cardinality(HandOuts(Counts, InBucket(a)))'
  <2>1. PICK T, T1, H, H1, n, B :
          /\ T = TalliedIn(a) /\ T1 = TalliedIn(a)' /\ n = CountOf(a) /\ B = InBucket(a)
          /\ H = HandOuts(Counts, InBucket(a)) /\ H1 = HandOuts(Counts, InBucket(a))'
    OBVIOUS
  <2>2. T1 \subseteq B /\ T = {k \in B : Tallied(k)} /\ T1 = {k \in B : Tallied(k)'} /\ B \subseteq Msgs
    BY <1>7, <2>1 DEF TalliedIn, InBucket
  <2>3. PICK p, p1 : p = tries[Counts] /\ p1 = tries'[Counts]
    OBVIOUS
  <2>4. /\ H = {h \in B \X (1..MaxDeliver) : h[2] <= p[h[1]]}
        /\ H1 = {h \in B \X (1..MaxDeliver) : h[2] <= p1[h[1]]}
    BY <1>7, <2>1, <2>3 DEF HandOuts
  <2>5. p \in [Msgs -> 0..MaxDeliver] /\ p1 \in [Msgs -> 0..MaxDeliver]
    BY <1>1, <2>3 DEF StatsInv, StatsType
  <2>6. p1[m] = p[m] + 1 /\ \A k \in Msgs : k # m => p1[k] = p[k]
    BY <1>3, <2>3
  <2>7. H \subseteq H1
    <3> SUFFICES ASSUME NEW h \in H PROVE h \in H1
      OBVIOUS
    <3>1. h \in B \X (1..MaxDeliver) /\ h[2] <= p[h[1]] /\ h[1] \in Msgs
      BY <2>2, <2>4
    <3>2. p[h[1]] \in Nat /\ p1[h[1]] \in Nat /\ p[h[1]] <= p1[h[1]]
      BY <2>5, <2>6, <3>1
    <3>3. h[2] \in Nat
      BY <3>1
    <3> QED  BY <2>4, <3>1, <3>2, <3>3
  <2>8. T \subseteq Msgs /\ T1 \subseteq Msgs
    BY <2>2
  <2>9. H1 \subseteq Msgs \X (1..MaxDeliver)
    BY <2>2, <2>4
  <2>10. /\ IsFiniteSet(T) /\ Cardinality(T) \in Nat /\ IsFiniteSet(T1) /\ Cardinality(T1) \in Nat
         /\ IsFiniteSet(H1) /\ Cardinality(H1) \in Nat
    BY <2>8, <2>9, FewMessages, FewHandOuts
  <2>11. IsFiniteSet(H) /\ Cardinality(H) \in Nat
    BY <2>7, <2>9, FewHandOuts
  <2>12. n \in Nat /\ Cardinality(T) <= n /\ n <= Cardinality(H)
    BY <2>1 DEF CountInv
  <2>13. CASE a # b
    <3>1. T1 \subseteq T
      BY <1>6, <1>8, <2>2, <2>1, <2>13
    <3>2. Cardinality(T1) <= Cardinality(T) /\ Cardinality(H) <= Cardinality(H1)
      BY <2>7, <2>10, <3>1, FS_Subset
    <3>3. Cardinality(T1) <= n /\ n <= Cardinality(H1)
      BY <2>10, <2>11, <2>12, <3>2
    <3>4. CountOf(a)' = n
      BY <1>5, <2>1, <2>13
    <3> QED  BY <2>1, <2>12, <3>3, <3>4
  <2>14. CASE a = b
    <3>1. T1 \subseteq T \cup {m}
      BY <1>6, <2>2
    <3>2. IsFiniteSet(T \cup {m}) /\ Cardinality(T \cup {m}) <= Cardinality(T) + 1
      <4>1. IsFiniteSet(T \cup {m})
        BY <2>10, FS_AddElement
      <4>2. Cardinality(T \cup {m}) \in {Cardinality(T), Cardinality(T) + 1}
        BY <2>10, FS_AddElement
      <4> QED  BY <2>10, <4>1, <4>2
    <3>3. Cardinality(T1) <= Cardinality(T \cup {m})
      BY <3>1, <3>2, FS_Subset
    <3>4. Cardinality(T \cup {m}) \in Nat
      BY <3>2, FS_CardinalityType
    <3>5. PICK h : h = <<m, p[m] + 1>>
      OBVIOUS
    <3>6. h[1] = m /\ h[2] = p[m] + 1 /\ p[m] \in Nat /\ p[m] + 1 \in 1..MaxDeliver
      BY <1>3, <2>3, <2>5, <3>5
    <3>7. h \notin H
      BY <2>4, <3>6
    <3>8. m \in B
      BY <1>9, <2>1, <2>14
    <3>9. h \in B \X (1..MaxDeliver)
      BY <3>5, <3>6, <3>8
    <3>10. h \in H1
      BY <2>4, <2>6, <3>6, <3>9
    <3>11. H \cup {h} \subseteq H1
      BY <2>7, <3>10
    <3>12. Cardinality(H \cup {h}) = Cardinality(H) + 1
      BY <2>11, <3>7, FS_AddElement
    <3>13. Cardinality(H \cup {h}) <= Cardinality(H1)
      BY <2>10, <3>11, FS_Subset
    <3>14. Cardinality(T1) <= n + 1 /\ n + 1 <= Cardinality(H1) /\ n + 1 \in Nat
      BY <2>10, <2>11, <2>12, <3>2, <3>3, <3>4, <3>12, <3>13
    <3>15. CountOf(a)' = n + 1
      BY <1>5, <2>1, <2>14
    <3> QED  BY <2>1, <3>14, <3>15
  <2> QED  BY <2>13, <2>14
<1>12. DOMAIN counts' \subseteq Buckets
  BY <1>4, <1>5 DEF CountInv
<1> QED  BY <1>10, <1>11, <1>12 DEF CountInv

(* The other steps count nothing, and acknowledge what is in a counter.    *)
LEMMA CountEnds ==
  ASSUME StatsInv, StatsType', CountInv, NEW c \in Consumers, NEW r \in Replicas, NEW m \in Msgs,
         HandedOut(c, r, m), NEW how \in Wires, c = Logs \/ how # "acked", Ends(c, m, how)
  PROVE  CountInv'
<1>1. /\ tries[c][m] + 1 \in 0..MaxDeliver
      /\ tries'[c][m] = tries[c][m] + 1
      /\ \A d \in Consumers, n \in Msgs : d # c \/ n # m => tries'[d][n] = tries[d][n]
      /\ event' = event
  BY HandedOutTries
<1>2. wire' = Settled(c, m, how) /\ UNCHANGED <<handling, counts>>
  BY DEF Ends
<1>3. \A d \in Consumers, n \in Msgs :
        \/ wire'[d][n] = wire[d][n]
        \/ d = c /\ n = m /\ wire'[d][n] = how
  BY <1>2, SettledWire DEF StatsInv
<1>4. \A n \in Msgs : wire'[Counts][n] = "acked" => wire[Counts][n] = "acked"
  BY <1>3, TwoConsumers
<1>5. \A n \in Msgs : Tallied(n)' => Tallied(n)
  BY <1>2, <1>4 DEF Tallied
<1>6. \A n \in Msgs : tries[Counts][n] \in Nat /\ tries'[Counts][n] >= tries[Counts][n]
  BY <1>1, TwoConsumers, StatsAssumption DEF StatsInv, StatsType, StatsAssumption
<1>7. Grows
  BY <1>1 DEF Grows
<1> QED  BY <1>2, <1>5, <1>6, <1>7, CountKept

LEMMA CountHandle ==
  ASSUME StatsInv, StatsType', CountInv, NEW c \in Consumers, NEW m \in Msgs, Handle(c, m)
  PROVE  CountInv'
<1>1. "termed" \in Wires /\ "acked" \in Wires
  BY DEF Wires
<1>2. ASSUME NEW d \in Consumers, NEW r \in Replicas, HandedOut(d, r, m), Nak(d, m)
      PROVE  CountInv'
  <2>1. tries[d][m] + 1 \in 0..MaxDeliver
    BY <1>2, HandedOutTries
  <2>2. PICK how : how = Again(tries[d][m] + 1)
    OBVIOUS
  <2>3. how \in Wires /\ how # "acked"
    BY <2>1, <2>2, AgainSpares
  <2>4. Ends(d, m, how)
    BY <1>2, <2>2 DEF Nak
  <2> QED  BY <1>2, <2>3, <2>4, CountEnds
<1>3. ASSUME NEW r \in Replicas, HandleStatsMsg(r, m)
      PROVE  CountInv'
  <2>1. Logs \in Consumers /\ Counts \in Consumers /\ Logs # Counts
    BY TwoConsumers
  <2>2. HandedOut(Logs, r, m)
    BY <1>3 DEF HandleStatsMsg, Logs
  <2>3. CASE Ends(Logs, m, "termed")
    BY <1>1, <2>1, <2>2, <2>3, CountEnds
  <2>4. CASE Ends(Logs, m, "acked")
    BY <1>1, <2>1, <2>2, <2>4, CountEnds
  <2>5. CASE Nak(Logs, m)
    BY <1>2, <2>1, <2>2, <2>5
  <2>6. CASE Written(Logs, r, m) /\ UNCHANGED counts
    <3>1. /\ wire \in [Consumers -> [Msgs -> Wires]]
          /\ handling \in [Consumers -> [Replicas -> Msgs \cup {None}]]
      BY DEF StatsInv, StatsType
    <3>2. wire'[Counts] = wire[Counts] /\ handling'[Counts] = handling[Counts]
      BY <2>1, <2>6, <3>1 DEF Written
    <3>3. event' = event /\ \A n \in Msgs : tries'[Counts][n] = tries[Counts][n]
      BY <2>1, <2>2, HandedOutTries
    <3>4. \A n \in Msgs : tries[Counts][n] \in Nat
      BY <2>1, StatsAssumption DEF StatsInv, StatsType, StatsAssumption
    <3>5. \A n \in Msgs : tries'[Counts][n] >= tries[Counts][n]
      BY <3>3, <3>4
    <3>6. Grows /\ \A n \in Msgs : Tallied(n)' => Tallied(n)
      BY <3>2, <3>3 DEF Grows, Tallied
    <3> QED  BY <2>6, <3>5, <3>6, CountKept
  <2> QED  BY <1>3, <2>3, <2>4, <2>5, <2>6, Zenon DEF HandleStatsMsg, Logs
<1>4. ASSUME NEW r \in Replicas, HandleAggregatedStatsMsg(r, m)
      PROVE  CountInv'
  <2>1. Counts \in Consumers
    BY TwoConsumers
  <2>2. HandedOut(Counts, r, m)
    BY <1>4 DEF HandleAggregatedStatsMsg, Counts
  <2>3. CASE Ends(Counts, m, "termed")
    BY <1>1, <2>1, <2>2, <2>3, CountEnds
  <2>4. CASE Nak(Counts, m)
    BY <1>2, <2>1, <2>2, <2>4
  <2>5. CASE Readable(event[m]) /\ IncrementAggregatedStat(Bucket(event[m])) /\ Written(Counts, r, m)
    BY <2>2, <2>5, CountWritten
  <2> QED  BY <1>4, <2>3, <2>4, <2>5, Zenon DEF HandleAggregatedStatsMsg, Counts
<1> QED  BY <1>3, <1>4, Zenon DEF Handle

LEMMA CountAck ==
  ASSUME StatsInv, StatsType', CountInv, NEW c \in Consumers, NEW r \in Replicas, Ack(c, r)
  PROVE  CountInv'
<1>1. /\ wire \in [Consumers -> [Msgs -> Wires]]
      /\ handling \in [Consumers -> [Replicas -> Msgs \cup {None}]]
  BY DEF StatsInv, StatsType
<1>2. PICK m : m = handling[c][r]
  OBVIOUS
<1>3. m \in Msgs
  BY <1>1, <1>2 DEF Ack
<1>4. PICK how : how = "acked" /\ how \in Wires
  BY DEF Wires
<1>5. wire' = Settled(c, m, how)
  BY <1>2, <1>4 DEF Ack
<1>6. \A d \in Consumers, n \in Msgs : wire'[d][n] = wire[d][n] \/ (d = c /\ n = m)
  <2>1. \A d \in Consumers, n \in Msgs :
          \/ wire'[d][n] = wire[d][n]
          \/ d = c /\ n = m /\ wire'[d][n] = how /\ wire[d][n] # "none"
    BY <1>3, <1>4, <1>5, SettledWire DEF StatsInv
  <2> QED  BY <2>1
<1>7. handling' = [handling EXCEPT ![c][r] = None] /\ UNCHANGED <<event, tries, counts>>
  BY DEF Ack
<1>8. \A x \in Replicas : handling'[Counts][x] \in {handling[Counts][x], None}
  <2>1. Counts \in Consumers
    BY TwoConsumers
  <2> QED  BY <1>1, <1>7, <2>1
<1>9. \A n \in Msgs : Tallied(n)' => Tallied(n)
  BY <1>2, <1>6, <1>8, TwoConsumers, NoneAssumption DEF Tallied, NoneAssumption
<1>10. \A n \in Msgs : tries'[Counts][n] >= tries[Counts][n]
  BY <1>7, TwoConsumers, StatsAssumption DEF StatsInv, StatsType, StatsAssumption
<1>11. Grows
  BY <1>7 DEF Grows
<1> QED  BY <1>7, <1>9, <1>10, <1>11, CountKept

(* Messages go back to the queue, or are given up; a replica stops.        *)
LEMMA CountMoves ==
  ASSUME StatsInv, StatsType', CountInv, UNCHANGED <<event, tries, counts>>,
         \A n \in Msgs : wire'[Counts][n] = "acked" => wire[Counts][n] = "acked",
         \A x \in Replicas : handling'[Counts][x] \in {handling[Counts][x], None}
  PROVE  CountInv'
<1>1. \A n \in Msgs : Tallied(n)' => Tallied(n)
  BY NoneAssumption DEF Tallied, NoneAssumption
<1>2. \A n \in Msgs : tries'[Counts][n] >= tries[Counts][n]
  BY TwoConsumers, StatsAssumption DEF StatsInv, StatsType, StatsAssumption
<1>3. Grows
  BY DEF Grows
<1> QED  BY <1>1, <1>2, <1>3, CountKept

LEMMA CountRedeliver ==
  ASSUME StatsInv, StatsType', CountInv, NEW c \in Consumers, NEW m \in Msgs, Redeliver(c, m)
  PROVE  CountInv'
<1>1. /\ wire \in [Consumers -> [Msgs -> Wires]] /\ tries[c][m] \in 0..MaxDeliver
  BY DEF StatsInv, StatsType
<1>2. PICK how : how = Again(tries[c][m])
  OBVIOUS
<1>3. how \in Wires /\ how # "acked"
  BY <1>1, <1>2, AgainSpares
<1>4. wire' = [wire EXCEPT ![c][m] = how] /\ UNCHANGED <<event, tries, handling, counts>>
  BY <1>2 DEF Redeliver
<1>5. \A d \in Consumers, n \in Msgs : wire'[d][n] = IF d = c /\ n = m THEN how ELSE wire[d][n]
  BY <1>1, <1>3, <1>4
<1>6. \A n \in Msgs : wire'[Counts][n] = "acked" => wire[Counts][n] = "acked"
  BY <1>3, <1>5, TwoConsumers
<1> QED  BY <1>4, <1>6, CountMoves

LEMMA CountStops ==
  ASSUME StatsInv, StatsType', CountInv, NEW r \in Replicas, Stops(r)
  PROVE  CountInv'
<1>1. handling' = [c \in Consumers |-> [handling[c] EXCEPT ![r] = None]] /\ UNCHANGED <<event, tries, counts>>
  BY DEF Stops
<1>2. \A x \in Replicas : handling'[Counts][x] \in {handling[Counts][x], None}
  BY <1>1, TwoConsumers DEF StatsInv, StatsType
<1>3. \A n \in Msgs : wire'[Counts][n] = "acked" => wire[Counts][n] = "acked"
  BY StopsMoves, TwoConsumers
<1> QED  BY <1>1, <1>2, <1>3, CountMoves

LEMMA CountPublish ==
  ASSUME StatsInv, StatsType', CountInv, NEW m \in Msgs, NEW k \in Kinds, Publish(m, k)
  PROVE  CountInv'
<1>1. /\ event \in [Msgs -> Events \cup {None}]
      /\ wire \in [Consumers -> [Msgs -> Wires]]
  BY DEF StatsInv, StatsType
<1>2. PICK e : e = ToEvent(k, now)
  OBVIOUS
<1>3. event[m] = None /\ event' = [event EXCEPT ![m] = e] /\ UNCHANGED <<tries, handling, counts>>
  BY <1>2 DEF Publish
<1>4. Grows
  BY <1>1, <1>3 DEF Grows
<1>5. wire' = [c \in Consumers |-> [wire[c] EXCEPT ![m] = "queued"]]
  BY DEF Publish
<1>6. \A n \in Msgs : wire'[Counts][n] = IF n = m THEN "queued" ELSE wire[Counts][n]
  BY <1>1, <1>5, TwoConsumers
<1>7. \A n \in Msgs : Tallied(n)' => Tallied(n)
  BY <1>3, <1>6 DEF Tallied
<1>8. \A n \in Msgs : tries'[Counts][n] >= tries[Counts][n]
  BY <1>3, TwoConsumers, StatsAssumption DEF StatsInv, StatsType, StatsAssumption
<1> QED  BY <1>3, <1>4, <1>7, <1>8, CountKept

LEMMA CountStep ==
  ASSUME StatsInv, StatsInv', CountInv, [StatsNext]_statVars
  PROVE  CountInv'
<1>1. StatsType'
  BY DEF StatsInv
<1>2. ASSUME UNCHANGED <<event, wire, tries, handling, counts>> PROVE CountInv'
  BY <1>1, <1>2, CountMoves
<1>3. CASE UNCHANGED statVars
  BY <1>2, <1>3 DEF statVars, workerVars
<1>4. CASE \E m \in Msgs, k \in Kinds : Publish(m, k)
  BY <1>1, <1>4, CountPublish
<1>5. CASE \E c \in Consumers, m \in Msgs : Handle(c, m) \/ Redeliver(c, m)
  BY <1>1, <1>5, CountHandle, CountRedeliver
<1>6. CASE \E c \in Consumers, r \in Replicas : Ack(c, r)
  BY <1>1, <1>6, CountAck
<1>7. CASE \E r \in Replicas : Crash(r) \/ CleanupCycle(r)
  BY <1>1, <1>2, <1>7, CountStops DEF Crash, CleanupCycle
<1>8. CASE \E span \in Spans, page \in Pages : GetStats(span.domain, span.from, span.to, page)
  BY <1>2, <1>8 DEF GetStats, workerVars
<1>9. CASE CountStats \/ Tick
  BY <1>2, <1>9 DEF CountStats, Tick, workerVars
<1> QED  BY <1>3, <1>4, <1>5, <1>6, <1>7, <1>8, <1>9 DEF StatsNext

-----------------------------------------------------------------------------
(* The administrator may read whatever is named in full, so that v2        *)
(* answers wherever v1 does.                                               *)
LEMMA ReadsWhatIsNamed ==
  ASSUME NEW r
  PROVE  Allowed("read", r) <=> ResourceIsWellFormed(r)
<1>1. PICK g : g = Grant("admin", RootAnchor)
  OBVIOUS
<1>2. AdminReader.grants = {g} /\ AdminReader.attribution = NoClaim /\ AdminReader # NoPrincipal
  BY <1>1 DEF AdminReader, NewPrincipal, NoPrincipal
<1>3. g.role = "admin" /\ g.anchor = RootAnchor
  BY <1>1 DEF Grant
<1>4. "admin" \in RoleNames /\ "read" \in catalogue["admin"].actions /\ catalogue["admin"].suffix = <<>>
  BY DEF RoleNames, catalogue, allActions
<1>5. extend(RootAnchor, <<>>).everything
  BY DEF extend, RootAnchor, Anchor
<1>6. patternCovers(extend(RootAnchor, <<>>), r) <=> ResourceIsWellFormed(r)
  BY <1>5 DEF patternCovers
<1>7. Can(AdminReader, "read", r) <=> ResourceIsWellFormed(r)
  BY <1>2, <1>3, <1>4, <1>6, Zenon DEF Can
<1>8. Decide(AdminReader, "read", r) = "allowed" <=> Can(AdminReader, "read", r)
  BY <1>2, Zenon DEF Decide
<1> QED  BY <1>7, <1>8 DEF Allowed

LEMMA Joined ==
  ASSUME NEW S, NEW h \in Seq(S), NEW t \in Seq(S), NEW r, r = h \o t
  PROVE  /\ DOMAIN r = 1..Len(h) + Len(t) /\ r \in Seq(S)
         /\ \A i \in 1..Len(h) + Len(t) : r[i] = IF i <= Len(h) THEN h[i] ELSE t[i - Len(h)]
<1>1. r \in Seq(S) /\ Len(r) = Len(h) + Len(t)
  BY ConcatProperties
<1>2. \A i \in 1..Len(h) + Len(t) : r[i] = IF i <= Len(h) THEN h[i] ELSE t[i - Len(h)]
  BY ConcatProperties
<1> QED  BY <1>1, <1>2

LEMMA LongerName ==
  ASSUME NEW a, NEW d, NEW s, NEW g, NEW p, NEW q, p = <<a, d>> \o <<s>>, q = <<a, d>> \o <<s, g>>
  PROVE  /\ DOMAIN p = 1..3 /\ p[1] = a /\ p[2] = d /\ p[3] = s
         /\ DOMAIN q = 1..4 /\ q[1] = a /\ q[2] = d /\ q[3] = s /\ q[4] = g
<1>1. PICK S : S = {a, d, s, g}
  OBVIOUS
<1>2. PICK h, t, u : h = <<a, d>> /\ t = <<s>> /\ u = <<s, g>>
  OBVIOUS
<1>3. /\ h \in Seq(S) /\ Len(h) = 2 /\ h[1] = a /\ h[2] = d
      /\ t \in Seq(S) /\ Len(t) = 1 /\ t[1] = s
      /\ u \in Seq(S) /\ Len(u) = 2 /\ u[1] = s /\ u[2] = g
  BY <1>1, <1>2
<1>4. p = h \o t /\ q = h \o u
  BY <1>2, Zenon
<1>5. /\ DOMAIN p = 1..Len(h) + Len(t)
      /\ \A i \in 1..Len(h) + Len(t) : p[i] = IF i <= Len(h) THEN h[i] ELSE t[i - Len(h)]
  BY <1>3, <1>4, Joined
<1>6. /\ DOMAIN q = 1..Len(h) + Len(u)
      /\ \A i \in 1..Len(h) + Len(u) : q[i] = IF i <= Len(h) THEN h[i] ELSE u[i - Len(h)]
  BY <1>3, <1>4, Joined
<1> QED  BY <1>3, <1>5, <1>6
LEMMA NamedAlike ==
  ASSUME NEW d, ResourceIsWellFormed(Stats(d))
  PROVE  ResourceIsWellFormed(AggregatedStats(d))
<1>1. PICK p, q : p = Stats(d) /\ q = AggregatedStats(d)
  OBVIOUS
<1>2. PICK a, s, g, blank : a = "domains" /\ s = "stats" /\ g = "aggregated" /\ blank = ""
  OBVIOUS
<1>3. p = <<a, d>> \o <<s>> /\ q = <<a, d>> \o <<s, g>>
  BY <1>1, <1>2, Zenon DEF Stats, AggregatedStats, under
<1>4. /\ DOMAIN p = 1..3 /\ p[1] = a /\ p[2] = d /\ p[3] = s
      /\ DOMAIN q = 1..4 /\ q[1] = a /\ q[2] = d /\ q[3] = s /\ q[4] = g
  BY <1>3, LongerName
<1>5. a # blank /\ s # blank /\ g # blank
  BY <1>2
<1>6. \A i \in DOMAIN p : p[i] # blank
  BY <1>1, <1>2, Zenon DEF ResourceIsWellFormed
<1>7. d # blank
  BY <1>4, <1>6
<1>8. \A i \in DOMAIN q : q[i] # blank
  BY <1>4, <1>5, <1>7
<1>9. q # <<>>
  BY <1>4
<1> QED  BY <1>1, <1>2, <1>8, <1>9, Zenon DEF ResourceIsWellFormed

(* The rows of a bucket are of different events of it.                     *)
LEMMA RowsAreEvents ==
  ASSUME StatsInv, NEW b, NEW R, R \subseteq filed, \A s \in R : BucketOf(s) = b
  PROVE  IsFiniteSet(R) /\ Cardinality(R) <= Cardinality(InBucket(b))
<1>1. PICK B : B = InBucket(b)
  OBVIOUS
<1>2. B \subseteq Msgs /\ IsFiniteSet(B)
  BY <1>1, BucketSets, FewMessages
<1>3. IsFiniteSet(R)
  BY FS_Subset DEF StatsInv, StatsType
<1>4. \A s \in R : \E m \in B : s = NewStat(event[m])
  <2> TAKE s \in R
  <2>1. PICK m \in Msgs : event[m] # None /\ s = NewStat(event[m]) /\ Readable(event[m])
    BY Zenon DEF StatsInv, FiledInv, Sourced
  <2>2. PICK e : e = event[m]
    OBVIOUS
  <2>3. s.domain = e.domain /\ s.at = e.at /\ s.type = Type(e.outcome)
    BY <2>1, <2>2, StatFields
  <2>4. Bucket(e) = BucketOf(s)
    BY <2>3 DEF Bucket, BucketOf
  <2>5. m \in B
    BY <1>1, <2>1, <2>2, <2>4 DEF InBucket
  <2> QED  BY <2>1, <2>5
<1>5. PICK f : f = [s \in R |-> CHOOSE m \in B : s = NewStat(event[m])]
  OBVIOUS
<1>6. \A s \in R : f[s] \in B /\ s = NewStat(event[f[s]])
  BY <1>4, <1>5
<1>7. f \in Injection(R, B)
  <2>1. f \in [R -> B]
    BY <1>5, <1>6
  <2>2. \A s, t \in R : f[s] = f[t] => s = t
    BY <1>6
  <2> QED  BY <2>1, <2>2 DEF Injection, IsInjective
<1>8. Cardinality(R) <= Cardinality(B)
  BY <1>2, <1>7, FS_Injection
<1> QED  BY <1>1, <1>3, <1>8

LEMMA Timelines ==
  ASSUME StatsInv, CountInv, NEW b \in Buckets,
         \A m \in InBucket(b) : wire[Counts][m] = "acked",
         NEW v1, v1 = GetStatsAggregated(b.domain, b.hour, b.hour + HourLength), b \in DOMAIN v1,
         NEW v2, v2 = GetAggregatedStats(b.domain, b.hour, b.hour + HourLength)
  PROVE  b \in DOMAIN v2 /\ v1[b] <= v2[b]
<1> USE StatsAssumption DEF StatsAssumption
<1>1. PICK d, from : d = b.domain /\ from = b.hour
  OBVIOUS
<1>2. Allowed("read", Stats(d)) /\ v1 = QueryStatsTimeline(d, from, from + HourLength)
  <2>1. v1 = IF Allowed("read", Stats(d)) THEN QueryStatsTimeline(d, from, from + HourLength) ELSE <<>>
    BY <1>1, Zenon DEF GetStatsAggregated
  <2>2. DOMAIN <<>> = {}
    OBVIOUS
  <2>3. v1 # <<>>
    BY <2>2
  <2> QED  BY <2>1, <2>3, Zenon
<1>3. Allowed("read", AggregatedStats(d))
  BY <1>2, ReadsWhatIsNamed, NamedAlike
<1>4. from \in Int
  <2>1. PICK e \in Events : b = Bucket(e)
    BY DEF Buckets
  <2>2. e.at \in 0..MaxTime
    BY EventFields
  <2>3. PICK t : t = e.at
    OBVIOUS
  <2>4. b.hour = Hour(t)
    BY <2>1, <2>3 DEF Bucket
  <2>5. t \div HourLength \in Int
    BY <2>2, <2>3
  <2>6. Hour(t) \in Int
    BY <2>5 DEF Hour
  <2> QED  BY <1>1, <2>4, <2>6
<1>5. from < from + HourLength
  BY <1>4
<1>6. v2 = QueryAggregatedStats(d, from, from + HourLength)
  BY <1>1, <1>3, <1>5, Zenon DEF GetAggregatedStats
<1>7. PICK R : R = {s \in Matching(d, from, from + HourLength) : BucketOf(s) = b}
  OBVIOUS
<1>8. v1[b] = Cardinality(R) /\ R # {}
  <2>1. PICK M : M = Matching(d, from, from + HourLength)
    OBVIOUS
  <2>2. v1 = [a \in {BucketOf(s) : s \in M} |-> Cardinality({s \in M : BucketOf(s) = a})]
    BY <1>2, <2>1, Zenon DEF QueryStatsTimeline
  <2>3. b \in {BucketOf(s) : s \in M}
    BY <2>2
  <2>4. v1[b] = Cardinality({s \in M : BucketOf(s) = b})
    BY <2>2, <2>3
  <2> QED  BY <1>7, <2>1, <2>3, <2>4
<1>9. R \subseteq filed
  BY <1>7 DEF Matching
<1>10. IsFiniteSet(R) /\ Cardinality(R) <= Cardinality(InBucket(b))
  BY <1>7, <1>9, RowsAreEvents
<1>11. InBucket(b) = TalliedIn(b)
  BY DEF TalliedIn, Tallied
<1>12. CountOf(b) \in Nat /\ Cardinality(TalliedIn(b)) <= CountOf(b)
  BY DEF CountInv
<1>13. Cardinality(R) \in Nat /\ Cardinality(R) # 0 /\ Cardinality(InBucket(b)) \in Nat
  BY <1>8, <1>10, FS_CardinalityType, FS_EmptySet, BucketSets, FewMessages
<1>14. Cardinality(R) <= CountOf(b) /\ CountOf(b) # 0
  BY <1>10, <1>11, <1>12, <1>13
<1>15. b \in DOMAIN counts /\ CountOf(b) = counts[b]
  BY <1>14 DEF CountOf
<1>16. b.domain = d /\ b.hour >= from /\ b.hour < from + HourLength
  BY <1>1, <1>4
<1>17. b \in DOMAIN v2 /\ v2[b] = counts[b]
  BY <1>6, <1>15, <1>16 DEF QueryAggregatedStats
<1> QED  BY <1>8, <1>14, <1>15, <1>17

(* A counter has every event that was acknowledged, counts none more often *)
(* than it was handed out, and shows at least what the rows show, whatever *)
(* is lost, repeated or swept (handleAggregatedStatsMsg,                   *)
(* IncrementAggregatedStat, GetStatsAggregated, GetAggregatedStats).       *)
THEOREM CountersAreSound == StatsSpec => []CountsEveryEvent
<1>1. StatsInit => CountInv
  <2> SUFFICES ASSUME StatsInit PROVE CountInv
    OBVIOUS
  <2> USE StatsAssumption DEF StatsAssumption
  <2>1. /\ event = [m \in Msgs |-> None] /\ counts = <<>>
        /\ \A r \in Replicas : handling[Counts][r] = None
    BY TwoConsumers DEF StatsInit
  <2>2. \A b : CountOf(b) = 0
    BY <2>1 DEF CountOf
  <2>3. \A b : InBucket(b) = {} /\ TalliedIn(b) = {} /\ HandOuts(Counts, InBucket(b)) = {}
    BY <2>1 DEF InBucket, TalliedIn, HandOuts
  <2>4. DOMAIN counts = {}
    BY <2>1
  <2>5. \A r \in Replicas, m \in Msgs : handling[Counts][r] # m
    BY <2>1, NoneAssumption DEF NoneAssumption
  <2>6. \A b \in Buckets :
          /\ CountOf(b) \in Nat
          /\ Cardinality(TalliedIn(b)) <= CountOf(b)
          /\ CountOf(b) <= Cardinality(HandOuts(Counts, InBucket(b)))
    <3> TAKE b \in Buckets
    <3>1. CountOf(b) = 0 /\ TalliedIn(b) = {} /\ HandOuts(Counts, InBucket(b)) = {}
      BY <2>2, <2>3, Zenon
    <3>2. Cardinality({}) = 0
      BY FS_EmptySet
    <3>3. Cardinality(TalliedIn(b)) = 0 /\ Cardinality(HandOuts(Counts, InBucket(b))) = 0
      BY <3>1, <3>2, Zenon
    <3> QED  BY <3>1, <3>3
  <2> QED  BY <2>4, <2>5, <2>6 DEF CountInv
<1>2. StatsInv /\ StatsInv' /\ CountInv /\ [StatsNext]_statVars => CountInv'
  BY CountStep
<1>3. StatsInv /\ CountInv => CountsEveryEvent
  <2> SUFFICES ASSUME StatsInv, CountInv PROVE CountsEveryEvent
    OBVIOUS
  <2>1. PICK K : K = DOMAIN counts \cup {Bucket(event[m]) : m \in {m \in Msgs : event[m] # None /\ Readable(event[m])}}
    OBVIOUS
  <2>2. K \subseteq Buckets
    BY <2>1 DEF Buckets, CountInv, StatsInv, StatsType
  <2>3. ASSUME NEW b \in K
        PROVE  LET members == InBucket(b)
                   v1 == GetStatsAggregated(b.domain, b.hour, b.hour + HourLength)
                   v2 == GetAggregatedStats(b.domain, b.hour, b.hour + HourLength)
               IN  /\ Cardinality({m \in members : wire[Counts][m] = "acked"}) <= CountOf(b)
                   /\ CountOf(b) <= Cardinality(HandOuts(Counts, members))
                   /\ (\A m \in members : wire[Counts][m] = "acked") /\ b \in DOMAIN v1
                        => b \in DOMAIN v2 /\ v1[b] <= v2[b]
    <3> DEFINE A == {m \in InBucket(b) : wire[Counts][m] = "acked"}
    <3>1. b \in Buckets
      BY <2>2
    <3>2. A \subseteq TalliedIn(b)
      BY DEF TalliedIn, Tallied
    <3>3. Cardinality(A) <= Cardinality(TalliedIn(b))
      BY <3>2, BucketSets, FewMessages, FS_Subset
    <3>4. Cardinality(A) \in Nat /\ Cardinality(TalliedIn(b)) \in Nat
      BY <3>2, BucketSets, FewMessages
    <3>5. CountOf(b) \in Nat /\ Cardinality(TalliedIn(b)) <= CountOf(b)
      BY <3>1 DEF CountInv
    <3>6. Cardinality(A) <= CountOf(b)
      BY <3>3, <3>4, <3>5
    <3>7. CountOf(b) <= Cardinality(HandOuts(Counts, InBucket(b)))
      BY <3>1 DEF CountInv
    <3> QED  BY <3>1, <3>6, <3>7, Timelines
  <2> QED  BY <2>1, <2>3, Zenon DEF CountsEveryEvent, Counts
<1> QED  BY <1>1, <1>2, <1>3, StatsInvariant, PTL DEF StatsSpec

=============================================================================
