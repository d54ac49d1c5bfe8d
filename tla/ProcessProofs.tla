---------------------------- MODULE ProcessProofs -----------------------------
(***************************************************************************)
(* A process, for any installation, pod and size of its pool: its types,    *)
(* that the sends its SMTPSender has taken on finish first, that it closes  *)
(* what it made and nothing under anybody's feet, and that only what its    *)
(* own runnables need can stop it.                                          *)
(***************************************************************************)
EXTENDS Process, SequenceTheorems, TLAPS

-----------------------------------------------------------------------------
(* The steps a thread may have left.                                       *)
MayMust ==
  {"db"} \cup (IF NeedsNats THEN {"nats"} ELSE {}) \cup (IF "sender" \in services THEN {"sender"} ELSE {})

Opens == {Open(r) : r \in Singletons}
Mades == {Made(r) : r \in Singletons}
Musts == {Must(r) : r \in MayMust}
Sets == {{"max_jobs"}, {"retention"}, {"port"}, {"address"}, AuditFields}
Configs == {Section(s, f) : s \in services, f \in Sets}
Ensures == {Ensure(n) : n \in 1 .. Attempts}

StepsOf(t) ==
  Opens \cup Mades \cup Musts \cup {Try("embedded"), Provision, Checked("jetstream")}
  \cup (IF t = Boot THEN Configs ELSE {Stop})
  \cup (IF t = "api" THEN {Token} ELSE {})
  \cup (IF t = "api" /\ AuditEnabled THEN {Try("nats"), Configure} ELSE {})
  \cup (IF t # Boot /\ NeedsNats THEN {Demand} \cup Ensures ELSE {})

(* A factory's steps stand together, and before all the others.            *)
Making(st) == st \in Opens \cup Mades \cup {Provision, Try("embedded")}
Bound(st)  == st \in Opens \cup {Provision, Try("embedded"), Try("nats")}

Follows(a, b) ==
  /\ \A r \in Singletons : a = Open(r) => b = Made(r) \/ (r = "nats" /\ b = Provision)
  /\ a = Provision => b = Made("nats")
  /\ a = Try("embedded") => b = Open("nats")
  /\ a = Try("nats") => b = Checked("jetstream")

Shaped(s) ==
  \A i \in 1 .. Len(s) :
    /\ Bound(s[i]) => i + 1 <= Len(s) /\ Follows(s[i], s[i + 1])
    /\ ~Making(s[i]) => \A j \in i + 1 .. Len(s) : s[j] \notin Mades

-----------------------------------------------------------------------------
(* The parts of the invariant.                                             *)
Procs == {"starting", "booting", "running", "closing", "exited", "panicked", "ended", "timed out"}

ShapeInv ==
  /\ pod \in Pods /\ proc \in Procs /\ services \subseteq Services /\ returned \subseteq services
  /\ cancelled \in BOOLEAN
  /\ once \in [Singletons -> {"none", "making", "made", "failed"}]
  /\ open \subseteq closers \cap Singletons
  /\ DOMAIN todo = Threads /\ todo = [t \in Threads |-> todo[t]]
  /\ \A t \in Threads : todo[t] \in Seq(StepsOf(t)) /\ Shaped(todo[t])

(* Who has something left to do, by what the process is doing.             *)
PhaseInv ==
  /\ proc = "starting" => todo[Boot] = <<>> /\ services = {} /\ cause = NoCause
  /\ proc \in {"starting", "booting", "closing", "ended", "timed out"} => \A s \in Services : todo[s] = <<>>
  /\ proc \in {"starting", "booting"} => returned = {}
  /\ proc = "running" => todo[Boot] = <<>>
  /\ \A s \in Services : s \in returned \/ s \notin services => todo[s] = <<>>
  /\ proc \in {"closing", "ended", "timed out"} => \A i \in 1 .. Len(todo[Boot]) : todo[Boot][i] \notin Mades
  /\ proc = "ended" => open = {}

(* Who makes a singleton has its return to come, and nobody else has.      *)
MakeInv ==
  /\ \A r \in Singletons : once[r] = "making" =>
       \E t \in Threads : \E i \in 1 .. Len(todo[t]) : todo[t][i] = Made(r)
  /\ \A r \in Singletons : \A t \in Threads : \A i \in 1 .. Len(todo[t]) :
       todo[t][i] = Made(r) => once[r] = "making"
  /\ \A r \in Singletons : \A t, u \in Threads : \A i \in 1 .. Len(todo[t]), j \in 1 .. Len(todo[u]) :
       todo[t][i] = Made(r) /\ todo[u][j] = Made(r) => t = u /\ i = j

(* The WaitGroup counts what was taken on; once it was waited for, nothing *)
(* of what was taken on before is left.                                    *)
Phases == {"idle", "serving", "blocked", "released", "waited", "closed"}
Pools == [phase : Phases, wg : Nat, waiting : {"none", "early", "late"}, early : Nat, late : Nat]

Queued(p)  == IF p.waiting = "none" THEN 0 ELSE 1
Tally(p)   == p \in Pools /\ p.wg = p.early + p.late + Queued(p) /\ p.early + p.late <= MaxJobs
Settled(p) == p.early = 0 /\ p.waiting # "early"
Used(p)    == p.phase # "idle"
Ending(p)  == p.phase \notin {"idle", "serving"}
Past(p)    == p.phase \in {"waited", "closed"}
Resting(p) == p.phase \in {"idle", "closed"}

InUse   == "sender" \in services /\ todo["sender"] = <<>> /\ proc \notin {"starting", "booting"}
Closing == proc \in {"closing", "ended", "timed out"}

PoolInv ==
  /\ Tally(pool)
  /\ ~Used(pool) => pool.wg = 0
  /\ Past(pool) => Settled(pool)
  /\ "sender" \in returned => Resting(pool)
  /\ Ending(pool) => cancelled
  /\ Used(pool) => InUse
  /\ Closing => Resting(pool)

(* A context is cancelled for a reason.                                    *)
CauseInv == StoppedByItsOwn /\ (cancelled => cause # NoCause)

ProcessInv == ShapeInv /\ PhaseInv /\ MakeInv /\ PoolInv /\ CauseInv

-----------------------------------------------------------------------------
(* Facts about steps and lists of steps.                                   *)
LEMMA OpOf ==
  /\ \A r : Open(r).op = "open" /\ Open(r).of = r /\ Made(r).op = "made" /\ Made(r).of = r
  /\ \A r : Must(r).op = "must" /\ Must(r).of = r /\ Try(r).op = "try" /\ Try(r).of = r
  /\ \A s, f : Section(s, f).op = "section" /\ Section(s, f).of = s
  /\ \A n : Ensure(n).op = "ensure" /\ Ensure(n).left = n
  /\ \A c : Checked(c).op = "check"
  /\ Provision.op = "provision" /\ Demand.op = "demand" /\ Token.op = "token" /\ Stop.op = "stop"
  /\ Configure.op = "configure"
BY DEF Open, Made, Must, Try, Section, Ensure, Checked, Provision, Demand, Token, Stop, Configure

(* What the name of a step says of it.                                     *)
LEMMA StepCases ==
  ASSUME NEW t, NEW st \in StepsOf(t)
  PROVE  /\ st.op = "open" => \E r \in Singletons : st = Open(r)
         /\ st.op = "made" => \E r \in Singletons : st = Made(r)
         /\ st.op = "must" => \E r \in MayMust : st = Must(r)
         /\ st.op = "try" => st = Try("embedded") \/ (t = "api" /\ AuditEnabled /\ st = Try("nats"))
         /\ st.op = "section" => t = Boot /\ st.of \in services
         /\ st.op = "ensure" => t # Boot /\ NeedsNats /\ \E n \in 1 .. Attempts : st = Ensure(n)
         /\ st.op = "demand" => t # Boot /\ NeedsNats
         /\ st.op = "token" => t = "api"
         /\ st.op = "provision" => st = Provision
         /\ st.op = "stop" => t # Boot
<1>1. CASE st \in Opens BY <1>1, OpOf DEF Opens
<1>2. CASE st \in Mades BY <1>2, OpOf DEF Mades
<1>3. CASE st \in Musts BY <1>3, OpOf DEF Musts
<1>4. CASE st \in {Try("embedded"), Provision, Checked("jetstream")} BY <1>4, OpOf
<1>5. CASE t = Boot /\ st \in Configs BY <1>5, OpOf DEF Configs
<1>6. CASE t # Boot /\ st = Stop BY <1>6, OpOf
<1>9. CASE t = "api" /\ AuditEnabled /\ st \in {Try("nats"), Configure} BY <1>9, OpOf
<1>7. CASE t = "api" /\ st = Token BY <1>7, OpOf
<1>8. CASE t # Boot /\ NeedsNats /\ st \in {Demand} \cup Ensures BY <1>8, OpOf DEF Ensures
<1> QED BY <1>1, <1>2, <1>3, <1>4, <1>5, <1>6, <1>7, <1>8, <1>9 DEF StepsOf

LEMMA Kinds ==
  ASSUME NEW st
  PROVE  /\ st.op # "made" => st \notin Mades
         /\ st.op \notin {"open", "made", "provision", "try"} => ~Making(st) /\ ~Bound(st)
         /\ st.op # "made" => \A r : st # Made(r)
<1>1. st.op # "made" => \A r : st # Made(r)
  BY OpOf
<1>2. ASSUME st.op \notin {"open", "made", "provision", "try"}
      PROVE  ~Making(st) /\ ~Bound(st)
  BY <1>2, OpOf DEF Making, Bound, Opens, Mades
<1> QED BY <1>1, <1>2 DEF Mades

LEMMA MadeIsOne == \A r, q : Made(r) = Made(q) => r = q
BY OpOf

(* A suffix of a list keeps its shape.                                     *)
LEMMA ShapedSuffix ==
  ASSUME NEW S, NEW s \in Seq(S), Shaped(s), NEW k \in 0 .. Len(s)
  PROVE  /\ SubSeq(s, k + 1, Len(s)) \in Seq(S) /\ Shaped(SubSeq(s, k + 1, Len(s)))
         /\ Len(SubSeq(s, k + 1, Len(s))) = Len(s) - k
         /\ \A i \in 1 .. Len(s) - k : SubSeq(s, k + 1, Len(s))[i] = s[i + k]
<1> DEFINE u == SubSeq(s, k + 1, Len(s))
<1>1. u \in Seq(S) /\ Len(u) = Len(s) - k
  OBVIOUS
<1>2. \A i \in 1 .. Len(s) - k : u[i] = s[i + k]
  OBVIOUS
<1> HIDE DEF u
<1>3. ASSUME NEW i \in 1 .. Len(u)
      PROVE  /\ Bound(u[i]) => i + 1 <= Len(u) /\ Follows(u[i], u[i + 1])
             /\ ~Making(u[i]) => \A j \in i + 1 .. Len(u) : u[j] \notin Mades
  <2>1. u[i] = s[i + k] /\ i + k \in 1 .. Len(s) /\ Len(s) \in Nat
    BY <1>1, <1>2
  <2>2. ASSUME Bound(u[i]) PROVE i + 1 <= Len(u) /\ Follows(u[i], u[i + 1])
    <3>1. i + k + 1 <= Len(s) /\ Follows(s[i + k], s[i + k + 1])
      BY <2>1, <2>2 DEF Shaped
    <3>2. i + 1 \in 1 .. Len(s) - k
      BY <3>1, <2>1, <1>1
    <3>3. u[i + 1] = s[i + 1 + k]
      BY <3>2, <1>2
    <3>4. i + 1 + k = i + k + 1
      OBVIOUS
    <3> QED BY <3>1, <3>2, <3>3, <3>4, <2>1, <1>1
  <2>3. ASSUME ~Making(u[i]), NEW j \in i + 1 .. Len(u) PROVE u[j] \notin Mades
    <3>1. \A m \in i + k + 1 .. Len(s) : s[m] \notin Mades
      BY <2>1, <2>3 DEF Shaped
    <3>2. j \in 1 .. Len(s) - k /\ j + k \in i + k + 1 .. Len(s)
      BY <1>1, <2>1
    <3>3. u[j] = s[j + k]
      BY <3>2, <1>2
    <3> QED BY <3>1, <3>2, <3>3
  <2> QED BY <2>2, <2>3
<1>4. Shaped(u)
  BY <1>3 DEF Shaped
<1> QED BY <1>1, <1>2, <1>4 DEF u

(* A list with no factory's step and no bound one has its shape.           *)
Loose(t) == {st \in StepsOf(t) : ~Bound(st) /\ st \notin Mades}

LEMMA ShapedLoose ==
  ASSUME NEW t, NEW s \in Seq(Loose(t))
  PROVE  s \in Seq(StepsOf(t)) /\ Shaped(s)
<1>1. \A i \in 1 .. Len(s) : s[i] \in StepsOf(t) /\ ~Bound(s[i]) /\ s[i] \notin Mades
  BY DEF Loose
<1>2. s \in Seq(StepsOf(t))
  BY <1>1
<1>3. \A i \in 1 .. Len(s) : \A j \in i + 1 .. Len(s) : j \in 1 .. Len(s)
  OBVIOUS
<1> QED BY <1>1, <1>2, <1>3 DEF Shaped

(* A factory: its steps are bound each to the next, and the last returns.  *)
Front(f, r) ==
  /\ Len(f) \in Nat \ {0} /\ f[Len(f)] = Made(r) /\ ~Bound(f[Len(f)])
  /\ \A i \in 1 .. Len(f) : Making(f[i])
  /\ \A i \in 1 .. Len(f) - 1 : f[i] \notin Mades /\ Follows(f[i], f[i + 1])

LEMMA FactoryIsFront ==
  ASSUME NEW t, NEW r \in Singletons
  PROVE  Factory(r) \in Seq(StepsOf(t)) /\ Front(Factory(r), r)
<1>1. /\ \A q \in Singletons : Open(q) \in StepsOf(t) /\ Made(q) \in StepsOf(t)
      /\ Provision \in StepsOf(t) /\ Try("embedded") \in StepsOf(t)
  BY DEF StepsOf, Opens, Mades
<1>2. /\ \A q \in Singletons : Making(Open(q)) /\ Making(Made(q)) /\ Open(q) \notin Mades /\ ~Bound(Made(q))
      /\ Making(Provision) /\ Making(Try("embedded")) /\ Provision \notin Mades /\ Try("embedded") \notin Mades
  <2>1. ASSUME NEW q \in Singletons
        PROVE  Making(Open(q)) /\ Making(Made(q)) /\ Open(q) \notin Mades /\ ~Bound(Made(q))
    <3>1. Open(q) \notin Mades
      BY OpOf DEF Mades
    <3>2. ~Bound(Made(q))
      BY OpOf DEF Bound, Opens
    <3> QED BY <3>1, <3>2 DEF Making, Opens, Mades
  <2>2. Provision \notin Mades /\ Try("embedded") \notin Mades
    BY OpOf DEF Mades
  <2> QED BY <2>1, <2>2 DEF Making
<1>3. /\ \A q, x : Open(q) # Try(x) /\ Open(q) # Provision /\ Try(x) # Provision
      /\ \A q, x : Open(q) = Open(x) => q = x
      /\ Try("embedded") # Try("nats")
  BY OpOf
<1>4. /\ \A q \in Singletons : Follows(Open(q), Made(q))
      /\ Follows(Open("nats"), Provision) /\ Follows(Provision, Made("nats")) /\ Follows(Try("embedded"), Open("nats"))
  BY <1>3, Zenon DEF Follows
<1>5. ASSUME NEW q \in Singletons
      PROVE  <<Open(q), Made(q)>> \in Seq(StepsOf(t)) /\ Front(<<Open(q), Made(q)>>, q)
  BY <1>1, <1>2, <1>4 DEF Front
<1>6. \A q \in {"nats"} : q \in Singletons
  BY DEF Singletons
<1>7. PICK n \in Singletons : n = "nats"
  BY <1>6
<1>8. /\ <<Try("embedded"), Open("nats"), Provision, Made("nats")>> \in Seq(StepsOf(t))
      /\ Front(<<Try("embedded"), Open("nats"), Provision, Made("nats")>>, "nats")
  <2>1. PICK e, o, p, m : e = Try("embedded") /\ o = Open("nats") /\ p = Provision /\ m = Made("nats")
    OBVIOUS
  <2>2. /\ e \in StepsOf(t) /\ o \in StepsOf(t) /\ p \in StepsOf(t) /\ m \in StepsOf(t)
        /\ Making(e) /\ Making(o) /\ Making(p) /\ Making(m) /\ ~Bound(m)
        /\ e \notin Mades /\ o \notin Mades /\ p \notin Mades
        /\ Follows(e, o) /\ Follows(o, p) /\ Follows(p, m)
    BY <2>1, <1>1, <1>2, <1>4, <1>7
  <2>3. m = Made(n)
    BY <2>1, <1>7
  <2>4. <<e, o, p, m>> \in Seq(StepsOf(t)) /\ Front(<<e, o, p, m>>, n)
    BY <2>2, <2>3 DEF Front
  <2> QED BY <2>1, <2>4, <1>7
<1>9. connectNats \in Seq(StepsOf(t)) /\ Front(connectNats, "nats")
  BY <1>5, <1>8, <1>7 DEF connectNats
<1> QED
  BY <1>5, <1>9, Zenon DEF Factory, DB, EmbeddedNatsServer, Sender, Singletons

LEMMA FrontFirst ==
  ASSUME NEW S, NEW r, NEW f \in Seq(S), Front(f, r), NEW s \in Seq(S), Shaped(s)
  PROVE  /\ f \o s \in Seq(S) /\ Shaped(f \o s) /\ Len(f) \in Nat \ {0} /\ Len(f \o s) = Len(f) + Len(s)
         /\ (f \o s)[Len(f)] = Made(r)
         /\ \A i \in 1 .. Len(f) - 1 : (f \o s)[i] \notin Mades
         /\ \A i \in 1 .. Len(s) : (f \o s)[Len(f) + i] = s[i]
<1>1. PICK u : u = f \o s
  OBVIOUS
<1>2. PICK n \in Nat : n = Len(f)
  OBVIOUS
<1>3. PICK m \in Nat : m = Len(s)
  OBVIOUS
<1>4. /\ u \in Seq(S) /\ Len(u) = n + m
      /\ \A i \in 1 .. n : u[i] = f[i]
      /\ \A i \in 1 .. m : u[n + i] = s[i]
  BY <1>1, <1>2, <1>3
<1>5. /\ n > 0 /\ f[n] = Made(r) /\ ~Bound(f[n]) /\ \A i \in 1 .. n : Making(f[i])
      /\ \A i \in 1 .. n - 1 : f[i] \notin Mades /\ Follows(f[i], f[i + 1])
  BY <1>2 DEF Front
<1>6. ASSUME NEW i \in 1 .. n + m
      PROVE  /\ Bound(u[i]) => i + 1 <= n + m /\ Follows(u[i], u[i + 1])
             /\ ~Making(u[i]) => \A j \in i + 1 .. n + m : u[j] \notin Mades
  <2>1. CASE i < n
    <3>1. i \in 1 .. n /\ i + 1 \in 1 .. n /\ i \in 1 .. n - 1 /\ i + 1 <= n + m
      BY <2>1
    <3> QED BY <3>1, <1>4, <1>5
  <2>2. CASE i = n
    BY <2>2, <1>4, <1>5
  <2>3. CASE i > n
    <3>1. PICK k \in 1 .. m : i = n + k
      <4>1. i - n \in 1 .. m /\ i = n + (i - n)
        BY <2>3
      <4> QED BY <4>1
    <3>2. u[i] = s[k]
      BY <3>1, <1>4
    <3>3. ASSUME Bound(s[k]) PROVE i + 1 <= n + m /\ Follows(u[i], u[i + 1])
      <4>1. k + 1 <= m /\ Follows(s[k], s[k + 1])
        BY <3>3, <1>3 DEF Shaped
      <4>2. k + 1 \in 1 .. m /\ i + 1 = n + (k + 1)
        BY <4>1, <3>1
      <4>3. u[i + 1] = s[k + 1]
        BY <4>2, <1>4
      <4> QED BY <4>1, <4>2, <4>3, <3>2
    <3>4. ASSUME ~Making(s[k]), NEW j \in i + 1 .. n + m PROVE u[j] \notin Mades
      <4>1. PICK l \in k + 1 .. m : j = n + l
        <5>1. j - n \in k + 1 .. m /\ j = n + (j - n)
          BY <3>1
        <5> QED BY <5>1
      <4>2. l \in 1 .. m /\ u[j] = s[l]
        BY <4>1, <1>4
      <4>3. s[l] \notin Mades
        BY <3>4, <4>1, <1>3 DEF Shaped
      <4> QED BY <4>2, <4>3
    <3> QED BY <3>2, <3>3, <3>4
  <2> QED BY <2>1, <2>2, <2>3
<1>7. Shaped(u)
  BY <1>6, <1>4 DEF Shaped
<1>8. u[n] = Made(r) /\ \A i \in 1 .. n - 1 : u[i] \notin Mades
  BY <1>4, <1>5, SMTT(30)
<1> QED BY <1>1, <1>2, <1>3, <1>4, <1>5, <1>7, <1>8

(* The steps of New and Run are loose ones.                                *)
LEMMA LooseSteps ==
  ASSUME NEW t
  PROVE  /\ \A r \in MayMust : Must(r) \in Loose(t)
         /\ Checked("jetstream") \in Loose(t)
         /\ t = Boot => \A s \in services : \A f \in Sets : Section(s, f) \in Loose(t)
         /\ t # Boot => Stop \in Loose(t)
         /\ t = "api" => Token \in Loose(t) /\ (AuditEnabled => Configure \in Loose(t))
         /\ t # Boot /\ NeedsNats => Demand \in Loose(t) /\ Ensure(Attempts) \in Loose(t)
         /\ <<>> \in Seq(Loose(t))
<1>1. ASSUME NEW st, st \in StepsOf(t), st.op \notin {"open", "made", "provision", "try"} PROVE st \in Loose(t)
  BY <1>1, Kinds DEF Loose, Making
<1>2. \A r \in MayMust : Must(r) \in Loose(t)
  <2> SUFFICES ASSUME NEW r \in MayMust PROVE Must(r) \in Loose(t) OBVIOUS
  <2>1. Must(r) \in StepsOf(t) BY DEF StepsOf, Musts
  <2>2. Must(r).op \notin {"open", "made", "provision", "try"} BY OpOf
  <2> QED BY <2>1, <2>2, <1>1
<1>3. Checked("jetstream") \in Loose(t)
  <2>1. Checked("jetstream") \in StepsOf(t) BY DEF StepsOf
  <2>2. Checked("jetstream").op \notin {"open", "made", "provision", "try"} BY OpOf
  <2> QED BY <2>1, <2>2, <1>1
<1>4. ASSUME t = Boot, NEW s \in services, NEW f \in Sets PROVE Section(s, f) \in Loose(t)
  <2>1. Section(s, f) \in StepsOf(t) BY <1>4 DEF StepsOf, Configs
  <2>2. Section(s, f).op \notin {"open", "made", "provision", "try"} BY OpOf
  <2> QED BY <2>1, <2>2, <1>1
<1>5. ASSUME t # Boot PROVE Stop \in Loose(t)
  <2>1. Stop \in StepsOf(t) BY <1>5 DEF StepsOf
  <2>2. Stop.op \notin {"open", "made", "provision", "try"} BY OpOf
  <2> QED BY <2>1, <2>2, <1>1
<1>6. ASSUME t = "api" PROVE Token \in Loose(t) /\ (AuditEnabled => Configure \in Loose(t))
  <2>1. Token \in StepsOf(t) /\ (AuditEnabled => Configure \in StepsOf(t)) BY <1>6 DEF StepsOf
  <2>2. Token.op \notin {"open", "made", "provision", "try"} BY OpOf
  <2>3. Configure.op \notin {"open", "made", "provision", "try"} BY OpOf
  <2> QED BY <2>1, <2>2, <2>3, <1>1
<1>7. ASSUME t # Boot, NeedsNats PROVE Demand \in Loose(t) /\ Ensure(Attempts) \in Loose(t)
  <2>1. Attempts \in 1 .. Attempts BY ProcessAssumption
  <2>2. Demand \in StepsOf(t) /\ Ensure(Attempts) \in StepsOf(t) BY <1>7, <2>1 DEF StepsOf, Ensures
  <2>3. /\ Demand.op \notin {"open", "made", "provision", "try"}
        /\ Ensure(Attempts).op \notin {"open", "made", "provision", "try"} BY OpOf
  <2> QED BY <2>2, <2>3, <1>1
<1>8. <<>> \in Seq(Loose(t)) OBVIOUS
<1> QED BY <1>2, <1>3, <1>4, <1>5, <1>6, <1>7, <1>8

-----------------------------------------------------------------------------
(* What bootstrap and Registry.Run give out is well formed.                *)
LEMMA MayMustOf ==
  /\ "db" \in MayMust
  /\ NeedsNats => "nats" \in MayMust
  /\ "sender" \in services => "sender" \in MayMust
  /\ \A s \in services : s \in {"sender", "dispatcher", "validator", "stats", "tracker", "smtp"} => NeedsNats
  /\ "audit" \in services /\ AuditEnabled => NeedsNats
BY DEF MayMust, NeedsNats

LEMMA NewIsLoose ==
  ASSUME NEW s \in services, s \in Services
  PROVE  New(s) \in Seq(Loose(Boot))
<1> DEFINE L == Loose(Boot)
<1>1. \A f \in Sets : Section(s, f) \in L
  BY LooseSteps
<1>2. Must("db") \in L
  BY LooseSteps, MayMustOf
<1>3. NeedsNats => Must("nats") \in L /\ Checked("jetstream") \in L
  BY LooseSteps, MayMustOf
<1>4. /\ {"max_jobs"} \in Sets /\ {"retention"} \in Sets /\ {"port"} \in Sets
      /\ {"address"} \in Sets /\ AuditFields \in Sets
  BY DEF Sets
<1> HIDE DEF L
<1>5. CASE s = "sender"
  <2>1. Must("sender") \in L /\ NeedsNats /\ Section("sender", {"max_jobs"}) \in L
    BY <1>5, <1>1, <1>4, LooseSteps, MayMustOf DEF L
  <2>2. New(s) = SenderNew
    BY <1>5, Zenon DEF New
  <2>3. PICK a, b, c, d : /\ a = Section("sender", {"max_jobs"}) /\ b = Must("nats")
                          /\ c = Checked("jetstream") /\ d = Must("sender")
    OBVIOUS
  <2>4. <<a>> \o <<b>> \o <<b, c>> \o <<d>> \in Seq(L)
    BY <2>1, <2>3, <1>3
  <2> QED BY <2>2, <2>3, <2>4, Zenon DEF SenderNew, NatsPublisher, NatsJetStream, L
<1>6. CASE s = "stats"
  <2>1. New(s) = StatsNew
    BY <1>6, Zenon DEF New
  <2> QED BY <2>1, <1>6, <1>1, <1>4 DEF StatsNew, L
<1>7. CASE s = "tracker"
  <2>1. New(s) = TrackerNew
    BY <1>7, Zenon DEF New
  <2>2. NeedsNats
    BY <1>7, MayMustOf
  <2>3. Section("tracker", {"port"}) \in L
    BY <1>7, <1>1, <1>4
  <2>4. <<Section("tracker", {"port"}), Must("db"), Must("nats")>> \in Seq(L)
    BY <2>2, <2>3, <1>2, <1>3
  <2> QED BY <2>1, <2>4 DEF TrackerNew, L
<1>8. CASE s = "api"
  <2>1. New(s) = APINew
    BY <1>8, Zenon DEF New
  <2> QED BY <2>1, <1>8, <1>1, <1>4 DEF APINew, L
<1>9. CASE s = "smtp"
  <2>1. New(s) = SMTPNew
    BY <1>9, Zenon DEF New
  <2> QED BY <2>1, <1>9, <1>1, <1>4 DEF SMTPNew, L
<1>10. CASE s = "audit"
  <2>1. New(s) = AuditNew
    BY <1>10, Zenon DEF New
  <2> QED BY <2>1, <1>10, <1>1, <1>4 DEF AuditNew, L
<1>11. CASE s \in {"dispatcher", "validator"}
  <2>1. New(s) = <<>>
    BY <1>11, Zenon DEF New
  <2> QED BY <2>1 DEF L
<1> QED
  BY <1>5, <1>6, <1>7, <1>8, <1>9, <1>10, <1>11 DEF Services

LEMMA RegisteredIsLoose == services = Chosen => Registered \in Seq(Loose(Boot))
<1> SUFFICES ASSUME services = Chosen PROVE Registered \in Seq(Loose(Boot)) OBVIOUS
<1>1. ASSUME NEW s \in Services PROVE Register(s) \in Seq(Loose(Boot))
  BY NewIsLoose, LooseSteps DEF Register, Enabled
<1>2. /\ Register("sender") \in Seq(Loose(Boot)) /\ Register("dispatcher") \in Seq(Loose(Boot))
      /\ Register("validator") \in Seq(Loose(Boot)) /\ Register("stats") \in Seq(Loose(Boot))
      /\ Register("tracker") \in Seq(Loose(Boot)) /\ Register("api") \in Seq(Loose(Boot))
      /\ Register("smtp") \in Seq(Loose(Boot)) /\ Register("audit") \in Seq(Loose(Boot))
  BY <1>1 DEF Services
<1> QED BY <1>2 DEF Registered

LEMMA RunIsShaped ==
  ASSUME NEW s \in services, s \in Services
  PROVE  /\ Run(s) \in Seq(StepsOf(s)) /\ Shaped(Run(s))
         /\ \A i \in 1 .. Len(Run(s)) : Run(s)[i] \notin Mades
<1> DEFINE L == Loose(s)
<1>1. Must("db") \in L /\ Checked("jetstream") \in L /\ Stop \in L /\ <<>> \in Seq(L)
  BY LooseSteps, MayMustOf DEF Boot, Services
<1>2. NeedsNats => Must("nats") \in L /\ Demand \in L /\ Ensure(Attempts) \in L
  BY LooseSteps, MayMustOf DEF Boot, Services
<1>3. s = "api" => Token \in L
  BY LooseSteps
<1> HIDE DEF L
<1>4. PICK d, n, c, e, m, k : d = Must("db") /\ n = Must("nats") /\ c = Checked("jetstream") /\ e = Ensure(Attempts)
                              /\ m = Demand /\ k = Stop
  OBVIOUS
<1>5. d \in L /\ c \in L /\ k \in L /\ (NeedsNats => n \in L /\ m \in L /\ e \in L)
  BY <1>1, <1>2, <1>4
<1>6. NeedsNats => /\ <<m, m>> \o <<m>> \in Seq(L) /\ <<d>> \o <<n, c>> \o <<e>> \o <<n>> \o <<m>> \in Seq(L)
                   /\ <<d>> \o <<n>> \in Seq(L) /\ <<d>> \o <<n, c>> \o <<m>> \in Seq(L) /\ <<n>> \in Seq(L)
                   /\ <<n, c>> \o <<e, d>> \o <<m>> \in Seq(L)
  BY <1>5
<1>7. s # "api" => Run(s) \in Seq(L)
  <2>1. ASSUME s = "sender" PROVE Run(s) = <<m, m>> \o <<m>>
    BY <2>1, <1>4, Zenon DEF Run, SenderRun, MustGetPullSubscriber
  <2>2. ASSUME s = "dispatcher" PROVE Run(s) = <<d>> \o <<n, c>> \o <<e>> \o <<n>> \o <<m>>
    BY <2>2, <1>4, Zenon DEF Run, DispatcherRun, MustGetPullSubscriber, NatsJetStream, NatsPublisher
  <2>3. ASSUME s = "validator" PROVE Run(s) = <<d>> \o <<n>>
    BY <2>3, <1>4, Zenon DEF Run, ValidatorRun, NatsPublisher
  <2>4. ASSUME s = "stats" PROVE Run(s) = <<d>> \o <<n, c>> \o <<m>>
    BY <2>4, <1>4, Zenon DEF Run, StatsRun, NatsJetStream, MustGetPullSubscriber
  <2>5. ASSUME s = "tracker" PROVE Run(s) = <<>>
    BY <2>5, Zenon DEF Run
  <2>6. ASSUME s = "smtp" PROVE Run(s) = <<n>>
    BY <2>6, <1>4, Zenon DEF Run, SMTPRun
  <2>7. ASSUME s = "audit" PROVE Run(s) = IF ~AuditEnabled THEN <<k>> ELSE <<n, c>> \o <<e, d>> \o <<m>>
    BY <2>7, <1>4, Zenon DEF Run, AuditRun, NatsJetStream, MustGetPullSubscriber
  <2>8. s \in {"sender", "dispatcher", "validator", "stats", "smtp"} => NeedsNats
    BY MayMustOf
  <2>9. s = "audit" /\ AuditEnabled => NeedsNats
    BY MayMustOf
  <2>10. <<k>> \in Seq(L)
    BY <1>5
  <2>11. s = "audit" => Run(s) \in Seq(L)
    BY <2>7, <2>9, <2>10, <1>6
  <2> QED BY <2>1, <2>2, <2>3, <2>4, <2>5, <2>6, <2>8, <2>11, <1>1, <1>6, Zenon DEF Services
<1>8. ASSUME NEW u \in Seq(L)
      PROVE  /\ u \in Seq(StepsOf(s)) /\ Shaped(u) /\ \A i \in 1 .. Len(u) : u[i] \notin Mades
  <2>1. \A i \in 1 .. Len(u) : u[i] \notin Mades
    BY DEF L, Loose
  <2> QED BY <2>1, ShapedLoose DEF L
<1>9. CASE s = "api"
  <2>1. PICK o, y : o = Token /\ y = Try("nats")
    OBVIOUS
  <2>2. o \in L
    BY <2>1, <1>3, <1>9
  <2>3. Run(s) = <<o, d>> \o startAuditRecording
    BY <1>9, <2>1, <1>4, Zenon DEF Run, APIRun
  <2>4. CASE ~AuditEnabled
    <3>1. <<o, d>> \o <<>> \in Seq(L)
      BY <2>2, <1>5
    <3>2. startAuditRecording = <<>>
      BY <2>4 DEF startAuditRecording
    <3> QED BY <3>1, <3>2, <2>3, <1>8
  <2>5. CASE AuditEnabled
    <3>0. PICK g : g = Configure /\ g \in L
      BY <1>9, <2>5, LooseSteps DEF L
    <3>1. startAuditRecording = <<y, c>> \o <<g>>
      BY <2>5, <2>1, <3>0, <1>4 DEF startAuditRecording, TryNatsJetStream
    <3>2. Run(s) = <<o, d>> \o (<<y, c>> \o <<g>>)
      BY <3>1, <2>3
    <3>3. y \in StepsOf(s)
      BY <2>1, <2>5, <1>9 DEF StepsOf
    <3>4. /\ o \in StepsOf(s) /\ d \in StepsOf(s) /\ c \in StepsOf(s) /\ g \in StepsOf(s)
          /\ ~Bound(o) /\ ~Bound(d) /\ ~Bound(c) /\ ~Bound(g)
          /\ o \notin Mades /\ d \notin Mades /\ c \notin Mades /\ g \notin Mades
      BY <2>2, <1>5, <3>0 DEF L, Loose
    <3>5. y \notin Mades
      BY <2>1, OpOf DEF Mades
    <3>6. Follows(y, c)
      <4>1. /\ \A r : y # Open(r)
            /\ y # Provision /\ y # Try("embedded")
        BY <2>1, OpOf
      <4> QED BY <4>1, <1>4 DEF Follows
    <3>7. PICK u : u = <<o, d>> \o (<<y, c>> \o <<g>>)
      OBVIOUS
    <3>8. u \in Seq(StepsOf(s)) /\ Len(u) = 5 /\ u[1] = o /\ u[2] = d /\ u[3] = y /\ u[4] = c /\ u[5] = g
      BY <3>7, <3>3, <3>4
    <3>9. \A i \in 1 .. 5 : u[i] \notin Mades
      BY <3>8, <3>4, <3>5
    <3>10. \A i \in 1 .. 5 : Bound(u[i]) => i + 1 <= 5 /\ Follows(u[i], u[i + 1])
      BY <3>8, <3>4, <3>6
    <3>11. Shaped(u)
      BY <3>8, <3>9, <3>10 DEF Shaped
    <3> QED BY <3>2, <3>7, <3>8, <3>9, <3>11
  <2> QED BY <2>4, <2>5
<1> QED BY <1>7, <1>8, <1>9

-----------------------------------------------------------------------------
(* What RunTask, a task and the wait do to the numbers.                    *)
LEMMA PoolFields ==
  ASSUME NEW p \in Pools
  PROVE  /\ p.wg \in Nat /\ p.early \in Nat /\ p.late \in Nat
         /\ p.phase \in Phases /\ p.waiting \in {"none", "early", "late"}
BY DEF Pools

LEMMA WgSet ==
  ASSUME NEW p \in Pools, NEW n \in Nat, NEW q, q = [p EXCEPT !.wg = n]
  PROVE  q \in Pools /\ q.wg = n /\ q.phase = p.phase /\ q.waiting = p.waiting /\ q.early = p.early /\ q.late = p.late
BY Zenon DEF Pools

LEMMA PhaseSet ==
  ASSUME NEW p \in Pools, NEW n \in Phases, NEW q, q = [p EXCEPT !.phase = n]
  PROVE  q \in Pools /\ q.wg = p.wg /\ q.phase = n /\ q.waiting = p.waiting /\ q.early = p.early /\ q.late = p.late
BY Zenon DEF Pools

LEMMA WaitingSet ==
  ASSUME NEW p \in Pools, NEW n \in {"none", "early", "late"}, NEW q, q = [p EXCEPT !.waiting = n]
  PROVE  q \in Pools /\ q.wg = p.wg /\ q.phase = p.phase /\ q.waiting = n /\ q.early = p.early /\ q.late = p.late
BY Zenon DEF Pools

LEMMA EarlySet ==
  ASSUME NEW p \in Pools, NEW n \in Nat, NEW q, q = [p EXCEPT !.early = n]
  PROVE  q \in Pools /\ q.wg = p.wg /\ q.phase = p.phase /\ q.waiting = p.waiting /\ q.early = n /\ q.late = p.late
BY Zenon DEF Pools

LEMMA LateSet ==
  ASSUME NEW p \in Pools, NEW n \in Nat, NEW q, q = [p EXCEPT !.late = n]
  PROVE  q \in Pools /\ q.wg = p.wg /\ q.phase = p.phase /\ q.waiting = p.waiting /\ q.early = p.early /\ q.late = n
BY Zenon DEF Pools

LEMMA AdmitKeeps ==
  ASSUME NEW p \in Pools, Tally(p), p.waiting = "none", NEW q, q = Admit(p)
  PROVE  Tally(q) /\ q.phase = p.phase /\ q.waiting = Stamp /\ q.early = p.early
<1>1. PICK n \in Nat : n = p.wg + 1
  BY PoolFields
<1>2. PICK x : x = [p EXCEPT !.wg = n]
  OBVIOUS
<1>3. x \in Pools /\ x.wg = n /\ x.phase = p.phase /\ x.early = p.early /\ x.late = p.late
  BY <1>2, WgSet
<1>4. PICK m \in {"none", "early", "late"} : m = Stamp /\ m # "none"
  BY DEF Stamp
<1>0. q = [x EXCEPT !.waiting = m]
  BY <1>1, <1>2, <1>4, Zenon DEF Admit
<1>5. q \in Pools /\ q.wg = x.wg /\ q.phase = x.phase /\ q.waiting = m /\ q.early = x.early /\ q.late = x.late
  BY <1>3, <1>0, WaitingSet
<1>6. Queued(p) = 0 /\ Queued(q) = 1
  BY <1>4, <1>5, Zenon DEF Queued
<1>7. p.wg = p.early + p.late + Queued(p) /\ p.early + p.late <= MaxJobs
  BY Zenon DEF Tally
<1>8. q.wg = q.early + q.late + Queued(q) /\ q.early + q.late <= MaxJobs
  BY <1>1, <1>3, <1>5, <1>6, <1>7, PoolFields
<1> QED BY <1>3, <1>4, <1>5, <1>8, Zenon DEF Tally

LEMMA StartKeeps ==
  ASSUME NEW p \in Pools, Tally(p), p.waiting # "none", p.early + p.late < MaxJobs, NEW q, q = Start(p)
  PROVE  Tally(q) /\ q.phase = p.phase /\ q.wg = p.wg /\ (Settled(p) => Settled(q))
<1>1. p.wg = p.early + p.late + Queued(p) /\ Queued(p) = 1
  BY Zenon DEF Tally, Queued
<1>2. PICK none \in {"none", "early", "late"} : none = "none"
  OBVIOUS
<1>3. CASE p.waiting = "early"
  <2>1. PICK n \in Nat : n = p.early + 1
    BY PoolFields
  <2>2. PICK x : x = [p EXCEPT !.early = n]
    OBVIOUS
  <2>3. x \in Pools /\ x.wg = p.wg /\ x.phase = p.phase /\ x.early = n /\ x.late = p.late
    BY <2>2, EarlySet
  <2>4. q = [x EXCEPT !.waiting = none]
    BY <1>2, <1>3, <2>1, <2>2, Zenon DEF Start
  <2>5. q \in Pools /\ q.wg = x.wg /\ q.phase = x.phase /\ q.waiting = none /\ q.early = x.early /\ q.late = x.late
    BY <2>3, <2>4, WaitingSet
  <2>6. Queued(q) = 0
    BY <1>2, <2>5, Zenon DEF Queued
  <2>7. q.wg = q.early + q.late + Queued(q) /\ q.early + q.late <= MaxJobs
    BY <1>1, <2>1, <2>3, <2>5, <2>6, PoolFields, ProcessAssumption
  <2>8. ~Settled(p)
    BY <1>3 DEF Settled
  <2> QED BY <2>3, <2>5, <2>7, <2>8, Zenon DEF Tally
<1>4. CASE p.waiting # "early"
  <2>1. PICK n \in Nat : n = p.late + 1
    BY PoolFields
  <2>2. PICK x : x = [p EXCEPT !.late = n]
    OBVIOUS
  <2>3. x \in Pools /\ x.wg = p.wg /\ x.phase = p.phase /\ x.early = p.early /\ x.late = n
    BY <2>2, LateSet
  <2>4. q = [x EXCEPT !.waiting = none]
    BY <1>2, <1>4, <2>1, <2>2, Zenon DEF Start
  <2>5. q \in Pools /\ q.wg = x.wg /\ q.phase = x.phase /\ q.waiting = none /\ q.early = x.early /\ q.late = x.late
    BY <2>3, <2>4, WaitingSet
  <2>6. Queued(q) = 0
    BY <1>2, <2>5, Zenon DEF Queued
  <2>7. q.wg = q.early + q.late + Queued(q) /\ q.early + q.late <= MaxJobs
    BY <1>1, <2>1, <2>3, <2>5, <2>6, PoolFields, ProcessAssumption
  <2>8. Settled(p) => Settled(q)
    BY <1>2, <2>3, <2>5, Zenon DEF Settled
  <2> QED BY <2>3, <2>5, <2>7, <2>8, Zenon DEF Tally
<1> QED BY <1>3, <1>4

(* A task is done: r is the pool without it, before the WaitGroup is told. *)
LEMMA DoneKeeps ==
  ASSUME NEW p \in Pools, Tally(p), NEW r \in Pools, r.wg = p.wg, r.phase = p.phase, r.waiting = p.waiting,
         r.early <= p.early, r.early + r.late = p.early + p.late - 1, NEW q, q = Done(r)
  PROVE  /\ Tally(q) /\ q.waiting = p.waiting /\ q.early = r.early /\ p.wg > 0
         /\ q.phase = p.phase \/ (p.phase = "blocked" /\ q.phase = "released")
<1>1. p.wg = p.early + p.late + Queued(p) /\ p.early + p.late <= MaxJobs /\ Queued(p) \in {0, 1}
  BY Zenon DEF Tally, Queued
<1>2. p.wg > 0 /\ r.wg - 1 \in Nat
  BY <1>1, PoolFields
<1>3. PICK n \in Nat : n = r.wg - 1
  BY <1>2
<1>4. PICK x : x = [r EXCEPT !.wg = n]
  OBVIOUS
<1>5. x \in Pools /\ x.wg = n /\ x.phase = r.phase /\ x.waiting = r.waiting /\ x.early = r.early /\ x.late = r.late
  BY <1>4, WgSet
<1>6. PICK k : k = IF r.phase = "blocked" /\ r.wg = 1 THEN "released" ELSE r.phase
  OBVIOUS
<1>7. k \in Phases /\ (k = p.phase \/ (p.phase = "blocked" /\ k = "released"))
  <2>1. "released" \in Phases /\ r.phase \in Phases
    BY PoolFields DEF Phases
  <2> QED BY <1>6, <2>1, Zenon
<1>8. q = [x EXCEPT !.phase = k]
  BY <1>3, <1>4, <1>5, <1>6, Zenon DEF Done
<1>9. q \in Pools /\ q.wg = x.wg /\ q.phase = k /\ q.waiting = x.waiting /\ q.early = x.early /\ q.late = x.late
  BY <1>5, <1>7, <1>8, PhaseSet
<1>10. Queued(q) = Queued(p)
  BY <1>5, <1>9, Zenon DEF Queued
<1>11. q.wg = q.early + q.late + Queued(q) /\ q.early + q.late <= MaxJobs
  BY <1>1, <1>3, <1>5, <1>9, <1>10, PoolFields, ProcessAssumption
<1> QED BY <1>2, <1>5, <1>7, <1>9, <1>11, Zenon DEF Tally

(* A pool that nothing is counted in is empty.                             *)
LEMMA NothingCounted ==
  ASSUME NEW p \in Pools, Tally(p), p.wg = 0
  PROVE  p.early = 0 /\ p.late = 0 /\ p.waiting = "none" /\ Settled(p)
<1>1. p.wg = p.early + p.late + Queued(p) /\ Queued(p) \in {0, 1}
  BY Zenon DEF Tally, Queued
<1>2. p.early = 0 /\ p.late = 0 /\ Queued(p) # 1
  BY <1>1, PoolFields
<1>3. p.waiting = "none"
  BY <1>2, Zenon DEF Queued
<1> QED BY <1>2, <1>3 DEF Settled

-----------------------------------------------------------------------------
(* The parts of the invariant, by what a step leaves alone.                *)
LEMMA PodFrame ==
  ASSUME UNCHANGED pod
  PROVE  /\ AuditEnabled' = AuditEnabled /\ AdminToken' = AdminToken
         /\ Chosen' = Chosen
         /\ \A s, f : TryLoadSection(s, f)' = TryLoadSection(s, f)
<1>1. \A s, f : Decode(s, f)' = Decode(s, f)
  BY DEF Decode, Written, Sections, resolve, Lookup
<1>2. \A s, f : TryLoadSection(s, f)' = TryLoadSection(s, f)
  BY <1>1 DEF TryLoadSection
<1>3. AuditEnabled' = AuditEnabled
  BY <1>1, <1>2 DEF AuditEnabled, On
<1>4. AdminToken' = AdminToken
  BY <1>1 DEF AdminToken, APIAdminToken
<1>5. Chosen' = Chosen
  BY <1>1 DEF Chosen, On
<1> QED BY <1>2, <1>3, <1>4, <1>5

LEMMA StepsFrame ==
  ASSUME UNCHANGED <<pod, services>>
  PROVE  NeedsNats' = NeedsNats /\ \A t : StepsOf(t)' = StepsOf(t)
<1>1. NeedsNats' = NeedsNats
  BY PodFrame DEF NeedsNats
<1>2. MayMust' = MayMust
  BY <1>1 DEF MayMust
<1>3. Musts' = Musts /\ Configs' = Configs
  BY <1>2 DEF Musts, Configs
<1>4. ASSUME NEW t PROVE StepsOf(t)' = StepsOf(t)
  BY <1>1, <1>3, PodFrame DEF StepsOf
<1> QED BY <1>1, <1>4

LEMMA AtHead ==
  ASSUME ShapeInv, NEW t \in Threads, NEW op, At(t, op)
  PROVE  /\ Alive /\ t \notin returned /\ todo[t] # <<>> /\ todo[t] \in Seq(StepsOf(t)) /\ Len(todo[t]) \in Nat \ {0}
         /\ Head(todo[t]) = todo[t][1] /\ Head(todo[t]) \in StepsOf(t) /\ todo[t][1].op = op
         /\ Tail(todo[t]) = SubSeq(todo[t], 2, Len(todo[t]))
<1>1. PICK s \in Seq(StepsOf(t)) : s = todo[t]
  BY DEF ShapeInv
<1>2. Alive /\ t \notin returned /\ s # <<>> /\ Head(s).op = op
  BY <1>1, Zenon DEF At
<1>3. Len(s) \in Nat \ {0} /\ Head(s) = s[1] /\ Head(s) \in StepsOf(t) /\ Tail(s) = SubSeq(s, 2, Len(s))
  BY <1>2
<1> QED BY <1>1, <1>2, <1>3

(* A thread with something left: it is the boot path's while the process   *)
(* boots, and a runnable's of this process while it runs.                  *)
LEMMA AtPhase ==
  ASSUME ShapeInv, PhaseInv, NEW t \in Threads, Alive, todo[t] # <<>>
  PROVE  /\ t = Boot => proc = "booting"
         /\ t # Boot => proc = "running" /\ t \in services /\ t \notin returned
<1>1. t # Boot => t \in Services
  BY DEF Threads
<1> QED BY <1>1, Zenon DEF PhaseInv, Alive

(* A sender that still has steps to take, or is not there, has an unused   *)
(* pool, which no step of a thread touches.                                *)
LEMMA BusySender ==
  ASSUME PoolInv, UNCHANGED <<services, proc, returned, cancelled, pool>>, NEW t, todo[t] # <<>>,
         t # "sender" => todo'["sender"] = todo["sender"]
  PROVE  PoolInv'
<1>1. CASE t = "sender"
  <2>1. ~Used(pool)
    BY <1>1 DEF PoolInv, InUse
  <2> QED BY <2>1 DEF PoolInv, Closing
<1>2. CASE t # "sender"
  BY <1>2, Zenon DEF PoolInv, InUse, Closing
<1> QED BY <1>1, <1>2

LEMMA DropStep ==
  ASSUME ShapeInv, PhaseInv, PoolInv, CauseInv, Alive,
         NEW t \in Threads, todo[t] # <<>>, NEW k \in 0 .. Len(todo[t]),
         todo' = [todo EXCEPT ![t] = SubSeq(@, k + 1, Len(@))],
         UNCHANGED <<pod, services, proc, returned, cancelled, cause, pool>>,
         once' \in [Singletons -> {"none", "making", "made", "failed"}],
         open' \subseteq closers' \cap Singletons
  PROVE  ShapeInv' /\ PhaseInv' /\ PoolInv' /\ CauseInv'
<1>1. /\ \A u \in Threads : todo'[u] = IF u = t THEN SubSeq(todo[t], k + 1, Len(todo[t])) ELSE todo[u]
      /\ DOMAIN todo' = Threads /\ todo' = [u \in Threads |-> todo'[u]]
  BY DEF ShapeInv
<1>2. \A u \in Threads : StepsOf(u)' = StepsOf(u)
  BY StepsFrame
<1>3. ASSUME NEW u \in Threads PROVE todo'[u] \in Seq(StepsOf(u)) /\ Shaped(todo'[u])
  <2>1. todo[u] \in Seq(StepsOf(u)) /\ Shaped(todo[u])
    BY DEF ShapeInv
  <2>2. CASE u = t
    BY <2>1, <2>2, <1>1, ShapedSuffix
  <2> QED BY <2>1, <2>2, <1>1
<1>4. ShapeInv'
  BY <1>1, <1>2, <1>3 DEF ShapeInv
<1>5. proc' = proc /\ proc \in {"booting", "running"}
  BY DEF Alive
<1>6. t # Boot => proc = "running" /\ t \in services /\ t \notin returned
  BY AtPhase
<1>7. t = Boot => proc = "booting"
  BY AtPhase
<1>8. Boot \in Threads /\ \A s \in Services : s \in Threads /\ s # Boot
  BY DEF Threads, Boot, Services
<1>9. \A u \in Threads : u # t => todo'[u] = todo[u]
  BY <1>1
<1>10. PhaseInv'
  BY <1>5, <1>6, <1>7, <1>8, <1>9, Zenon DEF PhaseInv
<1>12. "sender" \in Threads
  BY DEF Threads, Services
<1>13. PoolInv'
  <2>1. t # "sender" => todo'["sender"] = todo["sender"]
    BY <1>9, <1>12
  <2> QED BY <2>1, BusySender
<1>14. CauseInv'
  BY StepsFrame DEF CauseInv, StoppedByItsOwn
<1> QED BY <1>4, <1>10, <1>13, <1>14

(* Steps are dropped from the front of one thread's list, with the returns *)
(* of exactly the factories R, none of which is making anything then.      *)
LEMMA MakeDrop ==
  ASSUME ShapeInv, MakeInv, NEW t \in Threads, NEW k \in 0 .. Len(todo[t]),
         todo' = [todo EXCEPT ![t] = SubSeq(@, k + 1, Len(@))],
         NEW R \in SUBSET Singletons,
         \A i \in 1 .. k : \A q \in Singletons : todo[t][i] = Made(q) => q \in R,
         \A q \in R : once'[q] # "making" /\ \E i \in 1 .. k : todo[t][i] = Made(q),
         \A q \in Singletons \ R : once'[q] = once[q]
  PROVE  MakeInv'
<1>0. \A q \in Singletons : \A u, v \in Threads : \A i \in 1 .. Len(todo[u]), j \in 1 .. Len(todo[v]) :
        todo[u][i] = Made(q) /\ todo[v][j] = Made(q) => u = v /\ i = j
  BY DEF MakeInv
<1>1. PICK s \in Seq(StepsOf(t)) : s = todo[t] /\ Shaped(s)
  BY DEF ShapeInv
<1>2. /\ \A u \in Threads : u # t => todo'[u] = todo[u]
      /\ Len(s) \in Nat /\ Len(todo'[t]) = Len(s) - k
      /\ \A i \in 1 .. Len(s) - k : todo'[t][i] = s[i + k]
  <2>1. todo'[t] = SubSeq(s, k + 1, Len(s)) /\ \A u \in Threads : u # t => todo'[u] = todo[u]
    BY <1>1 DEF ShapeInv
  <2> QED BY <2>1, <1>1, ShapedSuffix
<1>3. ASSUME NEW u \in Threads, NEW i \in 1 .. Len(todo'[u]), NEW q \in Singletons, todo'[u][i] = Made(q)
      PROVE  q \notin R /\ \E j \in 1 .. Len(todo[u]) : todo[u][j] = Made(q) /\ j = (IF u = t THEN i + k ELSE i)
  <2>1. CASE u # t
    <3>1. todo[u][i] = Made(q) /\ i \in 1 .. Len(todo[u])
      BY <2>1, <1>2, <1>3
    <3>2. q \notin R
      <4>1. ASSUME NEW j \in 1 .. k PROVE todo[t][j] # Made(q)
        BY <3>1, <2>1, <1>0, <1>1, <1>2
      <4> QED BY <4>1
    <3> QED BY <3>1, <3>2, <2>1
  <2>2. CASE u = t
    <3>1. i + k \in 1 .. Len(s) /\ s[i + k] = Made(q)
      BY <2>2, <1>2, <1>3
    <3>2. \A j \in 1 .. Len(s) : s[j] = Made(q) => j = i + k
      BY <3>1, <1>0, <1>1
    <3>3. q \notin R
      <4>1. ASSUME NEW j \in 1 .. k PROVE s[j] # Made(q)
        <5>1. j \in 1 .. Len(s) /\ j # i + k
          BY <3>1, <1>1, <1>2
        <5> QED BY <5>1, <3>2
      <4> QED BY <4>1, <1>1
    <3> QED BY <3>1, <3>3, <2>2, <1>1
  <2> QED BY <2>1, <2>2
<1>4. ASSUME NEW q \in Singletons, once'[q] = "making"
      PROVE  \E u \in Threads : \E i \in 1 .. Len(todo'[u]) : todo'[u][i] = Made(q)
  <2>1. q \notin R /\ once[q] = "making"
    BY <1>4
  <2>2. PICK u \in Threads : \E i \in 1 .. Len(todo[u]) : todo[u][i] = Made(q)
    BY <2>1 DEF MakeInv
  <2>3. PICK i \in 1 .. Len(todo[u]) : todo[u][i] = Made(q)
    BY <2>2
  <2>4. CASE u # t
    BY <2>4, <2>3, <1>2
  <2>5. CASE u = t
    <3>1. i \notin 1 .. k
      BY <2>1, <2>3, <2>5
    <3>2. i - k \in 1 .. Len(s) - k /\ (i - k) + k = i
      BY <3>1, <2>5, <2>3, <1>1, <1>2
    <3>3. todo'[t][i - k] = s[i]
      BY <3>2, <1>2
    <3> QED BY <3>2, <3>3, <2>3, <2>5, <1>1, <1>2
  <2> QED BY <2>4, <2>5
<1>5. ASSUME NEW q \in Singletons, NEW u \in Threads, NEW i \in 1 .. Len(todo'[u]), todo'[u][i] = Made(q)
      PROVE  once'[q] = "making"
  <2>1. q \notin R /\ once[q] = "making"
    BY <1>3, <1>5 DEF MakeInv
  <2> QED BY <2>1
<1>6. ASSUME NEW q \in Singletons, NEW u \in Threads, NEW v \in Threads,
             NEW i \in 1 .. Len(todo'[u]), NEW j \in 1 .. Len(todo'[v]), todo'[u][i] = Made(q), todo'[v][j] = Made(q)
      PROVE  u = v /\ i = j
  <2>1. PICK a \in 1 .. Len(todo[u]) : todo[u][a] = Made(q) /\ a = (IF u = t THEN i + k ELSE i)
    BY <1>3, <1>6, SMTT(30)
  <2>2. PICK b \in 1 .. Len(todo[v]) : todo[v][b] = Made(q) /\ b = (IF v = t THEN j + k ELSE j)
    BY <1>3, <1>6
  <2>3. u = v /\ a = b
    BY <2>1, <2>2, <1>0, SMTT(30)
  <2>4. i \in Int /\ j \in Int
    OBVIOUS
  <2>5. CASE u = t
    BY <2>1, <2>2, <2>3, <2>4, <2>5
  <2>6. CASE u # t
    BY <2>1, <2>2, <2>3, <2>6
  <2> QED BY <2>5, <2>6
<1>7. \A q \in Singletons : \A u \in Threads : \A i \in 1 .. Len(todo'[u]) :
        todo'[u][i] = Made(q) => once'[q] = "making"
  BY <1>5
<1>8. \A q \in Singletons : \A u, v \in Threads : \A i \in 1 .. Len(todo'[u]), j \in 1 .. Len(todo'[v]) :
        todo'[u][i] = Made(q) /\ todo'[v][j] = Made(q) => u = v /\ i = j
  BY <1>6
<1> QED BY <1>4, <1>7, <1>8, Zenon DEF MakeInv

LEMMA TailStep ==
  ASSUME ShapeInv, MakeInv, NEW t \in Threads, NEW op, At(t, op), op # "made",
         Next1(t), UNCHANGED once
  PROVE  /\ todo' = [todo EXCEPT ![t] = SubSeq(@, 1 + 1, Len(@))] /\ 1 \in 0 .. Len(todo[t])
         /\ MakeInv'
<1>1. /\ Len(todo[t]) \in Nat \ {0} /\ todo[t][1].op = op
      /\ Tail(todo[t]) = SubSeq(todo[t], 1 + 1, Len(todo[t])) /\ 1 \in 0 .. Len(todo[t])
  BY AtHead
<1>2. todo' = [todo EXCEPT ![t] = SubSeq(@, 1 + 1, Len(@))]
  BY <1>1 DEF Next1
<1>3. \A q \in Singletons : todo[t][1] # Made(q)
  BY <1>1, Kinds
<1>4. /\ \A i \in 1 .. 1 : \A q \in Singletons : todo[t][i] = Made(q) => q \in {}
      /\ \A q \in {} : once'[q] # "making" /\ \E i \in 1 .. 1 : todo[t][i] = Made(q)
      /\ \A q \in Singletons \ {} : once'[q] = once[q]
      /\ {} \in SUBSET Singletons
  BY <1>3
<1>5. MakeInv'
  BY <1>1, <1>2, <1>4, MakeDrop
<1> QED BY <1>1, <1>2, <1>5

(* A cause that StoppedByItsOwn allows.                                    *)
Owned(c) ==
  /\ c.why = "config" => c.of \in services \cup {"root", "services"}
  /\ c.why \in {"nats", "embedded", "stream", "jetstream"} => NeedsNats
  /\ c.why = "sender" => "sender" \in services
  /\ c.why # "cancelled"

LEMMA OwnedCause == StoppedByItsOwn <=> Owned(cause)
BY DEF StoppedByItsOwn, Owned

LEMMA OwnedFrame ==
  ASSUME UNCHANGED <<pod, services>>
  PROVE  \A c : Owned(c)' = Owned(c)
BY StepsFrame DEF Owned

LEMMA CauseFields ==
  ASSUME NEW w, NEW o
  PROVE  Cause(w, o).why = w /\ Cause(w, o).of = o
BY DEF Cause

LEMMA OwnedCauses ==
  /\ \A o : o \in services \cup {"root", "services"} => Owned(Cause("config", o))
  /\ \A o : NeedsNats => Owned(Cause("stream", o)) /\ Owned(Cause("jetstream", o))
  /\ \A o, r : r \in MayMust => Owned(Cause(r, o))
  /\ \A o : Owned(Cause("failure", o)) /\ Owned(Cause("pool", o))
  /\ Owned(NoCause)
  /\ \A w, o : w # "none" => Cause(w, o) # NoCause
<1>1. ASSUME NEW o, o \in services \cup {"root", "services"} PROVE Owned(Cause("config", o))
  <2>1. Cause("config", o).why = "config" /\ Cause("config", o).of = o
    BY CauseFields
  <2> QED BY <1>1, <2>1, Zenon DEF Owned
<1>2. ASSUME NEW o, NeedsNats PROVE Owned(Cause("stream", o)) /\ Owned(Cause("jetstream", o))
  <2>1. Cause("stream", o).why = "stream" /\ Cause("stream", o).of = o
    BY CauseFields
  <2>2. Cause("jetstream", o).why = "jetstream" /\ Cause("jetstream", o).of = o
    BY CauseFields
  <2> QED BY <1>2, <2>1, <2>2, Zenon DEF Owned
<1>3. ASSUME NEW o, NEW r \in MayMust PROVE Owned(Cause(r, o))
  <2>1. r = "db" \/ (NeedsNats /\ r = "nats") \/ ("sender" \in services /\ r = "sender")
    BY DEF MayMust
  <2> QED BY <2>1, CauseFields, Zenon DEF Owned
<1>4. ASSUME NEW o PROVE Owned(Cause("failure", o)) /\ Owned(Cause("pool", o))
  <2>1. Cause("failure", o).why = "failure" /\ Cause("failure", o).of = o
    BY CauseFields
  <2>2. Cause("pool", o).why = "pool" /\ Cause("pool", o).of = o
    BY CauseFields
  <2> QED BY <2>1, <2>2, Zenon DEF Owned
<1>5. Owned(NoCause) /\ NoCause.why = "none"
  BY DEF Owned, NoCause
<1>6. \A w, o : w # "none" => Cause(w, o) # NoCause
  BY <1>5, CauseFields
<1> QED BY <1>1, <1>2, <1>3, <1>4, <1>5, <1>6

(* No return of a factory stands behind another step.                      *)
LEMMA NoMadeBehind ==
  ASSUME ShapeInv, NEW t \in Threads, NEW op, At(t, op), op \notin {"open", "made", "provision", "try"}
  PROVE  \A i \in 1 .. Len(todo[t]) : todo[t][i] \notin Mades
<1>1. todo[t][1].op = op /\ Len(todo[t]) \in Nat \ {0} /\ Shaped(todo[t])
  BY AtHead DEF ShapeInv
<1>2. ~Making(todo[t][1]) /\ todo[t][1] \notin Mades
  BY <1>1, Kinds
<1>3. \A i \in 1 + 1 .. Len(todo[t]) : todo[t][i] \notin Mades
  BY <1>1, <1>2 DEF Shaped
<1> QED BY <1>1, <1>2, <1>3

(* A runnable returns.                                                     *)
LEMMA ReturnStep ==
  ASSUME ProcessInv, NEW s \in Services, s \in services \ returned, proc = "running",
         \A i \in 1 .. Len(todo[s]) : todo[s][i] \notin Mades,
         NEW c, Return(s, c), cause = NoCause => Owned(c), s = "sender" => Resting(pool)
  PROVE  ProcessInv'
<1>0. /\ returned' = returned \cup {s} /\ todo' = [todo EXCEPT ![s] = <<>>]
      /\ cancelled' = (cancelled \/ c # NoCause) /\ cause' = (IF cause = NoCause THEN c ELSE cause)
      /\ UNCHANGED <<pod, services, proc, once, open, closers, hzs, pool>>
  BY DEF Return, containerVars
<1>1. ShapeInv /\ PhaseInv /\ MakeInv /\ PoolInv /\ CauseInv
  BY DEF ProcessInv
<1>2. s \in Threads /\ s # Boot /\ Boot \in Threads /\ \A u \in Services : u \in Threads /\ u # Boot
  BY DEF Threads, Boot, Services
<1>3. /\ \A u \in Threads : todo'[u] = IF u = s THEN <<>> ELSE todo[u]
      /\ DOMAIN todo' = Threads /\ todo' = [u \in Threads |-> todo'[u]]
  BY <1>0, <1>1, <1>2 DEF ShapeInv
<1>4. ShapeInv'
  <2>1. \A u \in Threads : StepsOf(u)' = StepsOf(u)
    BY <1>0, StepsFrame
  <2>2. Shaped(<<>>) /\ \A S : <<>> \in Seq(S)
    BY DEF Shaped
  <2>3. \A u \in Threads : todo'[u] \in Seq(StepsOf(u)) /\ Shaped(todo'[u])
    BY <1>1, <1>3, <2>2 DEF ShapeInv
  <2>4. returned' \subseteq services' /\ cancelled' \in BOOLEAN
    BY <1>0, <1>1 DEF ShapeInv
  <2> QED BY <1>0, <1>1, <1>3, <2>1, <2>3, <2>4 DEF ShapeInv
<1>5. PhaseInv'
  <2>1. proc' = "running"
    BY <1>0
  <2>2. todo'[Boot] = <<>>
    BY <1>1, <1>2, <1>3 DEF PhaseInv
  <2>3. \A u \in Services : u \in returned' \/ u \notin services' => todo'[u] = <<>>
    BY <1>0, <1>1, <1>2, <1>3 DEF PhaseInv
  <2> QED BY <2>1, <2>2, <2>3, Zenon DEF PhaseInv
<1>6. MakeInv'
  <2>1. PICK u \in Seq(StepsOf(s)) : u = todo[s]
    BY <1>1, <1>2 DEF ShapeInv
  <2>2. SubSeq(u, Len(u) + 1, Len(u)) = <<>> /\ Len(u) \in 0 .. Len(u)
    OBVIOUS
  <2>3. todo' = [todo EXCEPT ![s] = SubSeq(@, Len(todo[s]) + 1, Len(@))]
    BY <1>0, <2>1, <2>2
  <2>4. /\ \A i \in 1 .. Len(todo[s]) : \A q \in Singletons : todo[s][i] = Made(q) => q \in {}
        /\ \A q \in {} : once'[q] # "making" /\ \E i \in 1 .. Len(todo[s]) : todo[s][i] = Made(q)
        /\ \A q \in Singletons \ {} : once'[q] = once[q]
        /\ {} \in SUBSET Singletons
    BY <1>0 DEF Mades
  <2> QED BY <1>1, <1>2, <2>1, <2>2, <2>3, <2>4, MakeDrop
<1>7. PoolInv'
  <2>1. todo["sender"] = <<>> => todo'["sender"] = <<>>
    BY <1>2, <1>3 DEF Services, Threads
  <2>2. "sender" \in returned' => "sender" \in returned \/ Resting(pool)
    BY <1>0
  <2>3. proc' = proc /\ pool' = pool /\ services' = services /\ (cancelled => cancelled')
    BY <1>0
  <2>4. (InUse => InUse') /\ (Closing' => Closing)
    BY <2>1, <2>3, Zenon DEF InUse, Closing
  <2> QED BY <2>2, <2>3, <2>4, <1>1, Zenon DEF PoolInv
<1>8. CauseInv'
  <2>1. Owned(cause') /\ (cancelled' => cause' # NoCause)
    BY <1>0, <1>1, OwnedCause DEF CauseInv
  <2>2. Owned(cause)'
    BY <2>1, <1>0, OwnedFrame
  <2>3. StoppedByItsOwn'
    BY <2>2, OwnedCause, PTL
  <2> QED BY <2>1, <2>3 DEF CauseInv
<1> QED BY <1>4, <1>5, <1>6, <1>7, <1>8 DEF ProcessInv

(* A factory's return is to come, with nothing else's before it.           *)
LEMMA ProvisionAhead ==
  ASSUME NEW S, NEW s \in Seq(S), Shaped(s), NEW j \in 1 .. Len(s), s[j] = Provision
  PROVE  j + 1 \in 1 .. Len(s) /\ s[j + 1] = Made("nats") /\ s[j] \notin Mades
<1>1. Bound(s[j])
  BY DEF Bound
<1>2. j + 1 <= Len(s) /\ Follows(s[j], s[j + 1])
  BY <1>1 DEF Shaped
<1>3. s[j + 1] = Made("nats")
  BY <1>2 DEF Follows
<1>4. s[j] \notin Mades
  BY OpOf DEF Mades
<1> QED BY <1>2, <1>3, <1>4

LEMMA OpenAhead ==
  ASSUME NEW S, NEW s \in Seq(S), Shaped(s), NEW j \in 1 .. Len(s), NEW r \in Singletons, s[j] = Open(r)
  PROVE  \E m \in j + 1 .. Len(s) : s[m] = Made(r) /\ \A i \in j .. m - 1 : s[i] \notin Mades
<1>1. Bound(s[j])
  BY DEF Bound, Opens
<1>2. j + 1 <= Len(s) /\ Follows(s[j], s[j + 1])
  BY <1>1 DEF Shaped
<1>3. s[j + 1] = Made(r) \/ (r = "nats" /\ s[j + 1] = Provision)
  BY <1>2 DEF Follows
<1>4. s[j] \notin Mades
  BY OpOf DEF Mades
<1>5. CASE s[j + 1] = Made(r)
  <2>1. j + 1 \in j + 1 .. Len(s) /\ \A i \in j .. (j + 1) - 1 : i = j
    BY <1>2
  <2> QED BY <2>1, <1>4, <1>5
<1>6. CASE r = "nats" /\ s[j + 1] = Provision
  <2>1. j + 1 \in 1 .. Len(s)
    BY <1>2
  <2>2. (j + 1) + 1 \in 1 .. Len(s) /\ s[(j + 1) + 1] = Made("nats") /\ s[j + 1] \notin Mades
    BY <1>6, <2>1, ProvisionAhead
  <2>3. (j + 1) + 1 \in j + 1 .. Len(s) /\ \A i \in j .. ((j + 1) + 1) - 1 : i = j \/ i = j + 1
    BY <2>2
  <2>4. s[(j + 1) + 1] = Made(r)
    BY <2>2, <1>6
  <2> QED BY <2>2, <2>3, <2>4, <1>4
<1> QED BY <1>3, <1>5, <1>6

LEMMA TryAhead ==
  ASSUME NEW S, NEW s \in Seq(S), Shaped(s), NEW j \in 1 .. Len(s), s[j] = Try("embedded")
  PROVE  \E m \in j + 1 .. Len(s) : s[m] = Made("nats") /\ \A i \in j .. m - 1 : s[i] \notin Mades
<1>1. Bound(s[j])
  BY DEF Bound
<1>2. j + 1 <= Len(s) /\ Follows(s[j], s[j + 1])
  BY <1>1 DEF Shaped
<1>3. s[j + 1] = Open("nats")
  BY <1>2 DEF Follows
<1>4. s[j] \notin Mades
  BY OpOf DEF Mades
<1>5. PICK n \in Singletons : n = "nats"
  BY DEF Singletons
<1>6. j + 1 \in 1 .. Len(s) /\ s[j + 1] = Open(n)
  BY <1>2, <1>3, <1>5
<1>7. PICK m \in (j + 1) + 1 .. Len(s) : s[m] = Made(n) /\ \A i \in j + 1 .. m - 1 : s[i] \notin Mades
  BY <1>6, OpenAhead
<1>8. m \in j + 1 .. Len(s) /\ \A i \in j .. m - 1 : i = j \/ i \in j + 1 .. m - 1
  OBVIOUS
<1> QED BY <1>4, <1>5, <1>7, <1>8

(* What a factory leaves behind when it fails.                             *)
Starts(t, r) ==
  todo[t][1] = Open(r) \/ (r = "nats" /\ todo[t][1] \in {Provision, Try("embedded")})

LEMMA FailStep ==
  ASSUME ProcessInv, NEW t \in Threads, NEW op, At(t, op), NEW r \in Singletons, Starts(t, r), FactoryFails(t, r),
         UNCHANGED <<pod, services, proc, cause, returned, cancelled, open, closers, pool>>
  PROVE  ProcessInv'
<1>1. ShapeInv /\ PhaseInv /\ MakeInv /\ PoolInv /\ CauseInv
  BY DEF ProcessInv
<1>2. Alive /\ todo[t] # <<>> /\ todo[t] \in Seq(StepsOf(t)) /\ Len(todo[t]) \in Nat \ {0} /\ Shaped(todo[t])
  BY <1>1, AtHead DEF ShapeInv
<1>3. PICK k \in 1 .. Len(todo[t]) : todo[t][k] = Made(r) /\ todo' = [todo EXCEPT ![t] = SubSeq(@, k + 1, Len(@))]
  BY DEF FactoryFails
<1>4. once' = [once EXCEPT ![r] = "failed"]
  BY DEF FactoryFails
<1>5. \E m \in 1 .. Len(todo[t]) : todo[t][m] = Made(r) /\ \A i \in 1 .. m - 1 : todo[t][i] \notin Mades
  <2>1. 1 \in 1 .. Len(todo[t]) /\ \A m \in 1 + 1 .. Len(todo[t]) : m \in 1 .. Len(todo[t])
    BY <1>2
  <2>2. CASE todo[t][1] = Open(r)
    BY <2>1, <2>2, <1>2, OpenAhead
  <2>3. CASE r = "nats" /\ todo[t][1] = Provision
    <3>1. 1 + 1 \in 1 .. Len(todo[t]) /\ todo[t][1 + 1] = Made("nats") /\ todo[t][1] \notin Mades
      BY <2>1, <2>3, <1>2, ProvisionAhead
    <3>2. \A i \in 1 .. (1 + 1) - 1 : i = 1
      OBVIOUS
    <3> QED BY <2>3, <3>1, <3>2
  <2>4. CASE r = "nats" /\ todo[t][1] = Try("embedded")
    <3>1. \E m \in 1 + 1 .. Len(todo[t]) : todo[t][m] = Made("nats") /\ \A i \in 1 .. m - 1 : todo[t][i] \notin Mades
      BY <2>1, <2>4, <1>2, TryAhead
    <3> QED BY <2>1, <2>4, <3>1
  <2> QED BY <2>2, <2>3, <2>4 DEF Starts
<1>6. \A i \in 1 .. k - 1 : todo[t][i] \notin Mades
  BY <1>1, <1>3, <1>5 DEF MakeInv
<1>7. /\ \A i \in 1 .. k : \A q \in Singletons : todo[t][i] = Made(q) => q \in {r}
      /\ \A q \in {r} : once'[q] # "making" /\ \E i \in 1 .. k : todo[t][i] = Made(q)
      /\ \A q \in Singletons \ {r} : once'[q] = once[q]
      /\ {r} \in SUBSET Singletons /\ k \in 0 .. Len(todo[t])
  <2>1. \A i \in 1 .. k : i = k \/ i \in 1 .. k - 1
    OBVIOUS
  <2>2. \A i \in 1 .. k : \A q \in Singletons : todo[t][i] = Made(q) => q \in {r}
    BY <2>1, <1>3, <1>6, MadeIsOne DEF Mades
  <2>3. once'[r] = "failed" /\ \A q \in Singletons \ {r} : once'[q] = once[q]
    BY <1>1, <1>4 DEF ShapeInv
  <2> QED BY <2>2, <2>3, <1>3
<1>8. MakeInv'
  BY <1>1, <1>3, <1>7, MakeDrop
<1>9. once' \in [Singletons -> {"none", "making", "made", "failed"}] /\ open' \subseteq closers' \cap Singletons
  BY <1>1, <1>4 DEF ShapeInv
<1>10. ShapeInv' /\ PhaseInv' /\ PoolInv' /\ CauseInv'
  BY <1>1, <1>2, <1>3, <1>7, <1>9, DropStep
<1> QED BY <1>8, <1>10 DEF ProcessInv

(* A thread goes on to its next step.                                      *)
LEMMA GoesOn ==
  ASSUME ProcessInv, NEW t \in Threads, NEW op, At(t, op), op # "made", Next1(t),
         UNCHANGED <<pod, services, proc, cause, returned, cancelled, once, pool>>,
         open' \subseteq closers' \cap Singletons
  PROVE  ProcessInv'
<1>1. ShapeInv /\ PhaseInv /\ MakeInv /\ PoolInv /\ CauseInv
  BY DEF ProcessInv
<1>2. /\ todo' = [todo EXCEPT ![t] = SubSeq(@, 1 + 1, Len(@))] /\ 1 \in 0 .. Len(todo[t])
      /\ MakeInv'
  BY <1>1, TailStep
<1>3. Alive /\ todo[t] # <<>>
  BY <1>1, AtHead
<1>4. once' \in [Singletons -> {"none", "making", "made", "failed"}]
  BY <1>1 DEF ShapeInv
<1>5. ShapeInv' /\ PhaseInv' /\ PoolInv' /\ CauseInv'
  BY <1>1, <1>2, <1>3, <1>4, DropStep
<1> QED BY <1>2, <1>5 DEF ProcessInv

-----------------------------------------------------------------------------
(* One lemma per action of a thread.                                       *)
(* The process ends where it stands.                                       *)
LEMMA ExitStep ==
  ASSUME ProcessInv, proc' \in {"exited", "panicked"}, Owned(cause'), cause' # NoCause,
         UNCHANGED <<pod, services, todo, returned, cancelled, once, open, closers, pool>>
  PROVE  ProcessInv'
<1>1. ShapeInv /\ PhaseInv /\ MakeInv /\ PoolInv /\ CauseInv
  BY DEF ProcessInv
<1>2. \A u \in Threads : StepsOf(u)' = StepsOf(u)
  BY StepsFrame
<1>3. ShapeInv'
  <2>1. proc' \in Procs
    BY DEF Procs
  <2> QED BY <2>1, <1>1, <1>2 DEF ShapeInv
<1>4. PhaseInv'
  BY <1>1, Zenon DEF PhaseInv
<1>5. MakeInv'
  BY <1>1 DEF MakeInv
<1>6. PoolInv'
  <2>1. (InUse => InUse') /\ ~Closing'
    BY Zenon DEF InUse, Closing
  <2> QED BY <2>1, <1>1, Zenon DEF PoolInv, Tally, Used, Past, Settled, Ending, Resting
<1>7. CauseInv'
  <2>1. Owned(cause)'
    BY OwnedFrame
  <2>2. StoppedByItsOwn'
    BY <2>1, OwnedCause, PTL
  <2> QED BY <2>2 DEF CauseInv
<1> QED BY <1>3, <1>4, <1>5, <1>6, <1>7 DEF ProcessInv

(* While nothing has been taken on, the pool is in nobody's way.           *)
LEMMA Unused ==
  ASSUME PoolInv, ~Used(pool), UNCHANGED pool
  PROVE  PoolInv'
BY DEF PoolInv, Used, Past, Ending, Resting

LEMMA SectionStep ==
  ASSUME ProcessInv, NEW t \in Threads, LoadSection(t)
  PROVE  ProcessInv'
<1>0. /\ At(t, "section") /\ Next1(t)
      /\ IF TryLoadSection(Head(todo[t]).of, Head(todo[t]).fields) THEN Quietly
         ELSE Unwind(Cause("config", Head(todo[t]).of))
      /\ UNCHANGED <<pod, services, returned, cancelled, once, open, closers, hzs, pool>>
  BY Zenon DEF LoadSection, groupVars, containerVars
<1>1. ShapeInv /\ PhaseInv /\ MakeInv /\ PoolInv /\ CauseInv
  BY DEF ProcessInv
<1>2. open' \subseteq closers' \cap Singletons
  BY <1>0, <1>1 DEF ShapeInv
<1>3. CASE Quietly
  BY <1>0, <1>2, <1>3, GoesOn DEF Quietly
<1>4. CASE Unwind(Cause("config", Head(todo[t]).of))
  <2>1. /\ todo[t][1] \in StepsOf(t) /\ todo[t][1].op = "section" /\ Head(todo[t]) = todo[t][1]
        /\ Alive /\ todo[t] # <<>>
    BY <1>0, <1>1, AtHead
  <2>2. t = Boot /\ todo[t][1].of \in services
    BY <2>1, StepCases
  <2>3. proc = "booting"
    BY <2>1, <2>2, <1>1, AtPhase
  <2>4. proc' = "closing" /\ cause' = Cause("config", todo[t][1].of)
    BY <1>4, <2>1 DEF Unwind
  <2>5. /\ todo' = [todo EXCEPT ![t] = SubSeq(@, 1 + 1, Len(@))] /\ 1 \in 0 .. Len(todo[t])
        /\ MakeInv'
    BY <1>0, <1>1, TailStep
  <2>6. \A i \in 1 .. Len(todo[t]) : todo[t][i] \notin Mades
    BY <1>0, <1>1, NoMadeBehind
  <2>7. PICK s \in Seq(StepsOf(t)) : s = todo[t] /\ Shaped(s)
    BY <1>1 DEF ShapeInv
  <2>8. /\ todo'[t] \in Seq(StepsOf(t)) /\ Shaped(todo'[t])
        /\ Len(todo'[t]) = Len(s) - 1 /\ \A i \in 1 .. Len(s) - 1 : todo'[t][i] = s[i + 1]
    <3>1. todo'[t] = SubSeq(s, 1 + 1, Len(s)) /\ 1 \in 0 .. Len(s)
      BY <2>5, <2>7, <1>1 DEF ShapeInv
    <3> QED BY <3>1, <2>7, ShapedSuffix
  <2>9. \A u \in Threads : u # t => todo'[u] = todo[u]
    BY <2>5, <1>1 DEF ShapeInv
  <2>10. DOMAIN todo' = Threads /\ todo' = [u \in Threads |-> todo'[u]]
    BY <2>5, <1>1 DEF ShapeInv
  <2>11. ShapeInv'
    <3>1. \A u \in Threads : StepsOf(u)' = StepsOf(u)
      BY <1>0, StepsFrame
    <3>2. proc' \in Procs
      BY <2>4 DEF Procs
    <3>3. \A u \in Threads : todo'[u] \in Seq(StepsOf(u)) /\ Shaped(todo'[u])
      BY <2>8, <2>9, <1>1 DEF ShapeInv
    <3> QED BY <1>0, <1>1, <1>2, <2>10, <3>1, <3>2, <3>3 DEF ShapeInv
  <2>12. Boot \in Threads /\ \A u \in Services : u \in Threads /\ u # Boot
    BY DEF Threads, Boot, Services
  <2>13. PhaseInv'
    <3>1. \A u \in Services : todo'[u] = <<>>
      BY <2>2, <2>3, <2>9, <2>12, <1>1 DEF PhaseInv
    <3>2. \A i \in 1 .. Len(todo'[Boot]) : todo'[Boot][i] \notin Mades
      <4>1. \A i \in 1 .. Len(s) - 1 : i + 1 \in 1 .. Len(s)
        BY <2>7
      <4> QED BY <2>2, <2>6, <2>7, <2>8, <4>1
    <3> QED BY <2>4, <3>1, <3>2, Zenon DEF PhaseInv
  <2>14. PoolInv'
    <3>1. ~Used(pool) /\ pool' = pool
      BY <1>0, <1>1, <2>3, Zenon DEF PoolInv, InUse
    <3> QED BY <3>1, <1>0, <1>1, Unused
  <2>15. CauseInv'
    <3>1. Owned(cause') /\ cause' # NoCause
      BY <2>2, <2>4, OwnedCauses
    <3>2. Owned(cause)'
      BY <3>1, <1>0, OwnedFrame
    <3>3. StoppedByItsOwn'
      BY <3>2, OwnedCause, PTL
    <3> QED BY <3>1, <3>3 DEF CauseInv
  <2> QED BY <2>5, <2>11, <2>13, <2>14, <2>15 DEF ProcessInv
<1> QED BY <1>0, <1>3, <1>4

LEMMA GivenStep ==
  ASSUME ProcessInv, NEW t \in Threads, Given(t) \/ jetStream(t) \/ StreamForRecords(t) \/ Connects(t)
  PROVE  ProcessInv'
<1>1. ShapeInv
  BY DEF ProcessInv
<1>2. CASE Given(t)
  <2>1. /\ At(t, "must") \/ At(t, "try")
        /\ Next1(t) /\ UNCHANGED <<pod, services, proc, cause, returned, cancelled, once, open, closers, pool>>
    BY <1>2, Zenon DEF Given, groupVars, containerVars, Quietly
  <2>2. open' \subseteq closers' \cap Singletons
    BY <2>1, <1>1 DEF ShapeInv
  <2> QED BY <2>1, <2>2, GoesOn
<1>3. CASE jetStream(t)
  <2>1. /\ At(t, "check")
        /\ Next1(t) /\ UNCHANGED <<pod, services, proc, cause, returned, cancelled, once, open, closers, pool>>
    BY <1>3, Zenon DEF jetStream, groupVars, Quietly
  <2>2. open' \subseteq closers' \cap Singletons
    BY <2>1, <1>1 DEF ShapeInv
  <2> QED BY <2>1, <2>2, GoesOn
<1>4. CASE Connects(t)
  <2>1. PICK held : held = {Head(todo[t]).of} \ {"sender"}
    OBVIOUS
  <2>2. /\ At(t, "open") /\ open' = open \cup held /\ closers' = closers \cup held
        /\ Next1(t) /\ UNCHANGED <<pod, services, proc, cause, returned, cancelled, once, pool>>
    BY <1>4, <2>1, Zenon DEF Connects, groupVars, Quietly
  <2>3. Head(todo[t]) \in StepsOf(t) /\ Head(todo[t]).op = "open"
    BY <2>2, <1>1, AtHead
  <2>4. PICK r \in Singletons : Head(todo[t]) = Open(r)
    BY <2>3, StepCases
  <2>5. held \subseteq Singletons
    BY <2>1, <2>4, OpOf
  <2>6. open' \subseteq closers' \cap Singletons
    BY <2>2, <2>5, <1>1 DEF ShapeInv
  <2> QED BY <2>2, <2>6, GoesOn
<1>5. CASE StreamForRecords(t)
  <2>1. /\ At(t, "configure")
        /\ Next1(t) /\ UNCHANGED <<pod, services, proc, cause, returned, cancelled, once, open, closers, pool>>
    BY <1>5, Zenon DEF StreamForRecords, groupVars, containerVars, Quietly
  <2>2. open' \subseteq closers' \cap Singletons
    BY <2>1, <1>1 DEF ShapeInv
  <2> QED BY <2>1, <2>2, GoesOn
<1> QED BY <1>2, <1>3, <1>4, <1>5

(* What Must and Try steps ask for.                                        *)
LEMMA AskedFor ==
  ASSUME ShapeInv, NEW t \in Threads, At(t, "must") \/ At(t, "try")
  PROVE  Head(todo[t]).of \in Singletons /\ (At(t, "must") => Head(todo[t]).of \in MayMust)
<1>1. MayMust \subseteq Singletons
  BY DEF MayMust, Singletons
<1>2. CASE At(t, "must")
  <2>1. Head(todo[t]) \in StepsOf(t) /\ Head(todo[t]).op = "must"
    BY <1>2, AtHead
  <2>2. PICK r \in MayMust : Head(todo[t]) = Must(r)
    BY <2>1, StepCases
  <2> QED BY <1>1, <2>2, OpOf
<1>3. CASE At(t, "try") /\ ~At(t, "must")
  <2>1. Head(todo[t]) \in StepsOf(t) /\ Head(todo[t]).op = "try"
    BY <1>3, AtHead
  <2>2. Head(todo[t]) = Try("embedded") \/ Head(todo[t]) = Try("nats")
    BY <2>1, StepCases
  <2>3. "embedded" \in Singletons /\ "nats" \in Singletons
    BY DEF Singletons
  <2> QED BY <1>3, <2>2, <2>3, OpOf
<1> QED BY <1>2, <1>3

LEMMA GetStep ==
  ASSUME ProcessInv, NEW t \in Threads, Get(t)
  PROVE  ProcessInv'
<1>1. ShapeInv /\ PhaseInv /\ MakeInv /\ PoolInv /\ CauseInv
  BY DEF ProcessInv
<1>2. PICK r : r = Head(todo[t]).of
  OBVIOUS
<1>3. /\ At(t, "must") \/ At(t, "try")
      /\ once[r] = "none" /\ once' = [once EXCEPT ![r] = "making"]
      /\ todo' = [todo EXCEPT ![t] = Factory(r) \o @]
      /\ UNCHANGED <<pod, services, proc, cause, returned, cancelled, open, closers, hzs, pool>>
  BY <1>2, Zenon DEF Get, groupVars
<1>4. r \in Singletons
  BY <1>1, <1>2, <1>3, AskedFor
<1>5. Alive /\ todo[t] # <<>>
  BY <1>1, <1>3, AtHead
<1>6. PICK f \in Seq(StepsOf(t)) : f = Factory(r) /\ Front(f, r)
  BY <1>4, FactoryIsFront
<1>7. PICK s \in Seq(StepsOf(t)) : s = todo[t] /\ Shaped(s)
  BY <1>1 DEF ShapeInv
<1>8. PICK n \in Nat \ {0} : n = Len(f)
  BY <1>6 DEF Front
<1>9. PICK m \in Nat : m = Len(s)
  BY <1>7
<1>10. /\ \A u \in Threads : u # t => todo'[u] = todo[u]
       /\ DOMAIN todo' = Threads /\ todo' = [u \in Threads |-> todo'[u]]
       /\ todo'[t] = f \o s
  BY <1>1, <1>3, <1>6, <1>7 DEF ShapeInv
<1>11. /\ todo'[t] \in Seq(StepsOf(t)) /\ Shaped(todo'[t]) /\ Len(todo'[t]) = n + m
       /\ todo'[t][n] = Made(r) /\ \A i \in 1 .. n - 1 : todo'[t][i] \notin Mades
       /\ \A i \in 1 .. m : todo'[t][n + i] = s[i]
  BY <1>6, <1>7, <1>8, <1>9, <1>10, FrontFirst
<1>12. /\ once'[r] = "making" /\ \A q \in Singletons : q # r => once'[q] = once[q]
       /\ once' \in [Singletons -> {"none", "making", "made", "failed"}]
  BY <1>1, <1>3, <1>4 DEF ShapeInv
<1>13. ShapeInv'
  <2>1. \A u \in Threads : StepsOf(u)' = StepsOf(u)
    BY <1>3, StepsFrame
  <2>2. \A u \in Threads : todo'[u] \in Seq(StepsOf(u)) /\ Shaped(todo'[u])
    BY <1>1, <1>10, <1>11 DEF ShapeInv
  <2> QED BY <1>1, <1>3, <1>10, <1>12, <2>1, <2>2 DEF ShapeInv
<1>14. Boot \in Threads /\ "sender" \in Threads /\ \A u \in Services : u \in Threads /\ u # Boot
  BY DEF Threads, Boot, Services
<1>15. PhaseInv'
  <2>1. /\ t # Boot => proc = "running" /\ t \in services /\ t \notin returned
        /\ t = Boot => proc = "booting"
    BY <1>1, <1>5, AtPhase
  <2>2. proc' = proc /\ proc \in {"booting", "running"}
    BY <1>3, <1>5 DEF Alive
  <2> QED BY <1>1, <1>3, <1>10, <1>14, <2>1, <2>2, Zenon DEF PhaseInv
<1>16. PoolInv'
  <2>1. t # "sender" => todo'["sender"] = todo["sender"]
    BY <1>10, <1>14
  <2> QED BY <1>1, <1>3, <1>5, <2>1, BusySender
<1>17. CauseInv'
  BY <1>1, <1>3, StepsFrame DEF CauseInv, StoppedByItsOwn
<1>18. ASSUME NEW u \in Threads, NEW i \in 1 .. Len(todo'[u]), NEW q \in Singletons, todo'[u][i] = Made(q)
       PROVE  (q = r /\ u = t /\ i = n)
              \/ (q # r /\ \E j \in 1 .. Len(todo[u]) : todo[u][j] = Made(q) /\ i = (IF u = t THEN n + j ELSE j))
  <2>1. ASSUME NEW j \in 1 .. Len(todo[u]), todo[u][j] = Made(q) PROVE q # r
    BY <2>1, <1>1, <1>3 DEF MakeInv
  <2>2. CASE u # t
    BY <2>1, <2>2, <1>10, <1>18
  <2>3. CASE u = t /\ i < n
    <3>1. i \in 1 .. n - 1
      BY <2>3
    <3> QED BY <3>1, <2>3, <1>11, <1>18 DEF Mades
  <2>4. CASE u = t /\ i = n
    <3>1. Made(q) = Made(r)
      BY <2>4, <1>11, <1>18
    <3> QED BY <3>1, <2>4, MadeIsOne
  <2>5. CASE u = t /\ i > n
    <3>1. i - n \in 1 .. m /\ i = n + (i - n)
      BY <2>5, <1>11
    <3>2. s[i - n] = Made(q)
      BY <3>1, <2>5, <1>11, <1>18
    <3> QED BY <3>1, <3>2, <2>1, <2>5, <1>7, <1>9
  <2>6. i \in Nat
    <3>1. Len(todo'[u]) \in Nat
      BY <1>13 DEF ShapeInv
    <3> QED BY <3>1
  <2> QED BY <2>2, <2>3, <2>4, <2>5, <2>6
<1>19. MakeInv'
  <2>1. ASSUME NEW q \in Singletons, once'[q] = "making"
        PROVE  \E u \in Threads : \E i \in 1 .. Len(todo'[u]) : todo'[u][i] = Made(q)
    <3>1. CASE q = r
      <4>1. n \in 1 .. n + m
        OBVIOUS
      <4> QED BY <3>1, <4>1, <1>11
    <3>2. CASE q # r
      <4>1. once[q] = "making"
        BY <2>1, <3>2, <1>12
      <4>0. PICK u \in Threads : \E i \in 1 .. Len(todo[u]) : todo[u][i] = Made(q)
        BY <4>1, <1>1 DEF MakeInv
      <4>2. PICK i \in 1 .. Len(todo[u]) : todo[u][i] = Made(q)
        BY <4>0
      <4>3. CASE u # t
        BY <4>2, <4>3, <1>10
      <4>4. CASE u = t
        <5>1. i \in 1 .. m /\ n + i \in 1 .. n + m
          BY <4>2, <4>4, <1>7, <1>9
        <5> QED BY <5>1, <4>2, <4>4, <1>7, <1>11
      <4> QED BY <4>3, <4>4
    <3> QED BY <3>1, <3>2
  <2>2. ASSUME NEW q \in Singletons, NEW u \in Threads, NEW i \in 1 .. Len(todo'[u]), todo'[u][i] = Made(q)
        PROVE  once'[q] = "making"
    <3>1. q = r \/ (q # r /\ \E j \in 1 .. Len(todo[u]) : todo[u][j] = Made(q))
      BY <2>2, <1>18
    <3>2. q # r => once[q] = "making"
      BY <3>1, <1>1 DEF MakeInv
    <3> QED BY <3>1, <3>2, <1>12
  <2>3. ASSUME NEW q \in Singletons, NEW u \in Threads, NEW v \in Threads,
               NEW i \in 1 .. Len(todo'[u]), NEW j \in 1 .. Len(todo'[v]), todo'[u][i] = Made(q), todo'[v][j] = Made(q)
        PROVE  u = v /\ i = j
    <3>1. CASE q = r
      BY <3>1, <2>3, <1>18
    <3>2. CASE q # r
      <4>1. PICK a \in 1 .. Len(todo[u]) : todo[u][a] = Made(q) /\ i = (IF u = t THEN n + a ELSE a)
        BY <3>2, <2>3, <1>18
      <4>2. PICK b \in 1 .. Len(todo[v]) : todo[v][b] = Made(q) /\ j = (IF v = t THEN n + b ELSE b)
        BY <3>2, <2>3, <1>18
      <4>3. u = v /\ a = b
        BY <4>1, <4>2, <1>1 DEF MakeInv
      <4> QED BY <4>1, <4>2, <4>3
    <3> QED BY <3>1, <3>2
  <2> QED BY <2>1, <2>2, <2>3 DEF MakeInv
<1> QED BY <1>13, <1>15, <1>16, <1>17, <1>19 DEF ProcessInv

LEMMA MustGetStep ==
  ASSUME ProcessInv, NEW t \in Threads, MustGet(t)
  PROVE  ProcessInv'
<1>1. ShapeInv
  BY DEF ProcessInv
<1>2. PICK r : r = Head(todo[t]).of
  OBVIOUS
<1>3. /\ At(t, "must") /\ proc' = "exited" /\ cause' = Cause(r, t)
      /\ UNCHANGED <<pod, services, todo, returned, cancelled, once, open, closers, pool>>
  BY <1>2, Zenon DEF MustGet, Exit, groupVars, containerVars
<1>4. r \in MayMust
  BY <1>1, <1>2, <1>3, AskedFor
<1>5. r # "none"
  BY <1>4 DEF MayMust
<1>6. Owned(cause') /\ cause' # NoCause
  BY <1>3, <1>4, <1>5, OwnedCauses
<1> QED BY <1>3, <1>6, ExitStep

LEMMA TryNatsStep ==
  ASSUME ProcessInv, NEW t \in Threads, TryNats(t)
  PROVE  ProcessInv'
<1>1. ShapeInv /\ PhaseInv /\ MakeInv /\ PoolInv /\ CauseInv
  BY DEF ProcessInv
<1>2. PICK r : r = Head(todo[t]).of
  OBVIOUS
<1>3. /\ At(t, "try")
      /\ IF r = "embedded" THEN FactoryFails(t, "nats")
         ELSE todo' = [todo EXCEPT ![t] = SubSeq(@, Len(startAuditRecording) + 1, Len(@))] /\ UNCHANGED once
      /\ UNCHANGED <<pod, services, proc, cause, returned, cancelled, open, closers, pool>>
  BY <1>2, Zenon DEF TryNats, Quietly, groupVars
<1>4. /\ Alive /\ todo[t] # <<>> /\ todo[t] \in Seq(StepsOf(t)) /\ Len(todo[t]) \in Nat \ {0} /\ Shaped(todo[t])
      /\ Head(todo[t]) = todo[t][1] /\ todo[t][1] \in StepsOf(t) /\ todo[t][1].op = "try"
  BY <1>1, <1>3, AtHead DEF ShapeInv
<1>5. todo[t][1] = Try("embedded") \/ (AuditEnabled /\ todo[t][1] = Try("nats"))
  BY <1>4, StepCases
<1>6. CASE todo[t][1] = Try("embedded")
  <2>1. r = "embedded"
    BY <1>2, <1>4, <1>6, OpOf
  <2>2. PICK n \in Singletons : n = "nats"
    BY DEF Singletons
  <2>3. FactoryFails(t, n) /\ Starts(t, n)
    BY <2>1, <2>2, <1>3, <1>6 DEF Starts
  <2> QED BY <2>3, <1>3, FailStep
<1>7. CASE AuditEnabled /\ todo[t][1] = Try("nats")
  <2>1. r # "embedded"
    BY <1>2, <1>4, <1>7, OpOf
  <2>2. Bound(todo[t][1]) /\ ~Making(todo[t][1]) /\ todo[t][1] \notin Mades
    BY <1>7, OpOf DEF Bound, Making, Opens, Mades
  <2>3. 1 + 1 <= Len(todo[t]) /\ \A j \in 1 + 1 .. Len(todo[t]) : todo[t][j] \notin Mades
    BY <2>2, <1>4 DEF Shaped
  <2>4. Len(startAuditRecording) = 3
    <3>1. PICK a, b, c : a = Try("nats") /\ b = Checked("jetstream") /\ c = Configure
      OBVIOUS
    <3>2. startAuditRecording = <<a, b>> \o <<c>>
      BY <3>1, <1>7 DEF startAuditRecording, TryNatsJetStream
    <3> QED BY <3>2
  <2>5. PICK s \in Seq(StepsOf(t)) : s = todo[t]
    BY <1>4
  <2>6. PICK k \in 0 .. Len(s) : SubSeq(s, 3 + 1, Len(s)) = SubSeq(s, k + 1, Len(s))
    <3>1. PICK n \in Nat : n = Len(s) /\ 2 <= n
      BY <2>3, <2>5
    <3>2. CASE n = 2
      <4>1. SubSeq(s, 3 + 1, n) = SubSeq(s, 2 + 1, n) /\ 2 \in 0 .. n
        BY <3>1, <3>2
      <4> QED BY <3>1, <4>1
    <3>3. CASE n # 2
      <4>1. 3 \in 0 .. n
        BY <3>1, <3>3
      <4> QED BY <3>1, <4>1
    <3> QED BY <3>2, <3>3
  <2>7. /\ \A i \in 1 .. k : \A q \in Singletons : todo[t][i] = Made(q) => q \in {}
        /\ \A q \in {} : once'[q] # "making" /\ \E i \in 1 .. k : todo[t][i] = Made(q)
        /\ \A q \in Singletons \ {} : once'[q] = once[q]
        /\ {} \in SUBSET Singletons /\ k \in 0 .. Len(todo[t])
        /\ todo' = [todo EXCEPT ![t] = SubSeq(@, k + 1, Len(@))]
    <3>1. \A i \in 1 .. k : i = 1 \/ i \in 1 + 1 .. Len(todo[t])
      BY <2>5
    <3>2. \A i \in 1 .. k : todo[t][i] \notin Mades
      BY <3>1, <2>2, <2>3
    <3>3. todo' = [todo EXCEPT ![t] = SubSeq(@, k + 1, Len(@))]
      BY <1>3, <2>1, <2>4, <2>5, <2>6
    <3> QED BY <3>2, <3>3, <2>1, <2>5, <1>3 DEF Mades
  <2>8. MakeInv'
    BY <2>7, <1>1, MakeDrop
  <2>9. once' \in [Singletons -> {"none", "making", "made", "failed"}] /\ open' \subseteq closers' \cap Singletons
    BY <2>1, <1>1, <1>3 DEF ShapeInv
  <2>10. ShapeInv' /\ PhaseInv' /\ PoolInv' /\ CauseInv'
    BY <2>7, <2>9, <1>1, <1>3, <1>4, DropStep
  <2> QED BY <2>8, <2>10 DEF ProcessInv
<1> QED BY <1>5, <1>6, <1>7

LEMMA ConnectFailsStep ==
  ASSUME ProcessInv, NEW t \in Threads, ConnectFails(t)
  PROVE  ProcessInv'
<1>1. ShapeInv
  BY DEF ProcessInv
<1>2. PICK r : r = Head(todo[t]).of
  OBVIOUS
<1>3. /\ At(t, "open") /\ FactoryFails(t, r)
      /\ UNCHANGED <<pod, services, proc, cause, returned, cancelled, open, closers, pool>>
  BY <1>2, Zenon DEF ConnectFails, Quietly, groupVars
<1>4. Head(todo[t]) = todo[t][1] /\ Head(todo[t]) \in StepsOf(t) /\ Head(todo[t]).op = "open"
  BY <1>1, <1>3, AtHead
<1>5. PICK q \in Singletons : todo[t][1] = Open(q)
  BY <1>4, StepCases
<1>6. r \in Singletons /\ Starts(t, r)
  BY <1>2, <1>4, <1>5, OpOf DEF Starts
<1> QED BY <1>3, <1>6, FailStep

LEMMA ProvisionStep ==
  ASSUME ProcessInv, NEW t \in Threads, provisionEmbeddedJetStreams(t)
  PROVE  ProcessInv'
<1>1. ShapeInv
  BY DEF ProcessInv
<1>2. /\ At(t, "provision")
      /\ \/ Next1(t) /\ UNCHANGED once
         \/ FactoryFails(t, "nats")
      /\ UNCHANGED <<pod, services, proc, cause, returned, cancelled, open, closers, pool>>
  BY Zenon DEF provisionEmbeddedJetStreams, Quietly, groupVars
<1>3. Head(todo[t]) = todo[t][1] /\ Head(todo[t]) \in StepsOf(t) /\ Head(todo[t]).op = "provision"
  BY <1>1, <1>2, AtHead
<1>4. todo[t][1] = Provision
  BY <1>3, StepCases
<1>5. CASE Next1(t) /\ UNCHANGED once
  <2>1. open' \subseteq closers' \cap Singletons
    BY <1>1, <1>2 DEF ShapeInv
  <2> QED BY <2>1, <1>2, <1>5, GoesOn
<1>6. CASE FactoryFails(t, "nats")
  <2>1. PICK n \in Singletons : n = "nats"
    BY DEF Singletons
  <2>2. FactoryFails(t, n) /\ Starts(t, n)
    BY <2>1, <1>4, <1>6 DEF Starts
  <2> QED BY <2>2, <1>2, FailStep
<1> QED BY <1>2, <1>5, <1>6

LEMMA FactoryReturnsStep ==
  ASSUME ProcessInv, NEW t \in Threads, FactoryReturns(t)
  PROVE  ProcessInv'
<1>1. ShapeInv /\ PhaseInv /\ MakeInv /\ PoolInv /\ CauseInv
  BY DEF ProcessInv
<1>2. PICK r : r = Head(todo[t]).of
  OBVIOUS
<1>3. /\ At(t, "made") /\ once' = [once EXCEPT ![r] = "made"] /\ Next1(t)
      /\ UNCHANGED <<pod, services, proc, cause, returned, cancelled, open, closers, pool>>
  BY <1>2, Zenon DEF FactoryReturns, Quietly, groupVars
<1>4. /\ Alive /\ todo[t] # <<>> /\ Len(todo[t]) \in Nat \ {0} /\ Head(todo[t]) = todo[t][1]
      /\ Head(todo[t]) \in StepsOf(t) /\ Head(todo[t]).op = "made"
      /\ Tail(todo[t]) = SubSeq(todo[t], 2, Len(todo[t]))
  BY <1>1, <1>3, AtHead
<1>5. r \in Singletons /\ todo[t][1] = Made(r)
  <2>1. PICK q \in Singletons : Head(todo[t]) = Made(q)
    BY <1>4, StepCases
  <2> QED BY <2>1, <1>2, <1>4, OpOf
<1>6. /\ \A i \in 1 .. 1 : \A q \in Singletons : todo[t][i] = Made(q) => q \in {r}
      /\ \A q \in {r} : once'[q] # "making" /\ \E i \in 1 .. 1 : todo[t][i] = Made(q)
      /\ \A q \in Singletons \ {r} : once'[q] = once[q]
      /\ {r} \in SUBSET Singletons /\ 1 \in 0 .. Len(todo[t])
      /\ todo' = [todo EXCEPT ![t] = SubSeq(@, 1 + 1, Len(@))]
  <2>1. \A i \in 1 .. 1 : i = 1
    OBVIOUS
  <2>2. \A q \in Singletons : todo[t][1] = Made(q) => q \in {r}
    BY <1>5, MadeIsOne
  <2>3. once'[r] = "made" /\ \A q \in Singletons \ {r} : once'[q] = once[q]
    BY <1>1, <1>3, <1>5 DEF ShapeInv
  <2>4. 1 \in 0 .. Len(todo[t]) /\ 1 + 1 = 2 /\ 1 \in 1 .. 1
    BY <1>4
  <2>5. todo' = [todo EXCEPT ![t] = SubSeq(@, 1 + 1, Len(@))]
    BY <2>4, <1>3, <1>4 DEF Next1
  <2> QED BY <2>1, <2>2, <2>3, <2>4, <2>5, <1>5
<1>7. MakeInv'
  BY <1>1, <1>6, MakeDrop
<1>8. once' \in [Singletons -> {"none", "making", "made", "failed"}] /\ open' \subseteq closers' \cap Singletons
  BY <1>1, <1>3 DEF ShapeInv
<1>9. ShapeInv' /\ PhaseInv' /\ PoolInv' /\ CauseInv'
  BY <1>1, <1>3, <1>4, <1>6, <1>8, DropStep
<1> QED BY <1>7, <1>9 DEF ProcessInv

(* A runnable that still has steps to take has taken on no send.           *)
LEMMA NotYetSending ==
  ASSUME PoolInv, todo["sender"] # <<>>
  PROVE  Resting(pool)
BY DEF PoolInv, InUse, Used, Resting

LEMMA Returns ==
  ASSUME ProcessInv, NEW t \in Threads, NEW op, At(t, op), t # Boot,
         op \notin {"open", "made", "provision", "try"}, NEW c, Owned(c), Return(t, c)
  PROVE  ProcessInv'
<1>1. ShapeInv /\ PhaseInv /\ MakeInv /\ PoolInv /\ CauseInv
  BY DEF ProcessInv
<1>2. Alive /\ todo[t] # <<>>
  BY <1>1, AtHead
<1>3. proc = "running" /\ t \in services /\ t \notin returned /\ t \in Services
  BY <1>1, <1>2, AtPhase DEF Threads
<1>4. \A i \in 1 .. Len(todo[t]) : todo[t][i] \notin Mades
  BY <1>1, NoMadeBehind
<1>5. t = "sender" => Resting(pool)
  BY <1>1, <1>2, NotYetSending
<1> QED BY <1>3, <1>4, <1>5, ReturnStep

LEMMA DemandsStep ==
  ASSUME ProcessInv, NEW t \in Threads, Demands(t)
  PROVE  ProcessInv'
<1>1. ShapeInv
  BY DEF ProcessInv
<1>2. /\ At(t, "demand")
      /\ \/ ~cancelled /\ Next1(t) /\ Quietly
         \/ proc' = "exited" /\ cause' = Cause("jetstream", t) /\ UNCHANGED todo
      /\ UNCHANGED <<pod, services, returned, cancelled, once, open, closers, pool>>
  BY Zenon DEF Demands, Exit, groupVars, containerVars
<1>3. NeedsNats
  <2>1. Head(todo[t]) \in StepsOf(t) /\ Head(todo[t]).op = "demand"
    BY <1>1, <1>2, AtHead
  <2> QED BY <2>1, StepCases
<1>4. CASE Next1(t) /\ Quietly
  <2>1. open' \subseteq closers' \cap Singletons
    BY <1>1, <1>2 DEF ShapeInv
  <2> QED BY <2>1, <1>2, <1>4, GoesOn DEF Quietly
<1>5. CASE proc' = "exited" /\ cause' = Cause("jetstream", t) /\ UNCHANGED todo
  <2>1. Owned(cause') /\ cause' # NoCause
    BY <1>3, <1>5, OwnedCauses
  <2> QED BY <2>1, <1>2, <1>5, ExitStep
<1> QED BY <1>2, <1>4, <1>5

LEMMA TokenStep ==
  ASSUME ProcessInv, NEW t \in Threads, ResolveToken(t) \/ AuditDisabled(t)
  PROVE  ProcessInv'
<1>1. ShapeInv /\ PhaseInv
  BY DEF ProcessInv
<1>2. CASE ResolveToken(t)
  <2>1. At(t, "token")
    BY <1>2, Zenon DEF ResolveToken
  <2>2. \/ Return(t, Cause("config", "api"))
        \/ Next1(t) /\ UNCHANGED <<pod, services, proc, cause, returned, cancelled, once, open, closers, pool>>
    BY <1>2, Zenon DEF ResolveToken, Quietly, groupVars, containerVars
  <2>3. t = "api" /\ todo[t] # <<>> /\ Alive
    <3>1. Head(todo[t]) \in StepsOf(t) /\ Head(todo[t]).op = "token" /\ todo[t] # <<>> /\ Alive
      BY <2>1, <1>1, AtHead
    <3> QED BY <3>1, StepCases
  <2>4. t # Boot /\ t \in services
    BY <2>3, <1>1, AtPhase DEF Boot
  <2>5. Owned(Cause("config", "api"))
    BY <2>3, <2>4, OwnedCauses
  <2>6. CASE Return(t, Cause("config", "api"))
    BY <2>1, <2>4, <2>5, <2>6, Returns
  <2>7. CASE Next1(t) /\ UNCHANGED <<pod, services, proc, cause, returned, cancelled, once, open, closers, pool>>
    <3>1. open' \subseteq closers' \cap Singletons
      BY <2>7, <1>1 DEF ShapeInv
    <3> QED BY <3>1, <2>1, <2>7, GoesOn
  <2> QED BY <2>2, <2>6, <2>7
<1>3. CASE AuditDisabled(t)
  <2>1. At(t, "stop") /\ Return(t, NoCause)
    BY <1>3 DEF AuditDisabled
  <2>2. Head(todo[t]) \in StepsOf(t) /\ Head(todo[t]).op = "stop"
    BY <2>1, <1>1, AtHead
  <2>3. t # Boot
    BY <2>2, StepCases
  <2> QED BY <2>1, <2>3, OwnedCauses, Returns
<1> QED BY <1>2, <1>3

(* Another attempt: the step stays, with one attempt less.                 *)
LEMMA AgainStep ==
  ASSUME ProcessInv, NEW t \in Threads, At(t, "ensure"), Head(todo[t]).left > 1,
         todo' = [todo EXCEPT ![t] = <<Ensure(Head(@).left - 1)>> \o Tail(@)],
         UNCHANGED <<pod, services, proc, cause, returned, cancelled, once, open, closers, pool>>
  PROVE  ProcessInv'
<1>1. ShapeInv /\ PhaseInv /\ MakeInv /\ PoolInv /\ CauseInv
  BY DEF ProcessInv
<1>2. /\ Alive /\ todo[t] # <<>> /\ Head(todo[t]) = todo[t][1] /\ todo[t][1] \in StepsOf(t) /\ todo[t][1].op = "ensure"
  BY <1>1, AtHead
<1>3. PICK n \in 1 .. Attempts : todo[t][1] = Ensure(n)
  BY <1>2, StepCases
<1>4. t # Boot /\ NeedsNats /\ n > 1 /\ Head(todo[t]).left = n
  BY <1>2, <1>3, OpOf, StepCases
<1>5. n - 1 \in 1 .. Attempts
  BY <1>4, ProcessAssumption
<1>6. PICK e : e = Ensure(n - 1)
  OBVIOUS
<1>7. e \in StepsOf(t) /\ e.op = "ensure"
  BY <1>4, <1>5, <1>6, OpOf DEF StepsOf, Ensures
<1>8. ~Bound(e) /\ ~Making(e) /\ e \notin Mades
  BY <1>7, Kinds
<1>9. PICK s \in Seq(StepsOf(t)) : s = todo[t] /\ Shaped(s)
  BY <1>1 DEF ShapeInv
<1>10. PICK u : u = <<e>> \o Tail(s)
  OBVIOUS
<1>11. /\ u \in Seq(StepsOf(t)) /\ Len(u) = Len(s) /\ Len(s) \in Nat \ {0} /\ u[1] = e
       /\ \A i \in 2 .. Len(s) : u[i] = s[i]
  BY <1>2, <1>7, <1>9, <1>10
<1>12. \A i \in 1 .. Len(s) : s[i] \notin Mades /\ u[i] \notin Mades
  <2>1. \A i \in 1 .. Len(s) : s[i] \notin Mades
    BY <1>1, <1>9, NoMadeBehind
  <2>2. \A i \in 1 .. Len(s) : i = 1 \/ i \in 2 .. Len(s)
    OBVIOUS
  <2> QED BY <2>1, <2>2, <1>8, <1>11
<1>13. Shaped(u)
  <2>1. ASSUME NEW i \in 1 .. Len(u), Bound(u[i]) PROVE i + 1 <= Len(u) /\ Follows(u[i], u[i + 1])
    <3>1. i \in 2 .. Len(s)
      BY <2>1, <1>8, <1>11
    <3>2. u[i] = s[i] /\ i + 1 <= Len(s) /\ Follows(s[i], s[i + 1])
      BY <3>1, <2>1, <1>9, <1>11 DEF Shaped
    <3>3. u[i + 1] = s[i + 1]
      BY <3>1, <3>2, <1>11
    <3> QED BY <3>2, <3>3, <1>11
  <2>2. \A i \in 1 .. Len(u) : \A j \in i + 1 .. Len(u) : u[j] \notin Mades
    BY <1>11, <1>12
  <2> QED BY <2>1, <2>2 DEF Shaped
<1>14. todo' = [todo EXCEPT ![t] = u]
  BY <1>4, <1>6, <1>9, <1>10
<1>15. /\ \A v \in Threads : todo'[v] = IF v = t THEN u ELSE todo[v]
       /\ DOMAIN todo' = Threads /\ todo' = [v \in Threads |-> todo'[v]]
  BY <1>1, <1>14 DEF ShapeInv
<1>16. ShapeInv'
  <2>1. \A v \in Threads : StepsOf(v)' = StepsOf(v)
    BY StepsFrame
  <2>2. \A v \in Threads : todo'[v] \in Seq(StepsOf(v)) /\ Shaped(todo'[v])
    BY <1>1, <1>11, <1>13, <1>15 DEF ShapeInv
  <2> QED BY <1>1, <1>15, <2>1, <2>2 DEF ShapeInv
<1>17. Boot \in Threads /\ "sender" \in Threads /\ \A v \in Services : v \in Threads /\ v # Boot
  BY DEF Threads, Boot, Services
<1>18. PhaseInv'
  <2>1. proc = "running" /\ t \in services /\ t \notin returned
    BY <1>1, <1>2, <1>4, AtPhase
  <2>2. \A v \in Threads : v # t => todo'[v] = todo[v]
    BY <1>15
  <2> QED BY <1>1, <1>4, <1>17, <2>1, <2>2, Zenon DEF PhaseInv
<1>19. MakeInv'
  <2>1. \A v \in Threads : \A i \in 1 .. Len(todo'[v]) : \A q \in Singletons :
          todo'[v][i] = Made(q) => v # t /\ todo'[v] = todo[v]
    <3>1. \A i \in 1 .. Len(u) : \A q \in Singletons : u[i] # Made(q)
      BY <1>11, <1>12 DEF Mades
    <3>2. todo'[t] = u /\ \A v \in Threads : v # t => todo'[v] = todo[v]
      BY <1>15
    <3> QED BY <3>1, <3>2
  <2>2. \A v \in Threads : \A i \in 1 .. Len(todo[v]) : \A q \in Singletons :
          todo[v][i] = Made(q) => v # t /\ todo'[v] = todo[v]
    <3>1. \A i \in 1 .. Len(todo[t]) : \A q \in Singletons : todo[t][i] # Made(q)
      BY <1>9, <1>12 DEF Mades
    <3>2. \A v \in Threads : v # t => todo'[v] = todo[v]
      BY <1>15
    <3> QED BY <3>1, <3>2
  <2> QED BY <1>1, <2>1, <2>2 DEF MakeInv
<1>20. PoolInv'
  <2>1. t # "sender" => todo'["sender"] = todo["sender"]
    BY <1>15, <1>17
  <2> QED BY <1>1, <1>2, <2>1, BusySender
<1>21. CauseInv'
  BY <1>1, StepsFrame DEF CauseInv, StoppedByItsOwn
<1> QED BY <1>16, <1>18, <1>19, <1>20, <1>21 DEF ProcessInv

LEMMA EnsureStep ==
  ASSUME ProcessInv, NEW t \in Threads, configureStreamWithRetry(t)
  PROVE  ProcessInv'
<1>1. ShapeInv
  BY DEF ProcessInv
<1>2. At(t, "ensure")
  BY Zenon DEF configureStreamWithRetry
<1>3. t # Boot /\ NeedsNats
  <2>1. Head(todo[t]) \in StepsOf(t) /\ Head(todo[t]).op = "ensure"
    BY <1>1, <1>2, AtHead
  <2> QED BY <2>1, StepCases
<1>4. \/ Next1(t) /\ UNCHANGED <<pod, services, proc, cause, returned, cancelled, once, open, closers, pool>>
      \/ /\ Head(todo[t]).left > 1
         /\ todo' = [todo EXCEPT ![t] = <<Ensure(Head(@).left - 1)>> \o Tail(@)]
         /\ UNCHANGED <<pod, services, proc, cause, returned, cancelled, once, open, closers, pool>>
      \/ Return(t, Cause("stream", t))
  BY Zenon DEF configureStreamWithRetry, Quietly, groupVars, containerVars
<1>5. CASE Next1(t) /\ UNCHANGED <<pod, services, proc, cause, returned, cancelled, once, open, closers, pool>>
  <2>1. open' \subseteq closers' \cap Singletons
    BY <1>1, <1>5 DEF ShapeInv
  <2> QED BY <2>1, <1>2, <1>5, GoesOn
<1>6. CASE Return(t, Cause("stream", t))
  <2>1. Owned(Cause("stream", t))
    BY <1>3, OwnedCauses
  <2> QED BY <2>1, <1>2, <1>3, <1>6, Returns
<1> QED BY <1>2, <1>4, <1>5, <1>6, AgainStep

-----------------------------------------------------------------------------
(* The runnables and the pool of the SMTPSender.                           *)
LEMMA ServingReturns ==
  ASSUME ProcessInv, NEW s \in Services, Fails(s) \/ Cancelled(s)
  PROVE  ProcessInv'
<1>1. ShapeInv /\ CauseInv
  BY DEF ProcessInv
<1>2. s # "sender" /\ proc = "running" /\ s \in services \ returned /\ todo[s] = <<>>
  BY Zenon DEF Fails, Cancelled, Serving
<1>3. \A i \in 1 .. Len(todo[s]) : todo[s][i] \notin Mades
  BY <1>2
<1>4. CASE Fails(s)
  <2>1. Return(s, Cause("failure", s))
    BY <1>4 DEF Fails
  <2> QED BY <1>2, <1>3, <2>1, OwnedCauses, ReturnStep
<1>5. CASE Cancelled(s)
  <2>1. Return(s, Cause("cancelled", s)) /\ cause # NoCause
    BY <1>1, <1>5 DEF Cancelled, CauseInv
  <2> QED BY <1>2, <1>3, <2>1, ReturnStep
<1> QED BY <1>4, <1>5

LEMMA SenderReturnsStep ==
  ASSUME ProcessInv, SenderReturns \/ ConsumeFails
  PROVE  ProcessInv'
<1>1. ShapeInv /\ CauseInv /\ PoolInv
  BY DEF ProcessInv
<1>2. PICK s \in Services : s = "sender"
  BY DEF Services
<1>3. Serving(s) /\ (pool.phase = "closed" \/ pool.phase = "idle")
  BY <1>2, Zenon DEF SenderReturns, ConsumeFails
<1>4. proc = "running" /\ s \in services \ returned /\ todo[s] = <<>> /\ Resting(pool)
  BY <1>3 DEF Serving, Resting
<1>5. \A i \in 1 .. Len(todo[s]) : todo[s][i] \notin Mades
  BY <1>4
<1>6. CASE SenderReturns
  <2>1. Ending(pool)
    BY <1>6 DEF SenderReturns, Ending
  <2>2. cause # NoCause
    BY <2>1, <1>1 DEF PoolInv, CauseInv
  <2>3. Return(s, Cause("cancelled", s))
    BY <1>2, <1>6 DEF SenderReturns
  <2> QED BY <1>4, <1>5, <2>2, <2>3, ReturnStep
<1>7. CASE ConsumeFails
  <2>1. Return(s, Cause("failure", s))
    BY <1>2, <1>7 DEF ConsumeFails
  <2> QED BY <1>4, <1>5, <2>1, OwnedCauses, ReturnStep
<1> QED BY <1>6, <1>7

(* The pool goes on, and nothing else.                                     *)
LEMMA PoolFrame ==
  ASSUME ProcessInv, UNCHANGED <<pod, services, proc, todo, returned, cancelled, cause, once, open, closers>>, PoolInv'
  PROVE  ProcessInv'
<1>1. ShapeInv /\ PhaseInv /\ MakeInv /\ CauseInv
  BY DEF ProcessInv
<1>2. NeedsNats' = NeedsNats /\ \A t : StepsOf(t)' = StepsOf(t)
  BY StepsFrame
<1>3. ShapeInv'
  BY <1>1, <1>2 DEF ShapeInv
<1>4. PhaseInv'
  BY <1>1, Zenon DEF PhaseInv
<1>5. MakeInv'
  BY <1>1 DEF MakeInv
<1>6. CauseInv'
  BY <1>1, <1>2 DEF CauseInv, StoppedByItsOwn
<1> QED BY <1>3, <1>4, <1>5, <1>6 DEF ProcessInv

(* A step of the pool while the SMTPSender is in use: what is asked of the *)
(* pool that it leaves behind.                                             *)
LEMMA GoesStep ==
  ASSUME ProcessInv, NEW q, Goes(q), Tally(q), InUse,
         ~Used(q) => q.wg = 0, Past(q) => Settled(q), Ending(q) => cancelled,
         "sender" \in returned \/ Closing => Resting(q)
  PROVE  ProcessInv'
<1>1. pool' = q /\ UNCHANGED <<pod, services, proc, todo, returned, cancelled, cause, once, open, closers>>
  BY Zenon DEF Goes, groupVars, containerVars
<1>2. InUse' = InUse /\ Closing' = Closing
  BY <1>1 DEF InUse, Closing
<1>3. PoolInv'
  BY <1>1, <1>2, Zenon DEF PoolInv, Tally, Used, Past, Settled, Ending, Resting
<1> QED BY <1>1, <1>3, PoolFrame

LEMMA PanicStep ==
  ASSUME ProcessInv, Panics("pool")
  PROVE  ProcessInv'
<1>1. /\ proc' = "panicked" /\ cause' = Cause("pool", "sender")
      /\ UNCHANGED <<pod, services, todo, returned, cancelled, once, open, closers, pool>>
  BY Zenon DEF Panics, groupVars, containerVars
<1>2. Owned(cause') /\ cause' # NoCause
  BY <1>1, OwnedCauses
<1> QED BY <1>1, <1>2, ExitStep

(* What the invariant says of a pool that is used.                         *)
LEMMA PoolNow ==
  ASSUME ProcessInv
  PROVE  /\ pool \in Pools /\ Tally(pool) /\ (Past(pool) => Settled(pool)) /\ (Ending(pool) => cancelled)
         /\ pool.wg # 0 => Used(pool)
         /\ Used(pool) => InUse
         /\ ~Resting(pool) => "sender" \notin returned /\ ~Closing
BY Zenon DEF ProcessInv, PoolInv, Tally

(* The SMTPSender serves: it has not returned, and the process runs.       *)
LEMMA SenderServes ==
  ASSUME Serving("sender")
  PROVE  InUse /\ "sender" \notin returned /\ ~Closing
BY Zenon DEF Serving, InUse, Closing

LEMMA RunTaskStep ==
  ASSUME ProcessInv, RunTask
  PROVE  ProcessInv'
<1>1. CASE Panics("pool")
  BY <1>1, PanicStep
<1>2. CASE pool.phase # "closed" /\ Goes(Admit(pool))
  <2>1. pool.phase # "idle" /\ pool.waiting = "none"
    BY Zenon DEF RunTask, Called
  <2>2. PICK q : q = Admit(pool)
    OBVIOUS
  <2>3. Tally(q) /\ q.phase = pool.phase /\ q.waiting = Stamp /\ q.early = pool.early
    BY <2>1, <2>2, PoolNow, AdmitKeeps
  <2>4. Used(pool) /\ ~Resting(pool)
    BY <1>2, <2>1 DEF Used, Resting
  <2>5. Used(q) /\ (Past(q) <=> Past(pool)) /\ (Ending(q) <=> Ending(pool))
    BY <2>1, <2>3 DEF Used, Past, Ending
  <2>6. Past(q) => Settled(q)
    <3>1. Past(pool) => pool.early = 0 /\ Stamp # "early"
      BY PoolNow DEF Past, Settled, Stamp, HasWaited
    <3> QED BY <3>1, <2>3, <2>5 DEF Settled
  <2>7. Goes(q)
    BY <1>2, <2>2
  <2> QED BY <2>3, <2>4, <2>5, <2>6, <2>7, PoolNow, GoesStep
<1> QED BY <1>1, <1>2, Zenon DEF RunTask

LEMMA StartTaskStep ==
  ASSUME ProcessInv, StartTask
  PROVE  ProcessInv'
<1>1. pool.waiting # "none" /\ pool.phase # "closed" /\ pool.early + pool.late < MaxJobs /\ Goes(Start(pool))
  BY Zenon DEF StartTask, Running
<1>2. PICK q : q = Start(pool)
  OBVIOUS
<1>3. Tally(q) /\ q.phase = pool.phase /\ q.wg = pool.wg /\ (Settled(pool) => Settled(q))
  BY <1>1, <1>2, PoolNow, StartKeeps
<1>4. Used(pool)
  <2>1. pool.wg # 0
    BY <1>1, PoolNow, NothingCounted
  <2> QED BY <2>1, PoolNow
<1>5. ~Resting(pool)
  BY <1>1, <1>4 DEF Used, Resting
<1>6. Used(q) /\ (Past(q) <=> Past(pool)) /\ (Ending(q) <=> Ending(pool))
  BY <1>3, <1>4 DEF Used, Past, Ending
<1>7. Goes(q)
  BY <1>1, <1>2
<1> QED BY <1>3, <1>4, <1>5, <1>6, <1>7, PoolNow, GoesStep

LEMMA FinishTaskStep ==
  ASSUME ProcessInv, FinishTask
  PROVE  ProcessInv'
<1>1. PICK r \in Pools : /\ Goes(Done(r)) /\ r.wg = pool.wg /\ r.phase = pool.phase /\ r.waiting = pool.waiting
                         /\ r.early <= pool.early /\ r.early + r.late = pool.early + pool.late - 1
  <2>1. PICK p \in Pools : p = pool
    BY PoolNow
  <2>2. CASE p.early > 0 /\ Goes(Done([p EXCEPT !.early = @ - 1]))
    <3>1. PICK n \in Nat : n = p.early - 1
      BY <2>2, PoolFields
    <3>2. PICK r : r = [p EXCEPT !.early = n]
      OBVIOUS
    <3>3. Goes(Done(r))
      BY <2>2, <3>1, <3>2, Zenon
    <3>4. r \in Pools /\ r.wg = p.wg /\ r.phase = p.phase /\ r.waiting = p.waiting /\ r.early = n /\ r.late = p.late
      BY <3>2, EarlySet
    <3>5. r.early <= p.early /\ r.early + r.late = p.early + p.late - 1
      BY <3>1, <3>4, PoolFields
    <3> QED BY <2>1, <3>3, <3>4, <3>5, Zenon
  <2>3. CASE p.late > 0 /\ Goes(Done([p EXCEPT !.late = @ - 1]))
    <3>1. PICK n \in Nat : n = p.late - 1
      BY <2>3, PoolFields
    <3>2. PICK r : r = [p EXCEPT !.late = n]
      OBVIOUS
    <3>3. Goes(Done(r))
      BY <2>3, <3>1, <3>2, Zenon
    <3>4. r \in Pools /\ r.wg = p.wg /\ r.phase = p.phase /\ r.waiting = p.waiting /\ r.early = p.early /\ r.late = n
      BY <3>2, LateSet
    <3>5. r.early <= p.early /\ r.early + r.late = p.early + p.late - 1
      BY <3>1, <3>4, PoolFields
    <3> QED BY <2>1, <3>3, <3>4, <3>5, Zenon
  <2> QED BY <2>1, <2>2, <2>3, Zenon DEF FinishTask
<1>2. PICK q : q = Done(r)
  OBVIOUS
<1>3. /\ Tally(q) /\ q.waiting = pool.waiting /\ q.early = r.early /\ pool.wg > 0
      /\ q.phase = pool.phase \/ (pool.phase = "blocked" /\ q.phase = "released")
  BY <1>1, <1>2, PoolNow, DoneKeeps
<1>4. Used(pool) /\ InUse
  BY <1>3, PoolNow
<1>5. /\ Used(q) /\ (Past(q) => Past(pool)) /\ (Ending(q) => Ending(pool)) /\ (Resting(pool) => Resting(q))
  BY <1>3, <1>4 DEF Used, Past, Ending, Resting
<1>6. Past(q) => Settled(q)
  <2>1. Past(pool) => pool.early = 0 /\ pool.waiting # "early"
    BY PoolNow DEF Settled
  <2>2. pool.early = 0 => q.early = 0
    BY <1>1, <1>3, PoolNow, PoolFields
  <2> QED BY <1>3, <1>5, <2>1, <2>2 DEF Settled
<1>7. Goes(q)
  BY <1>1, <1>2
<1> QED BY <1>3, <1>4, <1>5, <1>6, <1>7, PoolNow, GoesStep

(* Steps that change only the phase, of a sender that serves.              *)
LEMMA PhaseStep ==
  ASSUME ProcessInv, Serving("sender"), NEW k \in Phases, Goes([pool EXCEPT !.phase = k]), k # "idle",
         k \in {"waited", "closed"} => Settled(pool),
         k # "serving" => cancelled
  PROVE  ProcessInv'
<1>1. PICK p \in Pools : p = pool
  BY PoolNow
<1>2. PICK q : q = [p EXCEPT !.phase = k]
  OBVIOUS
<1>3. q \in Pools /\ q.wg = p.wg /\ q.phase = k /\ q.waiting = p.waiting /\ q.early = p.early /\ q.late = p.late
  BY <1>2, PhaseSet
<1>4. Tally(q) /\ (Settled(p) => Settled(q))
  <2>1. Tally(p)
    BY <1>1, PoolNow
  <2> QED BY <2>1, <1>3, Zenon DEF Tally, Queued, Settled
<1>5. Used(q) /\ (Past(q) => Settled(q)) /\ (Ending(q) => cancelled)
  BY <1>1, <1>3, <1>4 DEF Used, Past, Ending
<1>6. Goes(q)
  BY <1>1, <1>2
<1> QED BY <1>4, <1>5, <1>6, SenderServes, GoesStep

LEMMA HandleSendStep ==
  ASSUME ProcessInv, HandleSend
  PROVE  ProcessInv'
<1>1. ASSUME pool.wg = 0 PROVE Settled(pool)
  BY <1>1, PoolNow, NothingCounted
<1>2. /\ "serving" \in Phases /\ "waited" \in Phases /\ "blocked" \in Phases /\ "closed" \in Phases
  BY DEF Phases
<1>3. CASE Consume
  <2>1. Serving("sender") /\ Goes([pool EXCEPT !.phase = "serving"])
    BY <1>3 DEF Consume
  <2> QED BY <2>1, <1>2, PhaseStep
<1>4. CASE StartWait
  <2>1. PICK k : k = IF pool.wg = 0 THEN "waited" ELSE "blocked"
    OBVIOUS
  <2>2. Serving("sender") /\ cancelled /\ Goes([pool EXCEPT !.phase = k])
    BY <1>4, <2>1, Zenon DEF StartWait
  <2>3. k \in Phases /\ k # "idle" /\ (k \in {"waited", "closed"} => pool.wg = 0)
    BY <1>2, <2>1
  <2> QED BY <1>1, <2>2, <2>3, PhaseStep
<1>5. CASE WaitReturns
  <2>1. CASE pool.wg = 0
    <3>1. Serving("sender") /\ Ending(pool) /\ Goes([pool EXCEPT !.phase = "waited"])
      BY <1>5, <2>1 DEF WaitReturns, Ending
    <3> QED BY <3>1, <1>1, <1>2, <2>1, PoolNow, PhaseStep
  <2>2. CASE pool.wg # 0
    BY <1>5, <2>2, PanicStep DEF WaitReturns
  <2> QED BY <2>1, <2>2
<1>6. CASE CloseChannel
  <2>1. Serving("sender") /\ Ending(pool) /\ Past(pool) /\ Goes([pool EXCEPT !.phase = "closed"])
    BY <1>6 DEF CloseChannel, Ending, Past
  <2> QED BY <2>1, <1>2, PoolNow, PhaseStep
<1>7. CASE ConsumeFails \/ SenderReturns
  BY <1>7, SenderReturnsStep
<1> QED BY <1>3, <1>4, <1>5, <1>6, <1>7 DEF HandleSend, WaitAndClose

-----------------------------------------------------------------------------
(* The process as a whole.                                                 *)
LEMMA Names == Boot \in Threads /\ "sender" \in Threads /\ \A u \in Services : u \in Threads /\ u # Boot
BY DEF Threads, Boot, Services

LEMMA NothingShaped == Shaped(<<>>) /\ \A S : <<>> \in Seq(S)
BY DEF Shaped

LEMMA ProcessStarts == ProcessInit => ProcessInv
<1> SUFFICES ASSUME ProcessInit PROVE ProcessInv OBVIOUS
<1>1. \A t \in Threads : todo[t] = <<>>
  BY DEF ProcessInit
<1>2. ShapeInv
  <2>1. pod \in Pods /\ services = {} /\ returned = {} /\ cancelled = FALSE /\ open = {} /\ closers = {}
        /\ todo = [t \in Threads |-> <<>>]
    BY DEF ProcessInit
  <2>2. proc \in Procs
    BY DEF ProcessInit, Procs
  <2>3. once \in [Singletons -> {"none", "making", "made", "failed"}]
    BY DEF ProcessInit
  <2> QED BY <1>1, <2>1, <2>2, <2>3, NothingShaped DEF ShapeInv
<1>3. PhaseInv
  <2>1. proc = "starting" /\ services = {} /\ cause = NoCause /\ returned = {}
    BY DEF ProcessInit
  <2> QED BY <1>1, <2>1, Names, Zenon DEF PhaseInv
<1>4. MakeInv
  <2>1. \A r \in Singletons : once[r] # "making"
    BY DEF ProcessInit
  <2>2. \A t \in Threads : \A i \in 1 .. Len(todo[t]) : FALSE
    BY <1>1
  <2> QED BY <2>1, <2>2 DEF MakeInv
<1>5. PoolInv
  <2>1. pool = NewParallel /\ returned = {} /\ proc = "starting"
    BY DEF ProcessInit
  <2>2. PICK p : p = NewParallel
    OBVIOUS
  <2>3. Tally(p) /\ ~Used(p) /\ ~Past(p) /\ ~Ending(p) /\ Resting(p) /\ p.wg = 0
    BY <2>2, ProcessAssumption DEF Tally, Used, Past, Ending, Resting, Queued, Pools, Phases, NewParallel
  <2> QED BY <2>1, <2>2, <2>3 DEF PoolInv
<1>6. CauseInv
  BY OwnedCauses, OwnedCause DEF ProcessInit, CauseInv
<1> QED BY <1>2, <1>3, <1>4, <1>5, <1>6 DEF ProcessInv

(* Before the runnables start, the pool is as it was made.                 *)
LEMMA NotUsedYet ==
  ASSUME PoolInv, proc \in {"starting", "booting"}
  PROVE  ~Used(pool)
BY Zenon DEF PoolInv, InUse

LEMMA NothingMade ==
  ASSUME MakeInv, \A t \in Threads : todo[t] = <<>>
  PROVE  \A r \in Singletons : once[r] # "making"
<1>1. \A t \in Threads : \A i \in 1 .. Len(todo[t]) : FALSE
  OBVIOUS
<1> QED BY <1>1 DEF MakeInv

LEMMA BootLoose == \A x : x \in Seq(Loose(Boot)) => x \in Seq(StepsOf(Boot)) /\ Shaped(x)
BY ShapedLoose

LEMMA BootstrapStep ==
  ASSUME ProcessInv, bootstrap
  PROVE  ProcessInv'
<1>1. ShapeInv /\ PhaseInv /\ MakeInv /\ PoolInv /\ CauseInv
  BY DEF ProcessInv
<1>2. /\ proc = "starting"
      /\ services' = (IF readConfigAndServices THEN Chosen ELSE {})
      /\ UNCHANGED <<pod, returned, cancelled, once, open, closers, pool>>
  BY Zenon DEF bootstrap, groupVars, containerVars
<1>3. /\ \A s \in Services : todo[s] = <<>>
      /\ todo[Boot] = <<>> /\ cause = NoCause /\ returned = {}
  BY <1>1, <1>2, Zenon DEF PhaseInv
<1>4. \A t \in Threads : todo[t] = <<>>
  BY <1>3 DEF Threads
<1>5. Chosen \subseteq Services /\ Chosen' = Chosen
  BY <1>2, PodFrame DEF Chosen, AllServices
<1>6. services' \subseteq Services
  BY <1>2, <1>5
<1>8. PoolInv'
  BY <1>1, <1>2, NotUsedYet, Unused
<1>9. \A r \in Singletons : once'[r] # "making"
  BY <1>1, <1>2, <1>4, NothingMade
<1>10. ~cancelled
  BY <1>1, <1>3 DEF CauseInv
<1>11. \/ /\ proc' = "exited" /\ UNCHANGED todo
          /\ cause' = Cause("config", "root") \/ cause' = Cause("config", "services")
             \/ (cause' = Cause("config", "api") /\ services' = Chosen /\ ~requireAdminToken)
       \/ /\ proc' = "booting" /\ services' = Chosen /\ cause' = NoCause
          /\ todo' = [todo EXCEPT ![Boot] = Registered]
  BY <1>3, Zenon DEF bootstrap, Exit
<1>12. CASE /\ proc' = "exited" /\ UNCHANGED todo
            /\ cause' = Cause("config", "root") \/ cause' = Cause("config", "services")
               \/ (cause' = Cause("config", "api") /\ services' = Chosen /\ ~requireAdminToken)
  <2>1. ShapeInv'
    <3>1. proc' \in Procs
      BY <1>12 DEF Procs
    <3>2. todo' = todo
      BY <1>12
    <3> QED BY <3>1, <3>2, <1>1, <1>2, <1>3, <1>4, <1>6, NothingShaped DEF ShapeInv
  <2>2. PhaseInv'
    <3>1. proc' = "exited" /\ todo' = todo /\ \A s \in Services : todo[s] = <<>>
      BY <1>3, <1>12
    <3> QED BY <3>1, Zenon DEF PhaseInv
  <2>3. MakeInv'
    <3>1. todo' = todo
      BY <1>12
    <3> QED BY <3>1, <1>1, <1>2 DEF MakeInv
  <2>4. CauseInv'
    <3>1. PICK o : cause' = Cause("config", o) /\ o \in services' \cup {"root", "services"}
      BY <1>12 DEF requireAdminToken
    <3>2. cause'.why = "config" /\ cause'.of = o
      BY <3>1, CauseFields
    <3>3. Owned(cause)'
      BY <3>1, <3>2, Zenon DEF Owned
    <3>4. StoppedByItsOwn'
      BY <3>3, OwnedCause, PTL
    <3> QED BY <3>4, <1>2, <1>10 DEF CauseInv
  <2> QED BY <2>1, <2>2, <2>3, <2>4, <1>8 DEF ProcessInv
<1>13. CASE /\ proc' = "booting" /\ services' = Chosen /\ cause' = NoCause
            /\ todo' = [todo EXCEPT ![Boot] = Registered]
  <2>0. Registered' = Registered
    <3>1. \A s : Register(s)' = Register(s)
      BY <1>5 DEF Register, Enabled, New, SenderNew, StatsNew, TrackerNew, APINew, SMTPNew, AuditNew
    <3> QED BY <3>1 DEF Registered
  <2>1. (Registered \in Seq(Loose(Boot)))'
    <3>1. (services = Chosen)'
      BY <1>5, <1>13
    <3> QED BY <3>1, RegisteredIsLoose, PTL
  <2>2. Registered \in Seq(Loose(Boot)')
    BY <2>0, <2>1
  <2>3. PICK g : g = Registered
    OBVIOUS
  <2>4. g \in Seq(StepsOf(Boot)') /\ Shaped(g) /\ \A i \in 1 .. Len(g) : g[i] \notin Mades
    <3>1. (\A x : x \in Seq(Loose(Boot)) => x \in Seq(StepsOf(Boot)) /\ Shaped(x))'
      BY BootLoose, PTL
    <3>2. \A i \in 1 .. Len(g) : g[i] \in Loose(Boot)'
      BY <2>2, <2>3
    <3>3. \A x : x \in Loose(Boot)' => x \notin Mades
      BY DEF Loose, Mades, Made
    <3> QED BY <2>2, <2>3, <3>1, <3>2, <3>3
  <2>5. /\ todo'[Boot] = g /\ \A u \in Threads : u # Boot => todo'[u] = <<>>
        /\ DOMAIN todo' = Threads /\ todo' = [u \in Threads |-> todo'[u]]
    BY <1>1, <1>4, <1>13, <2>3, Names DEF ShapeInv
  <2>6. ShapeInv'
    <3>1. proc' \in Procs
      BY <1>13 DEF Procs
    <3>2. \A u \in Threads : todo'[u] \in Seq(StepsOf(u)') /\ Shaped(todo'[u])
      BY <2>4, <2>5, NothingShaped
    <3> QED BY <3>1, <3>2, <2>5, <1>1, <1>2, <1>3, <1>6 DEF ShapeInv
  <2>7. PhaseInv'
    <3>1. \A s \in Services : todo'[s] = <<>>
      BY <2>5, Names
    <3> QED BY <3>1, <1>2, <1>3, <1>13, Zenon DEF PhaseInv
  <2>8. MakeInv'
    <3>1. \A t \in Threads : \A i \in 1 .. Len(todo'[t]) : todo'[t][i] \notin Mades
      BY <2>4, <2>5
    <3>2. \A t \in Threads : \A i \in 1 .. Len(todo'[t]) : \A r \in Singletons : todo'[t][i] # Made(r)
      BY <3>1 DEF Mades
    <3> QED BY <3>2, <1>9 DEF MakeInv
  <2>9. CauseInv'
    <3>1. Owned(NoCause)'
      BY OwnedCauses, PTL
    <3>2. Owned(cause)'
      BY <3>1, <1>13 DEF Owned
    <3>3. StoppedByItsOwn'
      BY <3>2, OwnedCause, PTL
    <3> QED BY <3>3, <1>2, <1>10 DEF CauseInv
  <2> QED BY <2>6, <2>7, <2>8, <2>9, <1>8 DEF ProcessInv
<1> QED BY <1>11, <1>12, <1>13

LEMMA RegistryRunStep ==
  ASSUME ProcessInv, RegistryRun
  PROVE  ProcessInv'
<1>1. ShapeInv /\ PhaseInv /\ MakeInv /\ PoolInv /\ CauseInv
  BY DEF ProcessInv
<1>2. /\ proc = "booting" /\ todo[Boot] = <<>> /\ proc' = "running"
      /\ todo' = [t \in Threads |-> IF t \in services THEN Run(t) ELSE <<>>]
      /\ UNCHANGED <<pod, services, returned, cancelled, cause, once, open, closers, pool>>
  BY Zenon DEF RegistryRun, groupVars, containerVars
<1>3. \A s \in Services : todo[s] = <<>>
  BY <1>1, <1>2, Zenon DEF PhaseInv
<1>4. returned = {}
  BY <1>1, <1>2, Zenon DEF PhaseInv
<1>5. \A t \in Threads : todo[t] = <<>>
  BY <1>2, <1>3 DEF Threads
<1>6. services \subseteq Services
  BY <1>1 DEF ShapeInv
<1>7. \A r \in Singletons : once'[r] # "making"
  BY <1>1, <1>2, <1>5, NothingMade
<1>8. ASSUME NEW t \in Threads
      PROVE  /\ todo'[t] \in Seq(StepsOf(t)) /\ Shaped(todo'[t])
             /\ \A i \in 1 .. Len(todo'[t]) : todo'[t][i] \notin Mades
  <2>1. CASE t \in services
    <3>1. t \in Services /\ todo'[t] = Run(t)
      BY <2>1, <1>2, <1>6
    <3> QED BY <2>1, <3>1, RunIsShaped
  <2>2. CASE t \notin services
    <3>1. todo'[t] = <<>>
      BY <2>2, <1>2
    <3> QED BY <3>1, NothingShaped
  <2> QED BY <2>1, <2>2
<1>9. ShapeInv'
  <2>1. \A t : StepsOf(t)' = StepsOf(t)
    BY <1>2, StepsFrame
  <2>2. proc' \in Procs
    BY <1>2 DEF Procs
  <2>3. DOMAIN todo' = Threads /\ todo' = [t \in Threads |-> todo'[t]]
    BY <1>2
  <2> QED BY <1>1, <1>2, <1>8, <2>1, <2>2, <2>3 DEF ShapeInv
<1>10. PhaseInv'
  <2>1. Boot \notin services
    BY <1>6, Names
  <2>2. todo'[Boot] = <<>>
    BY <2>1, <1>2, Names
  <2>3. \A s \in Services : s \notin services => todo'[s] = <<>>
    BY <1>2, Names
  <2> QED BY <1>2, <1>4, <2>2, <2>3, Zenon DEF PhaseInv
<1>11. MakeInv'
  <2>1. \A t \in Threads : \A i \in 1 .. Len(todo'[t]) : \A r \in Singletons : todo'[t][i] # Made(r)
    BY <1>8 DEF Mades
  <2> QED BY <2>1, <1>7 DEF MakeInv
<1>12. PoolInv'
  BY <1>1, <1>2, NotUsedYet, Unused
<1>13. CauseInv'
  BY <1>1, <1>2, StepsFrame DEF CauseInv, StoppedByItsOwn
<1> QED BY <1>9, <1>10, <1>11, <1>12, <1>13 DEF ProcessInv

(* From the end of the group on, nobody has anything left to do.           *)
LEMMA ClosingSteps ==
  ASSUME ProcessInv, Wait \/ CloseWithTimeout \/ \E r \in Singletons : Close(r)
  PROVE  ProcessInv'
<1>1. ShapeInv /\ PhaseInv /\ MakeInv /\ PoolInv /\ CauseInv
  BY DEF ProcessInv
<1>2. UNCHANGED <<pod, services, todo, returned, cancelled, cause, once, closers, pool>>
  BY Zenon DEF Wait, CloseWithTimeout, Close, groupVars, containerVars
<1>3. /\ proc \in {"running", "closing"} /\ proc' \in {"closing", "ended", "timed out"}
      /\ proc = "running" => Waited
  <2>1. CASE Wait
    BY <2>1, Zenon DEF Wait
  <2>2. CASE CloseWithTimeout
    BY <2>2, Zenon DEF CloseWithTimeout
  <2>3. CASE \E r \in Singletons : Close(r)
    BY <2>3, Zenon DEF Close
  <2> QED BY <2>1, <2>2, <2>3
<1>4. open' \subseteq open /\ (proc' = "ended" => open' = {})
  <2>1. CASE Wait
    <3>1. open' = open /\ proc' = "closing"
      BY <2>1, Zenon DEF Wait, containerVars
    <3> QED BY <3>1
  <2>2. CASE CloseWithTimeout
    <3>1. open' = open /\ proc' = (IF closers \cap open = {} THEN "ended" ELSE "timed out")
      BY <2>2, Zenon DEF CloseWithTimeout, containerVars
    <3>2. closers \cap open = {} => open = {}
      BY <1>1 DEF ShapeInv
    <3> QED BY <3>1, <3>2
  <2>3. CASE \E r \in Singletons : Close(r)
    <3>1. PICK r \in Singletons : Close(r)
      BY <2>3
    <3>2. open' = open \ {r} /\ proc' = "closing"
      BY <3>1, Zenon DEF Close
    <3> QED BY <3>2
  <2> QED BY <2>1, <2>2, <2>3
<1>5. \A s \in Services : todo[s] = <<>>
  <2>1. CASE proc = "running"
    BY <2>1, <1>1, <1>3 DEF PhaseInv, Waited
  <2>2. CASE proc = "closing"
    BY <2>2, <1>1, Zenon DEF PhaseInv
  <2> QED BY <1>3, <2>1, <2>2
<1>6. \A i \in 1 .. Len(todo[Boot]) : todo[Boot][i] \notin Mades
  <2>1. CASE proc = "running"
    <3>1. todo[Boot] = <<>>
      BY <2>1, <1>1, Zenon DEF PhaseInv
    <3> QED BY <3>1
  <2>2. CASE proc = "closing"
    BY <2>2, <1>1, Zenon DEF PhaseInv
  <2> QED BY <1>3, <2>1, <2>2
<1>7. Resting(pool)
  <2>1. CASE proc = "closing"
    BY <2>1, <1>1 DEF PoolInv, Closing
  <2>2. CASE proc = "running" /\ "sender" \in returned
    BY <2>2, <1>1 DEF PoolInv
  <2>3. CASE proc = "running" /\ "sender" \notin returned
    <3>1. "sender" \notin services
      BY <2>3, <1>3 DEF Waited
    <3> QED BY <3>1, <1>1 DEF PoolInv, InUse, Used, Resting
  <2> QED BY <1>3, <2>1, <2>2, <2>3
<1>8. ShapeInv'
  <2>1. \A t : StepsOf(t)' = StepsOf(t)
    BY <1>2, StepsFrame
  <2>2. proc' \in Procs
    BY <1>3 DEF Procs
  <2> QED BY <1>1, <1>2, <1>4, <2>1, <2>2 DEF ShapeInv
<1>9. PhaseInv'
  BY <1>2, <1>3, <1>4, <1>5, <1>6, Zenon DEF PhaseInv
<1>10. MakeInv'
  BY <1>1, <1>2 DEF MakeInv
<1>11. PoolInv'
  <2>1. InUse => InUse'
    BY <1>2, <1>3, Zenon DEF InUse
  <2> QED BY <1>1, <1>2, <1>7, <2>1, Zenon DEF PoolInv, Tally, Used, Past, Settled, Ending, Resting
<1>12. CauseInv'
  BY <1>1, <1>2, StepsFrame DEF CauseInv, StoppedByItsOwn
<1> QED BY <1>8, <1>9, <1>10, <1>11, <1>12 DEF ProcessInv

LEMMA ProcessStutters ==
  ASSUME ProcessInv, UNCHANGED processVars
  PROVE  ProcessInv'
<1>1. UNCHANGED <<pod, services, proc, todo, returned, cancelled, cause, once, open, closers, pool>>
  BY DEF processVars, groupVars, containerVars
<1>2. PoolInv'
  BY <1>1, Zenon DEF ProcessInv, PoolInv, Tally, Used, Past, Settled, Ending, Resting, InUse, Closing
<1> QED BY <1>1, <1>2, PoolFrame

LEMMA ProcessSteps == ProcessInv /\ [ProcessNext]_processVars => ProcessInv'
<1> SUFFICES ASSUME ProcessInv, [ProcessNext]_processVars PROVE ProcessInv' OBVIOUS
<1>1. CASE bootstrap \/ RegistryRun \/ Wait \/ CloseWithTimeout \/ \E r \in Singletons : Close(r)
  BY <1>1, BootstrapStep, RegistryRunStep, ClosingSteps
<1>2. ASSUME NEW t \in Threads, Thread(t) PROVE ProcessInv'
  BY <1>2, SectionStep, GetStep, GivenStep, MustGetStep, TryNatsStep, ConnectFailsStep, ProvisionStep,
     FactoryReturnsStep, EnsureStep, DemandsStep, TokenStep DEF Thread
<1>3. ASSUME NEW s \in Services, Fails(s) \/ Cancelled(s) PROVE ProcessInv'
  BY <1>3, ServingReturns
<1>4. CASE RunTask \/ Tasks \/ HandleSend
  BY <1>4, RunTaskStep, StartTaskStep, FinishTaskStep, PanicStep, HandleSendStep DEF Tasks, SendOnClosed
<1>5. CASE UNCHANGED processVars
  BY <1>5, ProcessStutters
<1> QED BY <1>1, <1>2, <1>3, <1>4, <1>5 DEF ProcessNext

(* Nothing early is left in a pool that rests or was waited for.           *)
LEMMA RestsEmpty ==
  ASSUME ProcessInv, Past(pool) \/ Resting(pool)
  PROVE  Settled(pool)
<1>1. CASE Past(pool)
  BY <1>1, PoolNow
<1>2. CASE ~Past(pool) /\ Resting(pool)
  <2>1. ~Used(pool)
    BY <1>2 DEF Past, Resting, Used
  <2>2. pool.wg = 0
    BY <2>1, PoolNow
  <2> QED BY <2>2, PoolNow, NothingCounted
<1> QED BY <1>1, <1>2

(* The invariant: lists of steps are well formed, a factory that makes has *)
(* its return to come, the WaitGroup counts, and every cause is owned.     *)
THEOREM ProcessInvariant == ProcessSpec => []ProcessInv
BY ProcessStarts, ProcessSteps, PTL DEF ProcessSpec

(* Every process keeps its types; the pool never runs more sends than it has *)
(* slots (Parallel, pkg/sender).                                           *)
THEOREM ProcessTypes == ProcessSpec => []ProcessTypeOK
<1>1. ProcessInv => ProcessTypeOK
  <2> SUFFICES ASSUME ProcessInv PROVE ProcessTypeOK OBVIOUS
  <2>1. ShapeInv /\ PoolInv
    BY DEF ProcessInv
  <2>2. proc \in {"starting", "booting", "running", "closing"} \/ Over
    BY <2>1 DEF ShapeInv, Procs, Over
  <2>3. PICK p \in Pools : p = pool
    BY PoolNow
  <2>4. p.wg = p.early + p.late + Queued(p) /\ p.early + p.late <= MaxJobs /\ Queued(p) \in {0, 1}
    BY <2>3, PoolNow, Zenon DEF Tally, Queued
  <2>5. p.early + p.late \in 0 .. MaxJobs /\ p.wg \in 0 .. MaxJobs + 1
    BY <2>4, PoolFields, ProcessAssumption
  <2>7. Running \in 0 .. MaxJobs /\ pool.wg \in 0 .. MaxJobs + 1
    BY <2>3, <2>5 DEF Running
  <2>8. /\ pod \in Pods /\ services \subseteq Services /\ returned \subseteq services /\ open \subseteq Singletons
        /\ once \in [Singletons -> {"none", "making", "made", "failed"}]
    BY <2>1 DEF ShapeInv
  <2> QED BY <2>2, <2>7, <2>8, Zenon DEF ProcessTypeOK
<1> QED BY <1>1, ProcessInvariant, PTL

(* A send that RunTask took on before the wait is over when the channel is *)
(* closed and when the SMTPSender returns, whatever the size of the pool   *)
(* and whatever is taken on between the wait and the close                 *)
(* (pkg/smtpsender/parallel.go).                                           *)
THEOREM SendsAreFinished == ProcessSpec => []SendsFinishFirst
<1>1. ProcessInv => SendsFinishFirst
  <2> SUFFICES ASSUME ProcessInv, HasWaited \/ "sender" \in returned PROVE pool.early = 0 /\ pool.waiting # "early"
    BY DEF SendsFinishFirst
  <2>1. HasWaited => Past(pool)
    BY DEF HasWaited, Past
  <2>2. Past(pool) \/ Resting(pool)
    BY <2>1 DEF ProcessInv, PoolInv
  <2> QED BY <2>2, RestsEmpty DEF Settled
<1> QED BY <1>1, ProcessInvariant, PTL

(* CloseWithTimeout closes nothing under the feet of a runnable, a factory or *)
(* a send, and leaves nothing open unless its timeout passes.              *)
THEOREM ClosesAreClean == ProcessSpec => []ClosesWhatItMade
<1>1. ProcessInv => ClosesWhatItMade
  <2> SUFFICES ASSUME ProcessInv PROVE ClosesWhatItMade OBVIOUS
  <2>0. ShapeInv /\ PhaseInv /\ MakeInv /\ PoolInv
    BY DEF ProcessInv
  <2>1. proc = "ended" => open = {}
    BY <2>0, Zenon DEF PhaseInv
  <2>2. ASSUME proc \in {"closing", "ended", "timed out"}
        PROVE  /\ \A s \in Services : todo[s] = <<>>
               /\ pool.early = 0 /\ pool.waiting # "early"
               /\ \A r \in Singletons : once[r] # "making"
    <3>1. \A s \in Services : todo[s] = <<>>
      BY <2>0, <2>2, Zenon DEF PhaseInv
    <3>2. \A i \in 1 .. Len(todo[Boot]) : todo[Boot][i] \notin Mades
      BY <2>0, <2>2, Zenon DEF PhaseInv
    <3>3. Resting(pool)
      BY <2>0, <2>2 DEF PoolInv, Closing
    <3>4. pool.early = 0 /\ pool.waiting # "early"
      BY <3>3, RestsEmpty DEF Settled
    <3>5. \A t \in Threads : \A i \in 1 .. Len(todo[t]) : \A r \in Singletons : todo[t][i] # Made(r)
      <4>1. \A i \in 1 .. Len(todo[Boot]) : \A r \in Singletons : todo[Boot][i] # Made(r)
        BY <3>2 DEF Mades
      <4>2. \A s \in Services : \A i \in 1 .. Len(todo[s]) : FALSE
        BY <3>1
      <4> QED BY <4>1, <4>2 DEF Threads
    <3>6. \A r \in Singletons : once[r] # "making"
      BY <2>0, <3>5 DEF MakeInv
    <3> QED BY <3>1, <3>4, <3>6
  <2> QED BY <2>1, <2>2, Zenon DEF ClosesWhatItMade
<1> QED BY <1>1, ProcessInvariant, PTL

(* A process is stopped only by a section, a connection or a stream that one of *)
(* its own runnables cannot do without: no other pod's configuration ends it. *)
THEOREM StopsAreOwn == ProcessSpec => []StoppedByItsOwn
<1>1. ProcessInv => StoppedByItsOwn
  BY DEF ProcessInv, CauseInv
<1> QED BY <1>1, ProcessInvariant, PTL
=============================================================================
