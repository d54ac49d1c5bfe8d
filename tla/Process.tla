------------------------------- MODULE Process --------------------------------
(***************************************************************************)
(* A Kannon process from its boot to its end: the commands (cmd), the       *)
(* container with its singletons, closers and health checks (x/container),  *)
(* the runnables under one errgroup, and the SMTPSender's pool of tasks.    *)
(*                                                                          *)
(* The boot path and every runnable is a thread with a list of steps that   *)
(* are left to it.  An infrastructure call succeeds or fails as it likes.   *)
(* No signal is handled, so the context is cancelled by the first runnable  *)
(* that returns an error and by nothing else.                               *)
(***************************************************************************)
EXTENDS Config

CONSTANTS
  MaxJobs,       \* sender.max_jobs, the slots of the pool
  Attempts       \* configureStreamAttempts

ASSUME ProcessAssumption == MaxJobs \in Nat \ {0} /\ Attempts \in Nat \ {0}

VARIABLES
  services,   \* the runnables this process was asked to be
  proc,       \* what the process is doing, or how it ended
  todo,       \* [thread -> the steps it still has to take]
  returned,   \* runnables whose Run has returned
  cancelled,  \* the errgroup's context
  cause,      \* what ended or is ending the process
  once,       \* [singleton -> "none", "making", "made", "failed"]
  open,       \* connections and servers that are open
  closers,    \* what the container will close
  hzs,        \* what the health endpoint asks about
  pool        \* the SMTPSender's tasks

containerVars == <<once, open, closers, hzs>>
groupVars     == <<returned, cancelled>>
processVars   == <<pod, services, proc, todo, groupVars, cause, containerVars, pool>>

Singletons == {"db", "nats", "embedded", "sender"}
Boot       == "boot"
Threads    == Services \cup {Boot}
NoCause    == [why |-> "none", of |-> "none"]
Cause(w, o) == [why |-> w, of |-> o]

-----------------------------------------------------------------------------
(* Steps of a thread.                                                      *)
Section(s, fields) == [op |-> "section", of |-> s, fields |-> fields]  \* LoadSection: panics
Must(r)            == [op |-> "must", of |-> r]        \* MustGet: exits
Try(r)             == [op |-> "try", of |-> r]         \* Get: steps over a failure
Checked(c)         == [op |-> "check", of |-> c]       \* addHZ
Ensure(n)          == [op |-> "ensure", of |-> "nats", left |-> n]  \* ConfigureStream: returns its error
Configure          == [op |-> "configure", of |-> "nats"] \* ConfigureStream: steps over a failure
Demand             == [op |-> "demand", of |-> "nats"] \* a Must... call on JetStream: exits
Token              == [op |-> "token", of |-> "api"]   \* AdminToken: returns its error
Stop               == [op |-> "stop", of |-> "none"]   \* return nil
Open(r)            == [op |-> "open", of |-> r]        \* a factory's connection
Provision          == [op |-> "provision", of |-> "nats"]
Made(r)            == [op |-> "made", of |-> r]        \* a factory returns

NatsJetStream    == <<Must("nats"), Checked("jetstream")>>
NatsPublisher    == <<Must("nats")>>
TryNatsJetStream == <<Try("nats"), Checked("jetstream")>>
MustGetPullSubscriber == <<Demand>>

(* What each singleton's factory does.                                     *)
DB                  == <<Open("db"), Made("db")>>
EmbeddedNatsServer  == <<Open("embedded"), Made("embedded")>>
connectNats         == IF UseEmbeddedNats
                       THEN <<Try("embedded"), Open("nats"), Provision, Made("nats")>>
                       ELSE <<Open("nats"), Made("nats")>>
SenderFields        == {"hostname", "demo_sender"}
Sender              == <<Open("sender"), Made("sender")>>
Factory(r) ==
  CASE r = "db" -> DB [] r = "nats" -> connectNats
    [] r = "embedded" -> EmbeddedNatsServer [] r = "sender" -> Sender

(* New: what constructing a runnable does, on the boot path.               *)
SenderNew  == <<Section("sender", {"max_jobs"})>> \o NatsPublisher \o NatsJetStream \o <<Must("sender")>>
StatsNew   == <<Section("stats", {"retention"})>>
TrackerNew == <<Section("tracker", {"port"}), Must("db"), Must("nats")>>
APINew     == <<Section("api", {"port"})>>
SMTPNew    == <<Section("smtp", {"address"})>>
AuditNew   == <<Section("audit", AuditFields)>>
New(s) ==
  CASE s = "sender"  -> SenderNew  [] s = "stats" -> StatsNew
    [] s = "tracker" -> TrackerNew [] s = "api"   -> APINew
    [] s = "smtp"    -> SMTPNew    [] s = "audit" -> AuditNew
    [] s \in {"dispatcher", "validator"} -> <<>>

(* What bootstrap registers, in this order.                                *)
Register(s) == IF Enabled(s) THEN New(s) ELSE <<>>
Registered ==
  Register("sender") \o Register("dispatcher") \o Register("validator") \o Register("stats")
  \o Register("tracker") \o Register("api") \o Register("smtp") \o Register("audit")

(* Run: what a runnable does before it serves.                             *)
SenderRun     == <<Demand, Demand>> \o MustGetPullSubscriber
DispatcherRun == <<Must("db")>> \o NatsJetStream \o <<Ensure(Attempts)>> \o NatsPublisher
                 \o MustGetPullSubscriber
ValidatorRun  == <<Must("db")>> \o NatsPublisher
StatsRun      == <<Must("db")>> \o NatsJetStream \o MustGetPullSubscriber
MustRecord    == IF AuditEnabled THEN NatsJetStream ELSE <<>>   \* mutant: the API exits without NATS
startAuditRecording ==   \* its NatsPublisher is the connection it has just been given
  IF AuditEnabled THEN TryNatsJetStream \o <<Configure>> ELSE <<>>
APIRun        == <<Token, Must("db")>> \o startAuditRecording
SMTPRun       == <<Must("nats")>>
AuditRun      == IF ~AuditEnabled THEN <<Stop>>
                 ELSE NatsJetStream \o <<Ensure(Attempts), Must("db")>> \o MustGetPullSubscriber
Run(s) ==
  CASE s = "sender"    -> SenderRun     [] s = "dispatcher" -> DispatcherRun
    [] s = "validator" -> ValidatorRun  [] s = "stats"      -> StatsRun
    [] s = "tracker"   -> <<>>          [] s = "api"        -> APIRun
    [] s = "smtp"      -> SMTPRun       [] s = "audit"      -> AuditRun

-----------------------------------------------------------------------------
(* How a process ends: os.Exit skips every deferred call; an error that    *)
(* bootstrap returns, and a panic on the boot path, run them.              *)
Alive == proc \in {"booting", "running"}
Exit(c)   == proc' = "exited" /\ cause' = c
Unwind(c) == proc' = "closing" /\ cause' = c

Quietly   == UNCHANGED <<proc, cause>>
Next1(t)  == todo' = [todo EXCEPT ![t] = Tail(@)]
At(t, op) == Alive /\ t \notin returned /\ todo[t] # <<>> /\ Head(todo[t]).op = op

(* run and runStandalone up to the container: what is wrong with the       *)
(* configuration is reported before anything is built.                     *)
bootstrap ==
  /\ proc = "starting"
  /\ services' = IF readConfigAndServices THEN Chosen ELSE {}
  /\ IF ~readConfigAndServices
     THEN Exit(Cause("config", "root")) /\ UNCHANGED todo
     ELSE IF Chosen = {}
     THEN Exit(Cause("config", "services")) /\ UNCHANGED todo
     ELSE IF ~requireAdminToken
     THEN Exit(Cause("config", "api")) /\ UNCHANGED todo
     ELSE /\ proc' = "booting"
          /\ todo' = [todo EXCEPT ![Boot] = Registered]
          /\ UNCHANGED cause
  /\ UNCHANGED <<pod, groupVars, containerVars, pool>>

(* Registry.Run: every runnable starts in a goroutine of its own.          *)
RegistryRun ==
  /\ proc = "booting" /\ todo[Boot] = <<>>
  /\ proc' = "running"
  /\ todo' = [t \in Threads |-> IF t \in services THEN Run(t) ELSE <<>>]
  /\ UNCHANGED <<pod, services, groupVars, cause, containerVars, pool>>

LoadSection(t) ==
  /\ At(t, "section")
  /\ LET st == Head(todo[t]) IN
       IF TryLoadSection(st.of, st.fields) THEN Quietly ELSE Unwind(Cause("config", st.of))
  /\ Next1(t)
  /\ UNCHANGED <<pod, services, groupVars, containerVars, pool>>

-----------------------------------------------------------------------------
(* singleton.Get: the first caller makes the value, the others wait for    *)
(* it, and a failure is what every later caller is given.                  *)
Get(t) ==
  LET r == Head(todo[t]).of IN
  /\ At(t, "must") \/ At(t, "try")
  /\ once[r] = "none"
  /\ once' = [once EXCEPT ![r] = "making"]
  /\ todo' = [todo EXCEPT ![t] = Factory(r) \o @]
  /\ UNCHANGED <<pod, services, proc, cause, groupVars, open, closers, hzs, pool>>

Given(t) ==
  LET r == Head(todo[t]).of IN
  /\ At(t, "must") \/ At(t, "try")
  /\ once[r] = "made"
  /\ Quietly /\ Next1(t)
  /\ UNCHANGED <<pod, services, groupVars, containerVars, pool>>

MustGet(t) ==
  LET r == Head(todo[t]).of IN
  /\ At(t, "must") /\ once[r] = "failed"
  /\ Exit(Cause(r, t))
  /\ UNCHANGED <<pod, services, todo, groupVars, containerVars, pool>>

(* A factory fails: what it had left to do up to its return is abandoned.  *)
FactoryFails(t, r) ==
  /\ once' = [once EXCEPT ![r] = "failed"]
  /\ \E i \in 1 .. Len(todo[t]) :
       /\ todo[t][i] = Made(r)
       /\ todo' = [todo EXCEPT ![t] = SubSeq(@, i + 1, Len(@))]

(* A Get that failed: the embedded server's fails connectNats with it, and *)
(* the API goes on without a Recorder.                                     *)
TryNats(t) ==
  LET r == Head(todo[t]).of IN
  /\ At(t, "try") /\ once[r] = "failed"
  /\ Quietly
  /\ IF r = "embedded" THEN FactoryFails(t, "nats")
     ELSE /\ todo' = [todo EXCEPT ![t] = SubSeq(@, Len(startAuditRecording) + 1, Len(@))]
          /\ UNCHANGED once
  /\ UNCHANGED <<pod, services, groupVars, open, closers, hzs, pool>>

(* A factory opens its connection, and registers its closer and its check  *)
(* at once; the SMTP sender opens nothing, but reads its section.          *)
Connects(t) ==
  LET r == Head(todo[t]).of
      held == {r} \ {"sender"} IN
  /\ At(t, "open")
  /\ r = "sender" => TryLoadSection("sender", SenderFields)
  /\ open' = open \cup held /\ closers' = closers \cup held /\ hzs' = hzs \cup held
  /\ Quietly /\ Next1(t)
  /\ UNCHANGED <<pod, services, groupVars, once, pool>>

ConnectFails(t) ==
  LET r == Head(todo[t]).of IN
  /\ At(t, "open")
  /\ r = "sender" => ~TryLoadSection("sender", SenderFields)
  /\ Quietly /\ FactoryFails(t, r)
  /\ UNCHANGED <<pod, services, groupVars, open, closers, hzs, pool>>

(* provisionEmbeddedJetStreams: its failure leaves an open connection that *)
(* the container knows of.                                                 *)
provisionEmbeddedJetStreams(t) ==
  /\ At(t, "provision")
  /\ Quietly
  /\ \/ Next1(t) /\ UNCHANGED once
     \/ FactoryFails(t, "nats")
  /\ UNCHANGED <<pod, services, groupVars, open, closers, hzs, pool>>

FactoryReturns(t) ==
  /\ At(t, "made")
  /\ once' = [once EXCEPT ![Head(todo[t]).of] = "made"]
  /\ Quietly /\ Next1(t)
  /\ UNCHANGED <<pod, services, groupVars, open, closers, hzs, pool>>

jetStream(t) ==
  /\ At(t, "check")
  /\ hzs' = hzs \cup {Head(todo[t]).of}
  /\ Quietly /\ Next1(t)
  /\ UNCHANGED <<pod, services, groupVars, once, open, closers, pool>>

-----------------------------------------------------------------------------
(* A runnable returns to the errgroup; the first error cancels the rest.   *)
Return(s, c) ==
  /\ returned' = returned \cup {s}
  /\ todo' = [todo EXCEPT ![s] = <<>>]
  /\ cancelled' = (cancelled \/ c # NoCause)
  /\ cause' = IF cause = NoCause THEN c ELSE cause
  /\ UNCHANGED <<pod, services, proc, containerVars, pool>>

(* ConfigureStream: a few attempts, and a cancelled context ends them.     *)
configureStreamWithRetry(t) ==
  /\ At(t, "ensure")
  /\ \/ ~cancelled /\ Next1(t) /\ Quietly /\ UNCHANGED <<pod, services, groupVars, containerVars, pool>>
     \/ /\ Head(todo[t]).left > 1 /\ ~cancelled
        /\ todo' = [todo EXCEPT ![t] = <<Ensure(Head(@).left - 1)>> \o Tail(@)]
        /\ Quietly /\ UNCHANGED <<pod, services, groupVars, containerVars, pool>>
     \/ /\ Head(todo[t]).left = 1 \/ cancelled
        /\ Return(t, Cause("stream", t))

(* The API's own ConfigureStream, however it ends.                         *)
StreamForRecords(t) ==
  /\ At(t, "configure")
  /\ Quietly /\ Next1(t)
  /\ UNCHANGED <<pod, services, groupVars, containerVars, pool>>

(* mustConfigureStatsJS, mustGetSendGuard and MustGetPullSubscriber exit   *)
(* when JetStream refuses, and a cancelled context is refused.             *)
Demands(t) ==
  /\ At(t, "demand")
  /\ \/ ~cancelled /\ Next1(t) /\ Quietly
     \/ Exit(Cause("jetstream", t)) /\ UNCHANGED todo
  /\ UNCHANGED <<pod, services, groupVars, containerVars, pool>>

(* The API resolves its credential again before it listens.                *)
ResolveToken(t) ==
  /\ At(t, "token")
  /\ IF AdminToken THEN Next1(t) /\ Quietly /\ UNCHANGED <<pod, services, groupVars, containerVars, pool>>
     ELSE Return(t, Cause("config", "api"))

AuditDisabled(t) == At(t, "stop") /\ Return(t, NoCause)

Serving(s) == proc = "running" /\ s \in services \ returned /\ todo[s] = <<>>

(* A loop, a subscription or a listener fails on its own.                  *)
Fails(s) ==
  /\ Serving(s) /\ ~cancelled /\ s # "sender"
  /\ Return(s, Cause("failure", s))

ServesOn(s) ==   \* mutant: nobody shuts the SMTPServer's listener down
  /\ Serving(s) /\ cancelled /\ s \notin {"sender", "smtp"}
  /\ Return(s, Cause("cancelled", s))

(* A cancelled context ends a loop and shuts a listener down; what it      *)
(* returns then is an error of its own, after the first.                   *)
Cancelled(s) ==
  /\ Serving(s) /\ cancelled /\ s # "sender"
  /\ Return(s, Cause("cancelled", s))

-----------------------------------------------------------------------------
(* Parallel: the pool of the SMTPSender.  Its WaitGroup counts the tasks   *)
(* that RunTask has taken on, its channel has a slot for each that runs,   *)
(* and Consume has one callback at a time, which waits for a slot.         *)
(*                                                                         *)
(* A task is early if RunTask took it on before the Wait had returned, and *)
(* late if after.                                                          *)
NewParallel == [phase |-> "idle", wg |-> 0, waiting |-> "none", early |-> 0, late |-> 0]
Running     == pool.early + pool.late
HasWaited   == pool.phase \in {"waited", "closed"}
Up          == proc \in {"running", "closing"}

Goes(p) ==
  /\ pool' = p
  /\ UNCHANGED <<pod, services, proc, todo, groupVars, cause, containerVars>>
Panics(why) ==
  /\ proc' = "panicked" /\ cause' = Cause(why, "sender")
  /\ UNCHANGED <<pod, services, todo, groupVars, containerVars, pool>>

(* consumer.Consume: the callbacks come, or its error is what the runnable *)
(* returns.                                                                *)
Consume == Serving("sender") /\ pool.phase = "idle" /\ Goes([pool EXCEPT !.phase = "serving"])

ConsumeFails ==
  /\ Serving("sender") /\ pool.phase = "idle"
  /\ Return("sender", Cause("failure", "sender"))

Stamp == IF HasWaited THEN "late" ELSE "early"
AdmitsUncounted(p) == [p EXCEPT !.waiting = Stamp]   \* mutant: Add is left to the goroutine
Admit(p) == [p EXCEPT !.wg = @ + 1, !.waiting = Stamp]

(* A callback comes for as long as there is a connection: the Drain is     *)
(* deferred until after the wait, and lets what is buffered pass.  An Add  *)
(* that meets a WaitGroup just when it is released may panic, and what is  *)
(* put into a channel that is closed does.                                 *)
Called == Up /\ pool.phase # "idle" /\ "nats" \in open

RunTask ==
  /\ Called /\ pool.waiting = "none"
  /\ \/ pool.phase # "closed" /\ Goes(Admit(pool))
     \/ pool.phase \in {"released", "closed"} /\ Panics("pool")

(* A callback that waits for its slot when the channel is closed.          *)
SendOnClosed == Up /\ pool.waiting # "none" /\ pool.phase = "closed" /\ Panics("pool")

Start(p) == IF p.waiting = "early" THEN [p EXCEPT !.early = @ + 1, !.waiting = "none"]
            ELSE [p EXCEPT !.late = @ + 1, !.waiting = "none"]

StartsAtOnce ==   \* mutant: no slot is waited for
  /\ Up /\ pool.waiting # "none" /\ pool.phase # "closed"
  /\ Goes(Start(pool))

(* A slot is free: the task runs, whether the context is cancelled or not. *)
StartTask ==
  /\ Up /\ pool.waiting # "none" /\ pool.phase # "closed" /\ Running < MaxJobs
  /\ Goes(Start(pool))

(* The slot is given back and Done called.  The last Done releases a Wait. *)
Done(p) == [p EXCEPT !.wg = @ - 1,
                     !.phase = IF @ = "blocked" /\ p.wg = 1 THEN "released" ELSE @]

FinishTask ==
  /\ Up
  /\ \/ pool.early > 0 /\ Goes(Done([pool EXCEPT !.early = @ - 1]))
     \/ pool.late > 0 /\ Goes(Done([pool EXCEPT !.late = @ - 1]))

(* WaitAndClose: Wait returns at once or blocks, and one that was released *)
(* looks again and panics at a WaitGroup that is in use again.  Only then, *)
(* in a step of its own, the channel is closed.                            *)
StartWait ==
  /\ Serving("sender") /\ cancelled /\ pool.phase = "serving"
  /\ Goes([pool EXCEPT !.phase = IF pool.wg = 0 THEN "waited" ELSE "blocked"])

WaitReturns ==
  /\ Serving("sender") /\ pool.phase = "released"
  /\ IF pool.wg = 0 THEN Goes([pool EXCEPT !.phase = "waited"]) ELSE Panics("pool")

CloseChannel ==
  /\ Serving("sender") /\ pool.phase = "waited"
  /\ Goes([pool EXCEPT !.phase = "closed"])

SenderReturns ==
  /\ Serving("sender") /\ pool.phase = "closed"
  /\ Return("sender", Cause("cancelled", "sender"))

-----------------------------------------------------------------------------
(* g.Wait, and then the deferred CloseWithTimeout: the closers run side by *)
(* side, until all have answered or the timeout passes.                    *)
FirstReturned == returned # {}   \* mutant: the group is not waited for
Waited == services \subseteq returned
Wait ==
  /\ proc = "running" /\ Waited
  /\ proc' = "closing"
  /\ UNCHANGED <<pod, services, todo, groupVars, cause, containerVars, pool>>

Close(r) ==
  /\ proc = "closing" /\ r \in closers \cap open
  /\ open' = open \ {r}
  /\ UNCHANGED <<pod, services, proc, todo, groupVars, cause, once, closers, hzs, pool>>

CloseWithTimeout ==
  /\ proc = "closing"
  /\ proc' = IF closers \cap open = {} THEN "ended" ELSE "timed out"
  /\ UNCHANGED <<pod, services, todo, groupVars, cause, containerVars, pool>>

-----------------------------------------------------------------------------
ProcessInit ==
  /\ pod \in Pods
  /\ proc = "starting" /\ services = {}
  /\ todo = [t \in Threads |-> <<>>]
  /\ returned = {} /\ cancelled = FALSE /\ cause = NoCause
  /\ once = [r \in Singletons |-> "none"]
  /\ open = {} /\ closers = {} /\ hzs = {}
  /\ pool = NewParallel

Thread(t) ==
  \/ LoadSection(t) \/ Get(t) \/ Given(t) \/ MustGet(t) \/ TryNats(t)
  \/ Connects(t) \/ ConnectFails(t) \/ provisionEmbeddedJetStreams(t) \/ FactoryReturns(t)
  \/ jetStream(t) \/ configureStreamWithRetry(t) \/ Demands(t) \/ ResolveToken(t) \/ AuditDisabled(t)
  \/ StreamForRecords(t)

Tasks        == SendOnClosed \/ StartTask \/ FinishTask
WaitAndClose == StartWait \/ WaitReturns \/ CloseChannel
HandleSend   == Consume \/ ConsumeFails \/ WaitAndClose \/ SenderReturns

ProcessNext ==
  \/ bootstrap \/ RegistryRun \/ Wait \/ CloseWithTimeout
  \/ \E t \in Threads : Thread(t)
  \/ \E s \in Services : Fails(s) \/ Cancelled(s)
  \/ RunTask \/ Tasks \/ HandleSend
  \/ \E r \in Singletons : Close(r)

(* Goroutines that can run are run, and a Send ends (Outbound).  That      *)
(* mail arrives, that a runnable fails or that the timeout passes is       *)
(* nobody's promise.                                                       *)
ProcessSpec ==
  /\ ProcessInit /\ [][ProcessNext]_processVars
  /\ WF_processVars(bootstrap \/ RegistryRun \/ Wait \/ CloseWithTimeout)
  /\ \A t \in Threads : WF_processVars(Thread(t))
  /\ \A s \in Services : WF_processVars(Cancelled(s))
  /\ WF_processVars(SendOnClosed) /\ WF_processVars(StartTask) /\ WF_processVars(FinishTask)
  /\ WF_processVars(HandleSend)

-----------------------------------------------------------------------------
(* Properties.                                                             *)
Over == proc \in {"exited", "panicked", "ended", "timed out"}

ProcessTypeOK ==
  /\ pod \in Pods
  /\ proc \in {"starting", "booting", "running", "closing"} \/ Over
  /\ services \subseteq Services /\ returned \subseteq services
  /\ once \in [Singletons -> {"none", "making", "made", "failed"}]
  /\ open \subseteq Singletons
  /\ Running \in 0 .. MaxJobs /\ pool.wg \in 0 .. MaxJobs + 1

(* Nothing is closed under somebody's feet, and nothing is left open: once *)
(* the container closes what it made, no runnable has anything left to do, *)
(* no factory is at work, and no email is on its way out that was taken on *)
(* before the SMTPSender waited; whatever is open then, connections that a *)
(* failed factory left included, is closed unless the timeout passes.      *)
ClosesWhatItMade ==
  /\ proc \in {"closing", "ended", "timed out"} =>
       /\ \A s \in Services : todo[s] = <<>>
       /\ pool.early = 0 /\ pool.waiting # "early"
       /\ \A r \in Singletons : once[r] # "making"
  /\ proc = "ended" => open = {}

(* A Send that RunTask took on before the Wait returned is over when the   *)
(* channel is closed and when the SMTPSender returns, whatever was taken   *)
(* on meanwhile: what runs then came in after the wait.                    *)
SendsFinishFirst ==
  HasWaited \/ "sender" \in returned => pool.early = 0 /\ pool.waiting # "early"

(* A process is stopped only by what its own runnables cannot do without:  *)
(* no section that belongs to another pod's runnable ends it, and a NATS   *)
(* that cannot be reached does not end an API that only wanted to record.  *)
NeedsNats == services \cap {"sender", "dispatcher", "validator", "stats", "tracker", "smtp"} # {}
             \/ ("audit" \in services /\ AuditEnabled)
StoppedByItsOwn ==
  /\ cause.why = "config" => cause.of \in services \cup {"root", "services"}
  /\ cause.why \in {"nats", "embedded", "stream", "jetstream"} => NeedsNats
  /\ cause.why = "sender" => "sender" \in services
  /\ cause.why = "cancelled" => FALSE

(* One for all: when a runnable has failed, the process comes to its end,  *)
(* and does not stay up with the others serving, unless Envelopes never    *)
(* cease to be taken on.                                                   *)
StopsAsOne == []<><<RunTask>>_processVars \/ (cancelled ~> Over)
=============================================================================
