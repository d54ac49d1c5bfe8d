# Kannon in TLA+

Kannon is a transactional mail sender: a Mailer API takes Batches, a Validator,
a Dispatcher and SMTPSenders move each Delivery of a Batch to its outcome, and
trackers, a statistics worker and an inbound SMTP server report what happened
afterwards. The services are separate processes, each of them replicated, and
meet only in Postgres and in NATS JetStream. This directory holds TLA+ models
of that code, TLC configurations that check them on small instances, and TLAPS
proofs for every instance.

    cd tla
    tlc -workers 2 -config MCPipeline.cfg MCPipeline     # one run
    tlapm PipelineProofs.tla                             # one proof module

`PROJECT.json` lists the components, runs, mutants (a changed definition that
the named property must notice), the map from definitions to source lines, the
findings, the hazards and the theorems.

## 1. Inventory

| component | state | operations | module |
|---|---|---|---|
| Retry Budget (`internal/delivery`) | the attempt tally of a Delivery | `Delay`, `NextRetryAt`, `CanRetry` | `RetryBudget` |
| Pool (`internal/db/pool.sql.go`, `delivery_repo.go`, `internal/pool`) | table `sending_pool_emails`: status, scheduled time, tally, claim instant | insert, claim for validation, claim for dispatch, set scheduled, reschedule, clean, reclaim | `SendingPool` |
| Validator (`pkg/validator`) | the rest of the claimed page | cycle, verdict, reclaim loop | `Validator` |
| Dispatcher (`pkg/dispatcher`) | claimed page, the Delivery each consumer holds | dispatch cycle, error/delivered/bounced consumers, reclaim loop | `Dispatcher` |
| Envelope builder (`internal/envelope`, `internal/utils/template.go`) | shared tokens | placeholders, links, pixel, headers, `ShouldRetry`, minting tokens | `Rendering`; `Tokens`; whether `Build` succeeds in `Dispatcher` |
| SMTPSender (`pkg/smtpsender`) | the Envelope each task holds, guard bucket, task pool | claim, send, report, ack or nak; shutdown | `SMTPSender`; the task pool in `Process` |
| NATS as used (`internal/publisher`, `internal/utils`) | ready messages, outstanding ones, KV entries | publish, hand out, redeliver, expire, provision | `Streams`, `StatsWorker`, `Audit`, `Process` |
| Mailer API (`pkg/api/mailapi`) | Batches, Deliveries | authenticate, sender authority, per-recipient reasons, tracking, insert | `Mailer`; tracking in `Engagement` |
| Admin API, API keys, domains, templates (`pkg/api/adminapi`, `internal/apikeys`, `internal/domains`, `internal/templates`) | tables of a Domain | create, list, read, update, deactivate, delete | `Tenants`, `Api` |
| Authorization (`internal/authz`, `internal/authzconnect`) | none | `Can`, `Guard`, `Attenuate`, attribution | `Authz` |
| Audit (`internal/audit`, `pkg/audit`) | stream, `audit_records` | record, publish, insert, sweep | `Audit` |
| Outbound SMTP (`internal/smtp`) | one connection | MX fallback, TLS, reply classification | `Outbound` |
| SMTPServer (`pkg/smtp`) | a session per connection | EHLO, RCPT, RSET, DATA, QUIT; parse a DSN, publish a bounce | `Inbound` |
| Stats worker and API (`pkg/stats`, `internal/stats`, `pkg/statsapi`) | stats rows, aggregated counters | two consumers, clean-up, queries | `StatsWorker`; engagement stats in `Engagement` |
| Tracker and tokens (`pkg/tracker`, `internal/statssec`) | signing keys | create keys, sign, verify, publish | `Tokens`, `Engagement` |
| Tracking policy (`internal/tracking`) | none | ceiling and cascade | `TrackingPolicy` |
| Configuration (`x/config`) | file, environment | resolve references, decode, validate | `Config` |
| Container, runner, commands (`x/container`, `internal/runner`, `cmd`) | singletons, closers, runnables | boot, run, cancel, close | `Process` |
| Migrations, DKIM keys, generated code | none | conversions | not modelled |

How they interact. The Mailer API inserts rows; the Validator claims them,
deletes the invalid ones, marks the others scheduled and publishes
`accepted`/`rejected`. The Dispatcher claims scheduled rows that are due, builds an
Envelope and publishes it on `kannon-sending`. An SMTPSender task takes it, claims
it in the send guard, talks to the relay and publishes `delivered`, `bounced` or
`error`. The Dispatcher's three consumers apply these to the row: delete it, or
reschedule it while there is budget and end it as `failed` when there is none.
Claims whose worker is gone are found by age and handed back by the reclaim
loops. Nothing is transactional across two of these steps.

Beside this runs tracking. The Mailer API resolves what Domain, Batch and
Recipient state into one Policy per Delivery; the Builder mints a signed token
per channel under it; the Tracker takes the Policy back from the token of a
request, since the Delivery's row is long gone, and publishes a stat. The Stats
worker reads the same stream of stats twice, once to file rows and once to
count, and a sweep removes what is past its retention. Every request to an API
passes a Guard, whose decision is published and becomes an audit row.

What is hard here: replicas that claim the same rows; statements keyed by
(message, address) without a condition on the status; a Delivery read in one
statement and written in a later one; stats that are lost, duplicated, late or
of an earlier attempt; crashes between a claim and its settlement; a reclaim
that races a slow worker; one of two effects (row, stat) happening alone;
requests of many statements with no transaction around them; a shutdown that
overlaps the work it ends. `PROJECT.json` lists these hazards at the lines where
they bite. What makes each part correct:

- Pool: a row in flight is always visible to the reclaim; a tally never drops.
- Validator and Dispatcher: no Delivery is lost silently, none is sent again
  without spending an attempt, none is deleted before it had one, all end.
- SMTPSender: one SMTP transaction for one stored Envelope.
- Outbound SMTP and SMTPServer: a permanent verdict is what a server said; a Send
  is over before the guard forgets it; a bounce is about the return path that the
  mail it was made of was addressed to last.
- Builder: the mail says what the Batch stated, and its unsubscribe URL works.
- Statistics: nothing acknowledged is unfiled or uncounted, a report is true.
- Tokens: the key of a token outlives it, across key rotation, concurrent key
  creation and clean-up.
- Tracking: what is published and stored of an engagement is no more than every
  level allows for its channel, whichever token is presented where.
- APIs: a send stays within its tenant and its answer is true; a key that was
  deactivated stays so.
- Authorization: what is allowed was granted; what the audit stream holds is stored.
- Process: what is made is closed, and not before its users are done; one failure
  stops all.

## 2. Modules

    RetryBudget   DeliveryKey
          \        /      \
         SendingPool     Streams ------------.
                  \      /   \               |
                 Validator  Dispatcher   SMTPSender
                         \      |        /
                          `- Pipeline --'---- Delivery (as INSTANCE)
                            /        \
                  PipelineClaims   PipelineProofs

                              Rendering --.
                                           \
    TrackingPolicy -- Tokens -- Engagement -- MCEngagement, EngagementProofs
          |   \                                               /
          |    `---------- TrackingPolicyProofs --------------'
          |                       \
    Tenants (with Authz) -- Mailer -- Api -- ApiProofs

    Authz -- Audit -- AuditProofs              Config -- Process -- ProcessProofs
       \
        StatsWorker -- StatsWorkerProofs       Outbound -- Inbound -- OutboundProofs

`RetryBudget`. The curve `Base * 2^attempts`, truncated to a signed `Width`-bit
register before it is compared with the floor, as the product of two values of
type `time.Duration` is in the code. `CanRetry` reads no clock.

`SendingPool`. One action per SQL statement. Rows have serial ids; claims and
reclaims pick rows by id, all other statements pick `RowsOf(k)`, every row with
the key; an insert of a key that is there is refused, as the unique index on
(email, message_id) does. `SKIP LOCKED` and `LIMIT` make a claim any non-empty
subset of what the `WHERE` clause selects up to `PageSize`. Time is relative:
`elapsed[r]` is `NOW() - original_scheduled_time`, `offset` is `scheduled_time` from
the same origin and `age` is `NOW() - claimed_at`. All comparisons of the code are
between these distances, and both stop counting once past every threshold, so
unbounded time has finitely many states. `PoolSpec` lets clients issue any
statement at any time: it is the abstract specification the pipeline implements.

`Streams`. NATS is not part of the repository; the module says what the
options in use guarantee: at-least-once delivery, redelivery on nak, on an expired
deadline and after a crash, expiry of KV entries. The container publishes with
the core client, so a publish that returned nil may still be lost. Losses,
refusals, redeliveries and crashes draw on one counter `faults`. Sequence
numbers that nothing remembers are reused; this is sound because the code only
compares them for equality. `admitted` and `published` are history variables.

`SMTPSender`. A task with an outstanding Envelope is inside `sender.Send`; the
relay's answer is any of accepted, transient, permanent. `Prompt` is the
assumption the guard's own comment makes, that whatever it admitted is settled
within its hour. It also has a specification of its own, fed by an arbitrary
Dispatcher. An EmailID that does not parse (acknowledged without a stat) is left
out: the Dispatcher builds every EmailID itself.

`Validator`. The verdict on the row and the stat about it are separate steps. The
ten-second deadline of a cycle is kept: past it the remaining statements fail.

`Dispatcher`. Four goroutines per replica hold a Delivery in memory, and each
statement they issue is a step of its own: `TakeStat` is the lookup,
`RescheduleGet` and `RescheduleUpdate` are the SELECT and the UPDATE of
`Repository.Reschedule`, `FailPublish` and `Drop` the two halves of `fail`. A
claimed page keeps the tally as it was read at the claim.

`Pipeline` composes them with the intake and the clock. `Delivery` is what all of
it promises of one Delivery: taken in once, ended once, never back, and ended
only after a terminal outcome was published if its address is deliverable.
`Pipeline!ImplementsDelivery` instantiates it with the status of the row as `life`
and the published stats as `said`. `PipelineClaims` holds what a comment of the
repository says and the code does not keep.

`TrackingPolicy`. The scale of Modes, the cascade and the ceiling, as pure
operators. `Permitted` is the reference definition the cascade is held against:
the ranks that every level which states something allows. Besides the five
Modes there is the one that states nothing and one standing for whatever a newer
build wrote.

`Tokens`. `stats_keys`, the Build of each replica, its cache of shared tokens and
the tokens in the mails, for the Deliveries of one Batch with one tracked URL. A
Build treats the links and then the opens; finding a key, creating one and
signing are separate steps with the clock in between, so two replicas can race
to create a key and a key can age after it was chosen. A key and a token carry
the time left until they expire, and a token in a mail disappears when it
expires. Losing cached tokens (`ForgetShared`) is both a restart and the two
generations of the map filling up with other Batches. `Kids` bounds the keys in
use at one time; an id that nothing mentions any more is drawn again, which is
sound because ids are only compared for equality.

`Engagement`. `Intake` freezes the Policy; `Engage` is `handleOpen` or
`handleClick`, with any token of any mail at either endpoint; `InsertStat` and
`DiscardStat` are `handleStatsMsg` with its redeliveries; `CleanupCycle` is the
worker's. `Start` admits mail of an older build (tokens with the legacy audience
and no Mode) and of a newer one (a Mode that cannot be read). The field `by` of
an event and the variable `allowed` are history: whose mail it was, and what the
levels allowed. A publish that fails or is lost is a request without an `Engage`.
The retention of rows is any subset: when a row is old is the concern of
`StatsWorker`. `Normalized` runs when the Domain is loaded.

`Rendering`. The text of a mail as a sequence of pieces (words, placeholders, link
tags, the end of the body), with what `internal/envelope` and the substitution of
fields make of them. A Go map is ranged over in any order, so the result is a
set. What a field holds is one piece, which may itself be a placeholder, an
expansion (`$1`) or a tag. `draft` is a Delivery that intake has let in, `envelope`
what the last Build made of it: each attempt builds anew, in an order of its
own. `MCEngagement` starts either with tokens or with a draft, since the two share
no state.

`Authz`. Resources, Anchors, Roles, Grants and `Can` as pure operators: a Resource
is the sequence of its segments, and the wildcard is a flag and not a text.
`Audit` puts a Principal that is issued and narrowed any number of times before
`Guard`, and follows the decision through the Recorder, the stream, the worker and
the sweep. `May` and `Within` are the reference that `AllowedIsTrue` holds `Can`
against: they speak of the Role and the place the credential was issued for,
and never of patterns.

`Tenants` has the tables and statements of a Domain, `Mailer` one send with a step
per statement, `Api` the Admin operations beside it. What a request states is
chosen at the step that reads it. The row lock of `GetAPIKeyByIDForUpdate` is the
variable `locked`; a failed statement ends the request where it is. A Template's id
is drawn from those that no row and no request under way has (`FreshIds`), as
the random ids of the code are; `MailerAssumption` says that there is always
one left. An update of a key keeps the expiry it has read.

`StatsWorker`. Two durable consumers, each with its own position and its own tally
of deliveries per message; a Nak without delay and an expired deadline both
spend a delivery, and `MaxDeliver` of them end it: such a message is neither
filed nor counted. `EveryStatSettles` therefore asks for an Ack or a Term, and
excepts only a message that met a failure at each of its deliveries. A handler
that fails for what the message says, or because its row is there already, is
no such failure. The API's two statements are two steps with the worker in
between.

`Outbound`. One Send: resolution, the loop over at most five hosts, each stage of a
transaction with its error, the second dial without TLS, QUIT and the report.
`dials` carries the time a Send may have taken.

`Inbound`. The sessions of the SMTPServer side by side, each with any commands in
any order: a later RCPT overwrites the one before, RSET makes go-smtp forget the
mail (`rcpts`) and the Session nothing, and any mail at a return path that can be
parsed becomes a bounce, an automatic answer included. Of a message its
diagnostics are kept, each with a code and with whether it is spelled the way
`parseMessageReg` wants (`plain`): the first that is plain gives the code, and a
message without one a 550. `bounce` keeps the mail it was made of as history.
`EXTENDS Outbound` is for the Deliveries and for the class that the synchronous
path gives a code; the two sides share no state, and `MCOutbound` has behaviours
of one and of the other.

`Config` and `Process`. `Config` resolves `env://` references, decodes per section
and validates what a runnable needs. `Process` gives the boot path and each
runnable a list of steps; a singleton is made by the first that asks and its
failure is kept, and whoever waits for its factory gives up what that factory
still had to do (`FactoryFails`). Runnables are registered in the order of the
command (`Registered`), one after the other. `Exit` is `os.Exit`, after which
nothing is closed. No signal is handled by the code, so a context is cancelled
only by a runnable's error.

The SMTPSender's pool of tasks is the part of `Process` with the finest steps.
`RunTask` counts a task and waits for a slot, `StartTask` takes the slot,
`FinishTask` gives it back and calls `Done`. `StartWait`, `WaitReturns` and
`CloseChannel` are the lines of `WaitAndClose` one by one: `Drain` is deferred
until after them, so callbacks go on coming for as long as the NATS connection
is open (`Called`), before, between and after these lines. What `sync.WaitGroup` and
channels do then is in the guards: an `Add` may panic when it meets a WaitGroup
that is just being released, a `Wait` that was released panics when the group is in
use again, and so does a send on the closed channel. A task is *early* if it was
taken on before the `Wait` had returned, and *late* otherwise. The code promises
something only of the early ones, and that is what `SendsFinishFirst` and
`ClosesWhatItMade` say; a late one runs on while the container closes, or panics.

## 3. Runs

| run | instance | checks |
|---|---|---|
| `pipeline` | 1 row, 1 of each service, 2 faults, tally to 2 | `TypeOK`, `InFlightIsStamped`, `NoSilentLoss`, `OneTransactionPerEnvelope`, `TallyNeverDrops`, `ResendSpendsAttempt`, `ImplementsDelivery` |
| `replicas` | 2 Validators and 2 Dispatchers on one row, symmetric | `ResendSpendsAttempt` |
| `two_rows` | a valid and an invalid row in one page, no faults | `AtLeastOneAttempt` |
| `settles` | 1 row, 1 fault, fairness | `EverySettles` |
| `engagement` | 2 Recipients, 1 Builder, 2 keys, lifetime 2, mint time 1, symmetric; 80 pages, 47 field maps, 18 endpoints | `EngagementTypeOK`, `RetainsWithinPolicy`, `UnexpiredTokenVerifies`, `UnsubscribeIsHonoured`, `DeliveredAsStated` |
| `api` | 2 Domains, one with a parent, 1 key, 2 requests at a time, 1 Recipient | `ApiTypeOK`, `TenantIsolation`, `BatchUnderOneCeiling`, `AnswerIsTrue`, `DeactivationIsFinal`, `RequestsAreAnswered` |
| `audit` | 4 places, 8 Resources, 2 writers, 2 faults | `AuditTypeOK`, `AllowedIsTrue`, `AckedIsStored`, `RecordReachesTable`, `RetentionIsKept` |
| `stats` | 2 messages of 4 kinds, 2 deliveries each, 2 faults | `StatsTypeOK`, `CountsEveryEvent`, `AckedIsFiled`, `ReportIsFaithful`, `EveryStatSettles` |
| `smtp` | a Send: 2 Deliveries, 2 Envelopes each, none or 14 MX hosts; or 2 connections, 2 recipients a mail, 7 messages | `VerdictIsEarned`, `SendWithinGuard`, `NoticeIsAttributed`, `SendEnds` |
| `process` | 21 pods of one installation, 1 slot, any number of Envelopes, 2 provisioning attempts | `ProcessTypeOK`, `ClosesWhatItMade`, `SendsFinishFirst`, `StoppedByItsOwn`, `StopsAsOne` |

Deadlock is checked in the runs of the pipeline and of `engagement`, where the
clock keeps every state enabled unless `Prompt` holds it back, and then a worker
can move. The others may stop: requests, messages, Envelopes and the clock are
bounded, and a process ends.

The bounds. A budget of `Window = 2` with `Base = 1` gives one retry and then
exhaustion, so both verdicts of `retryOrFail` occur. Thresholds of 0 or 1 make a
claim stranded after one or two ticks, while its worker may still be at it:
reclaims race late workers in every run. `MaxPending = 1` makes a publisher wait
when a stat of the same kind and key is waiting; a duplicate that does not fit is
the one already there. `PageSize = 2` is where one row of a page can fail while
the other goes on. Two faults are enough for a failure during the recovery from
a failure. `ValidateTimeout <= ValidateStrand` (`ValidatorAssumption`) mirrors ten
seconds against five minutes; the mutant without it breaks `ResendSpendsAttempt`,
which shows that this distance is what the unconditional
`SetSendingPoolScheduled` rests on.
Symmetry is used only in `replicas` and `engagement`, which check no liveness.

In `engagement`, `Period = 2` and `MintTime = 1` make a key lose its right to sign
while it is still valid, and let a Build outlive the choice of its key. `Stated`
leaves out `identified`, whose rank only differs from its neighbours in what the
address and the request say, both of which `full` exercises; the theorem covers
it. `MaxHeld = 1` lets a Recipient's next Build start once the mail of the last one
has expired, so keys rotate under repeated Builds; `MaxStats = 1` keeps one
engagement at a time, which loses nothing because no action reads two of them.
One Builder keeps the run within minutes, so it does not show two replicas
racing to create a key: the theorem does, for any number of them. Pages of three
pieces place a field before, inside and after a link and the end of the body;
the field maps hold values that are placeholders, expansions and links, names
that are patterns, and one that does not compile.

In `api`, one key and two requests are what a race for a row lock needs; a send
may overlap one Admin request. In `audit`, the Resources are of every depth, of a
second Domain, and one is not well formed; one identifier suffices because
decisions do not meet. In `stats`, two messages may be the same event, two
deliveries make the last one reachable with two faults, and an hour of two ticks
lets the messages fall together or a retention apart. In `smtp`, 14 records are
more than the five the code tries, and `GuardTTL = 240` over a dial of 1 and a
connection of 8 is one hour over 15 and 120 seconds; two connections show that
sessions do not mix, two recipients that the last one counts, and the messages
have no diagnostic, one in either spelling and either class, or two of which the
first is soft or not matched. In `process`, one slot makes the next Envelope wait
inside `RunTask` while the process stops, and Envelopes are not limited: one that
comes is told from another only by whether it is early or late.

Fairness. `FairSpec`: every goroutine is weakly fair: cycles and reclaims are
timer loops of `runner.Run`, consumers are handed what is ready, a Send returns
because `internal/smtp` has deadlines, the clock moves. Each consumer of each
replica has its own condition, because one goroutine never waits for another.
Judging a row is strongly fair: a deadline missed in every cycle for ever would
keep a row in validation, and nothing in the code prevents it. The environment
fails finitely often; without that bound, losing every stat refutes any liveness
(see `stranding`). Intake and Template deletion are not fair. `ApiSpec`: a request
that was begun goes on. `AuditSpec` and `StatsSpec`: a consumer is handed what is
ready and its handler returns; the sweep comes round. `OutboundSpec`: a Send goes
on, since every stage has a deadline; nothing is asked of remote systems that
connect to us. `ProcessSpec`: every thread goes on, a task that may start does so,
one that runs ends, a send on a closed channel panics, and `handleSend` moves
when it can; that Envelopes come and the failure of a call are never fair.
`StopsAsOne` excepts behaviours in which `RunTask` is called again and again: with
the `Drain` deferred past the wait, a backlog that never ends keeps the WaitGroup
in use, and the process stays up and sends.

### Where text and code disagree

| run | what the text says | what TLC finds |
|---|---|---|
| `stranding` | the bump "is what makes a condition that strands systematically converge on termination" (`pkg/dispatcher/reclaim.go`) | `dispatchOne` asks for no budget when it can build the Envelope; with stats that never come back, claim, send and reclaim repeat for ever |
| `handoff` | Delivered is "The remote MX accepted the SMTP handoff" (`CONTEXT.md`) | a failed QUIT after the 250 is reported as an error and the mail is sent again |

`stranding` sets `StatsReach = FALSE`: stats are published and reach no consumer of
the Dispatcher, the systematic condition the comment speaks of. The same loop
raises the tally without end, and so past the overflow of the back-off that
ADR 0007 calls "unreachable by construction".

Met while modelling, without a run of their own:

- `handleDelivery` drops a rejected row before it publishes the stat, so a
  rejection can go unreported (`CONTEXT.md`: it "is emitted as a stat").
- A row whose `failed` was published and whose Drop failed is reclaimed and sent
  again; `disp.go` says the next reclaim brings it back "for this same verdict".
- The cache that makes an Anonymous token the same for a whole Batch is one
  process's; two replicas mint two tokens.
- A decision on a Resource with a blank segment is published and refused by the
  audit worker's `Validate`; ADR 0010 says that every check is recorded.
- The deadline `sendAckPolicy` gives a Send is two minutes, while five hosts tried
  twice can take over twenty; the guard, not the deadline, keeps the mail from
  going out twice.
- Outcomes carry codes that no server gave (0, 111, 512).
- `parseMessageReg` matches only `Diagnostic-Code: SMTP; NNN text` in that spelling.
  A soft code in another one (`smtp; 450 ...`) becomes a 550 and so permanent;
  `CONTEXT.md` says of 4xx and 5xx that both sources classify them the same way.
- A mail to several return paths is a bounce of the last only, and an automatic
  answer is a permanent bounce.
- `Runnable.Run` "must return when ctx is cancelled" (`x/container/runnable.go`). The
  SMTPSender's does not while Envelopes keep coming, see `StopsAsOne`.
- Between `wg.Wait()` and `close(p.ch)` a callback may take a slot, and its Send runs
  on beside the teardown; a callback after the close panics.
- A field whose value holds a placeholder makes the body depend on the order of a
  map, and `$` in a value is expanded by `ReplaceAllString`. `DeliveredAsStated`
  asks for the fields in some order, not in a particular one.
- `Attenuate` has no caller outside of tests; no command handles SIGTERM.

## 4. Proofs

All proofs hold for any sets of rows, keys, replicas, workers and sequence
numbers and any values of the bounds that satisfy the named assumptions.

| theorem | statement |
|---|---|
| `PipelineProofs!BackoffIsTheCurve` | for all `a`: `Delay(a) >= MinDelay`, and the documented curve while the product fits |
| `PipelineProofs!BudgetStaysSpent` | for all `a`, while the product fits: `CanRetry(a + 1) => CanRetry(a)` |
| `PipelineProofs!PoolSafety` | `PoolSpec => [](PoolTypeOK /\ InFlightIsStamped)` |
| `PipelineProofs!PoolTally` | `PoolSpec => TallyNeverDrops` |
| `PipelineProofs!OneTransaction` | `Prompt /\ SenderSpec => []OneTransactionPerEnvelope` |
| `PipelineProofs!PipelineTypes` | `Spec => [](TypeOK /\ InFlightIsStamped)` |
| `PipelineProofs!PipelineImplementsPool` | `Spec => PoolSpec` |
| `PipelineProofs!PipelineLosesNothing` | `Spec => []NoSilentLoss` |
| `PipelineProofs!PipelineImplementsDelivery` | `Spec => ImplementsDelivery` |
| `PipelineProofs!ResendsSpendAttempts` | `Spec => ResendSpendsAttempt` |
| `PipelineProofs!DeliveriesAreAttempted` | `Spec => AtLeastOneAttempt` |
| `OutboundProofs!VerdictsAreEarned` | `OutboundSpec => []VerdictIsEarned` |
| `OutboundProofs!SendsAreGuarded` | `OutboundSpec => []SendWithinGuard` |
| `OutboundProofs!NoticesAreAttributed` | `InboundSpec => []NoticeIsAttributed` |
| `EngagementProofs!EngagementTypes` | `EngagementSpec => []EngagementTypeOK` |
| `EngagementProofs!PolicyIsKept` | `EngagementSpec => []RetainsWithinPolicy` |
| `EngagementProofs!TokensVerify` | `EngagementSpec => []UnexpiredTokenVerifies` |
| `EngagementProofs!PageIsDelivered` | `RenderSpec => []DeliveredAsStated` |
| `EngagementProofs!UnsubscribeHolds` | `RenderSpec => []UnsubscribeIsHonoured` |
| `ApiProofs!ApiTypes` | `ApiSpec => []ApiTypeOK` |
| `ApiProofs!TenantsAreIsolated` | `ApiSpec => []TenantIsolation` |
| `ApiProofs!BatchesUnderOneCeiling` | `ApiSpec => []BatchUnderOneCeiling` |
| `ApiProofs!AnswersAreTrue` | `ApiSpec => []AnswerIsTrue` |
| `ApiProofs!DeactivationsAreFinal` | `ApiSpec => DeactivationIsFinal` |
| `AuditProofs!AuditTypes` | `AuditSpec => []AuditTypeOK` |
| `AuditProofs!DecisionsAreTrue` | `AuditSpec => []AllowedIsTrue` |
| `AuditProofs!AcksFollowRows` | `AuditSpec => []AckedIsStored` |
| `StatsWorkerProofs!StatsTypes` | `StatsSpec => []StatsTypeOK` |
| `StatsWorkerProofs!AcksFollowFiles` | `StatsSpec => []AckedIsFiled` |
| `StatsWorkerProofs!ReportsAreFaithful` | `StatsSpec => []ReportIsFaithful` |
| `StatsWorkerProofs!CountersAreSound` | `StatsSpec => []CountsEveryEvent` |
| `ProcessProofs!ProcessTypes` | `ProcessSpec => []ProcessTypeOK` |
| `ProcessProofs!SendsAreFinished` | `ProcessSpec => []SendsFinishFirst` |
| `ProcessProofs!ClosesAreClean` | `ProcessSpec => []ClosesWhatItMade` |
| `ProcessProofs!StopsAreOwn` | `ProcessSpec => []StoppedByItsOwn` |

`TrackingPolicyProofs` has the facts about the cascade that both Engagement and
Api need.

Assumptions. `PoolAssumption` includes that no `Delay(a)` up to the bound is beyond
`Horizon`, where the clock of a row stops counting. `RenderAssumption` says what an
author can write: a page is a sequence of pieces with no pixel in it, a link tag
is a target and a number of opt-outs, there are finitely many fields, and an
endpoint consists of words and placeholders. `OneTransaction` assumes `Prompt`;
without it TLC finds the second admission (an entry expires, the message is
redelivered afterwards). `ResendsSpendAttempts` rests on
`ValidateTimeout <= ValidateStrand`, and `SendsAreGuarded` on
`GuardAssumption`, `10 * (DialTimeout + TotalTimeout) <= GuardTTL`: two connections
with each of five hosts, of 15 and 120 seconds, against an hour. The other
assumptions are types (`StatsAssumption`, `ProcessAssumption`, `ApiAssumption`,
`OutboundAssumption`, `InboundAssumption`) or keep placeholders apart from values:
`None` is no Mode, no request, no event and no record, and no Domain has the empty
name (`TenantAssumption`, `NoneAssumption`, `AuditAssumption`).

Arguments.

- *Back-off.* That the recursion `2^n` has a solution on all numbers is shown from
  its finite parts, by induction. The provers cannot instantiate an induction
  rule that takes a predicate; the lemma `Induction` takes a set instead, and is
  proved from the theorems on finite sets: a set closed under successor that
  misses n would map its part below n injectively into that part less 0.
- *Pool.* Type and stamp together are inductive: only the two claims put a row in
  flight and both set the age; whatever leaves the age alone leaves it set.
- *OneTransaction.* `GuardInv` says of every copy of a stored Envelope, ready or
  at a worker: it was admitted at most once, and if it was, its entry stands.
  The property alone is not inductive, since the copy that will be admitted
  next is in the stream and not at a worker. `Prompt` enters in the clock's step.
- *Pipeline implements Pool.* Every action either runs one statement of the
  Pool or leaves its variables alone; the one obligation with content is that
  the instant handed to `ReschedulePool`, computed in an earlier step, lies in range,
  which is the type invariant of the jobs.
- *LosesNothing.* A consumer deletes a row because of a stat it took earlier,
  and `fail` because of one it published earlier. `LossInv` follows the
  evidence: a waiting `delivered` or `bounced` stat was published, a thread about
  to drop has a terminal outcome published for its key, hence so has every
  deleted row with a valid address. The Validator deletes only invalid ones.
- *Implements Delivery.* A step of the Pool moves every row one way along absent,
  open, ended or leaves it (`LivesOn`, `Begun`, `Over` sort the statements); what was
  published only grows. That a step ends only rows whose terminal outcome is
  out is where the refinement needs an invariant, and it is `LossInv`.
- *PolicyIsKept.* What is retained is decided long after intake, from a token
  alone, so `PolicyInv` follows the tokens: each one, in a Build, in a cache or
  in a mail, may say only what its holder's levels allow on every channel that
  would accept it (`Fits`). A cached token fits everybody, because it isolates
  nobody. `CascadeNarrows` is the fact about the cascade: every rank up to that
  of the resolved Mode is in `Permitted`.
- *TokensVerify.* `KeyInv` says that a key chosen by a Build has, with the time the
  Build has used since, more than a lifetime left, and of every token that its
  key has more left than it does, less the mint time. The mint time is needed:
  the key is chosen with one reading of the clock and the token stamped with a
  later one, so a token of a key about to lose its right to sign can outlive it
  by as long as its Build took. `UnexpiredTokenVerifies` says no more than that.
- *Rendering.* The loop over the fields is a recursive function in any order of the
  keys; `Passes` are its values, and `Induction` carries what is said of a text from
  one to the next. `UrlPiece` is that for a URL: a placeholder is still open and no
  key tried so far fits it, or it holds an encoded value, which is never a
  placeholder again. Hence whether an endpoint resolves is the same in every
  order, and a Build finds resolved what intake found so. Each unsubscribe
  header occurs once and is signed twice, so a copy of it, wherever it is put,
  changes what is covered. The page is followed piece by piece through the
  rewriting of tags, with the position of each piece past the pixel.
- *ResendsSpendAttempts, DeliveriesAreAttempted.* Statements name rows by (message,
  address) and do not look at the status, so both need to know that whoever
  issues one has a row in mind that is where it thinks. `KeysApart` is the unique
  index. `LiveIsClaimed`: a row in the page of a Validator within its deadline is
  `validating`, its claim is as old as the page, and no other replica has it; with
  the deadline below the threshold no reclaim can come in between. `OutIsPassed`,
  `BackIsPassed` and `HeldIsPassed`: every Envelope, stat, page entry and job is about
  a key whose row the Validator has passed, or which has no row any more.
- *Outbound.* `SendOK` bounds how often a Send has dialled by the host it is at (twice
  per host before, once or twice at this one), and keeps the reply empty until a
  Send is over; `Earned` is the verdict as a fact about the step that ends it.
- *Inbound.* `SessionInv`: a Session that is open and has recipients keeps the last
  of them, whatever the other connections do, and a closed one has none. `Rcpt`
  sets both at once and every command that forgets the mail empties the list, so
  `Data`, which needs a recipient, finds the one the mail was addressed to last.
- *Api.* `RequestOK` is what a request has learned so far: its key is of its Domain,
  its Template is of that Domain, and while it is about to commit it holds the
  lock of the row it has read. The tables keep it true: a key and a Template
  never change their Domain, a locked row is changed only by its holder, and an
  id in use is not given out again. `StoredOK` and `TruthOf` relate what is stored to
  what is answered. The lock is what `DeactivationsAreFinal` is about: without it
  the read of an update may precede a deactivation and its write follow.
- *Audit.* `AllowedIsTrue` speaks of the Role and place a credential was issued
  for, and `Can` of patterns. `HoldsLawful` connects them: each Grant that a Principal
  has is fixed to the issued place or to a Resource within it, and a Sender's to
  a Domain. It is inductive because narrowing asks `anchorCovers` first. `Backed`
  follows a record from the handler to its row: a writer at `ack` has one.
- *StatsWorker.* `FiledInv` says of an acknowledged event, and of one that a handler
  is about to acknowledge, that it is `Recorded`; every row is `Sourced`, the row of a
  readable event that may be kept. `QueryInv` carries the page of a report to its
  second statement. `CountInv` bounds a counter from both sides: by the messages
  that are tallied (acknowledged, or written and about to be), and by the
  occasions on which one of the bucket was handed out. v1 shows no more than v2
  because rows of a bucket come from different messages of it.
- *Process.* `ShapeInv` says that the steps of a factory stand together before all
  others of their thread, `MakeInv` that a singleton in the making has exactly one
  return to come, in one thread. With `PhaseInv` (which threads still have steps in
  which phase) nothing is closed under anyone. `PoolInv` is the arithmetic of the
  WaitGroup and its phases: it counts the task that waits for a slot and those
  that run, early or late; a `Wait` that returns finds it at zero, so no early task
  is left (`Settled`), and whoever is taken on from there is late.
  `CauseInv` holds the reason from the first error to the end.

Only model-checked. Everything temporal under fairness (`EverySettles`,
`RequestsAreAnswered`, `RecordReachesTable`, `RetentionIsKept`, `EveryStatSettles`,
`SendEnds`, `StopsAsOne`) is out of the prover's reach; every other property of the
passing runs is proved. The two violations are counterexamples and need no proof.

## 5. Not modelled, and the plan

Not modelled: generated code (protobuf, connect, most of sqlc's scanning),
migrations, the cryptography of DKIM and of tokens, MIME boundaries and
character sets, HTTP and the handler of the health endpoint, metrics and logs.
Of an address only whether the Validator's expression accepts it is kept. How
long a DNS lookup takes is left out of a Send's time, since the code does not
bound it. `SetSendingPoolDelivered` is never called. What an `os.Exit` in one
runnable does to sends that another has under way is a crash of the pipeline's
worker and has no property of its own in `Process`.

Planned: what liveness rests on, where it is an invariant that can be proved: a row
that is still in the Pool can always be picked up again by a claim, a reclaim or
whoever holds it, and the tally of a row bounds how often it was sent.
