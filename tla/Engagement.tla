------------------------------ MODULE Engagement ------------------------------
(***************************************************************************)
(* What is retained about Recipients: the Policy resolved at intake, the    *)
(* tokens the Builders mint under it, the Tracker that turns a request      *)
(* into a stat event (pkg/tracker) and the Stats worker that turns the      *)
(* event into a row (pkg/stats).                                            *)
(*                                                                          *)
(* Some Recipients hold mail of another build: of an older one, whose       *)
(* tokens state no Mode, or of a newer one, whose Mode cannot be read.      *)
(***************************************************************************)
EXTENDS Tokens

CONSTANTS
  Stated,       \* bound: what a level states, of DomainModes and WireModes
  MaxStats      \* bound: engagement events and rows at one time

ASSUME EngagementAssumption ==
  /\ Stated \subseteq Modes
  /\ MaxStats \in Nat

VARIABLES
  allowed,    \* history: the ranks of collection allowed about a Recipient
  events,     \* engagement stats waiting for the kannon-stats-logs consumer
  rows        \* table stats: the rows engagement has left

engagementVars == <<keys, policy, building, shared, held, allowed, events, rows>>

-----------------------------------------------------------------------------
(* The field by is history: the Recipient whose mail was engaged with.     *)
Event == [axis : Axes, by : Recipients, who : Identity, mode : Modes, ip : BOOLEAN]
StatRow == [axis : Axes, by : Recipients, who : Identity, ip : BOOLEAN]

NotYet == [a \in Axes |-> {}]            \* no Delivery of any build

(* What the cascade makes of one Axis: the Mode and what was allowed.      *)
Outcome(domain, batch, recipient) ==
  [mode |-> MostRestrictive(domain, batch, recipient),
   allowed |-> Permitted(domain, batch, recipient)]

Levels == {l \in (DomainModes \cap Stated) \X (WireModes \cap Stated) \X (WireModes \cap Stated) :
             Admitted(l[1], l[2], l[3])}

Outcomes == {Outcome(l[1], l[2], l[3]) : l \in Levels}

(* createBatch and scheduleBatch freeze the Policy on the Delivery.  A     *)
(* Batch or a Recipient above the ceiling is refused and leaves nothing.   *)
Intake(r) ==
  /\ allowed[r] = NotYet
  /\ \E links, opens \in Outcomes :
       /\ policy' = [policy EXCEPT ![r] = [links |-> links.mode, opens |-> opens.mode]]
       /\ allowed' = [allowed EXCEPT ![r] = [links |-> links.allowed, opens |-> opens.allowed]]
  /\ UNCHANGED <<keys, building, shared, held, events, rows>>

-----------------------------------------------------------------------------
(* retained.                                                               *)
Retained(t) ==
  IF IsolatesRecipient(t.mode) THEN [who |-> t.who, ip |-> t.mode = "full"]
  ELSE [who |-> NoOne, ip |-> FALSE]

(* FromMode and ToMode: a Mode this build cannot read is not on the wire.  *)
OnTheWire(m) == IF m \in WireModes THEN m ELSE "unspecified"

(* handleOpen, handleClick: a request for a token at one of the two        *)
(* endpoints.  One that is not verified leaves nothing, nor does one whose *)
(* event is lost.                                                          *)
Engage(r, t, channel) ==
  /\ Verifies(t, channel)
  /\ Cardinality(events) + Cardinality(rows) < MaxStats
  /\ events' = events \cup
       {[axis |-> channel, by |-> r, who |-> Retained(t).who,
         mode |-> OnTheWire(t.mode), ip |-> Retained(t).ip]}
  /\ UNCHANGED <<keys, policy, building, shared, held, allowed, rows>>

-----------------------------------------------------------------------------
(* handleStatsMsg under Anonymous, and for an event that names nobody.     *)
DiscardStat(e) ==
  /\ e.mode = "anonymous" \/ e.who = NoOne
  /\ events' = events \ {e}
  /\ UNCHANGED <<keys, policy, building, shared, held, allowed, rows>>

(* handleStatsMsg for any other: the row, and then the Ack, which may not  *)
(* arrive.  A failed insert leaves everything as it was.                   *)
InsertStat(e) ==
  /\ e.mode # "anonymous"
  /\ e.who # NoOne
  /\ rows' = rows \cup {[axis |-> e.axis, by |-> e.by, who |-> e.who, ip |-> e.ip]}
  /\ events' \in {events, events \ {e}}
  /\ UNCHANGED <<keys, policy, building, shared, held, allowed>>

(* cleanupCycle: the rows past their retention, whichever these are, and   *)
(* then the expired keys, unless the first statement fails, or the second. *)
CleanupCycle ==
  /\ \E old \in SUBSET rows : rows' = rows \ old
  /\ keys' \in {keys, KeysAfterCleanup}
  /\ UNCHANGED <<policy, building, shared, held, allowed, events>>

-----------------------------------------------------------------------------
(* Mail of an older build, signed with the key k a moment ago.             *)
LegacyMail(r, k) ==
  {[kid |-> k, aud |-> "legacy", mode |-> "unspecified",
    who |-> [kind |-> "address", of |-> r], left |-> Period]}

(* Mail of a newer build, in a Mode of which nothing is known.             *)
NewerMail(r, k) ==
  {[kid |-> k, aud |-> a, mode |-> "unreadable",
    who |-> [kind |-> "address", of |-> r], left |-> Period] : a \in Axes}

Start(k, legacy, newer) ==
  /\ legacy \cap newer = {}
  /\ keys = [i \in Kids |-> IF i = k /\ legacy \cup newer # {} THEN 2 * Period ELSE Absent]
  /\ policy = [r \in Recipients |-> NoPolicy]
  /\ building = [b \in Builders |-> IdleBuild]
  /\ shared = [b \in Builders |-> {}]
  /\ held = [r \in Recipients |->
               IF r \in legacy THEN LegacyMail(r, k)
               ELSE IF r \in newer THEN NewerMail(r, k) ELSE {}]
  /\ allowed = [r \in Recipients |-> [a \in Axes |->
                  IF r \in legacy THEN 0..3 ELSE IF r \in newer THEN {0} ELSE {}]]
  /\ events = {}
  /\ rows = {}

EngagementInit ==
  \E k \in Kids : \E legacy, newer \in SUBSET Recipients : Start(k, legacy, newer)

EngagementNext ==
  \/ \E r \in Recipients : Intake(r)
  \/ /\ \/ \E b \in Builders : BuilderStep(b)
        \/ TokenTick
     /\ UNCHANGED <<allowed, events, rows>>
  \/ \E r \in Recipients : \E t \in held[r], channel \in Axes : Engage(r, t, channel)
  \/ \E e \in events : DiscardStat(e) \/ InsertStat(e)
  \/ CleanupCycle

EngagementSpec == EngagementInit /\ [][EngagementNext]_engagementVars

-----------------------------------------------------------------------------
(* Every variable keeps its type.                                          *)
EngagementTypeOK ==
  /\ TokenTypeOK
  /\ allowed \in [Recipients -> [Axes -> SUBSET (0..4)]]
  /\ events \subseteq Event
  /\ rows \subseteq StatRow

(* What an event or a row may say of an engagement with the mail of r.     *)
MaySay(r, axis, who, ip) ==
  /\ ip => 4 \in allowed[r][axis]
  /\ who # NoOne => /\ who.of = r
                    /\ 2 \in allowed[r][axis]
                    /\ who.kind = "address" => 3 \in allowed[r][axis]

(* Nothing is published or stored about an engagement that the Domain, the *)
(* Batch and the Recipient do not all allow for its channel, or in another *)
(* Recipient's name (resolveRecipientTracking, identityUnder, token,       *)
(* assertAudience and retained together).                                  *)
RetainsWithinPolicy == \A e \in events \cup rows : MaySay(e.by, e.axis, e.who, e.ip)

(* A token is good until it expires, but for the time its signing took:    *)
(* its key outlives it through rotation, the race of two replicas to make  *)
(* one, and clean-up (getSignKeys, DeleteExpiredStatsKeys).                *)
UnexpiredTokenVerifies ==
  \A r \in Recipients : \A t \in held[r] : t.left > MintTime => KeyIsValid(t)

=============================================================================
