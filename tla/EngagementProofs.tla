--------------------------- MODULE EngagementProofs ---------------------------
(***************************************************************************)
(* Tracking, for any number of Recipients, Builders and keys and any        *)
(* lifetimes: its types, that what is retained stays within the Policy,     *)
(* and that the key of a token outlives it.                                 *)
(*                                                                          *)
(* Then the text of an Envelope, for any pages, fields and endpoints: what  *)
(* the Policy adds to a page, and that a one-click endpoint is honoured.    *)
(* The loop over the fields is a recursive function; what it computes is    *)
(* found by induction over a set of naturals.                               *)
(***************************************************************************)
EXTENDS Engagement, Rendering, TrackingPolicyProofs, FiniteSetTheorems, SequenceTheorems

-----------------------------------------------------------------------------
(* What comes in, and the types.                                           *)
LEMMA OutcomeType ==
  ASSUME NEW o \in Outcomes
  PROVE  /\ o.mode \in Readable /\ o.allowed \in SUBSET (0..4)
         /\ \A n \in 0..Rank(o.mode) : n \in o.allowed
<1>1. PICK l \in Levels : o = Outcome(l[1], l[2], l[3])
  BY DEF Outcomes
<1>2. l[1] \in Modes /\ l[2] \in Modes /\ l[3] \in Modes
  BY EngagementAssumption DEF EngagementAssumption, Levels
<1> QED  BY <1>1, <1>2, CascadeNarrows DEF Outcome, Permitted

LEMMA IdentityUnderType ==
  ASSUME NEW m, NEW r \in Recipients PROVE IdentityUnder(m, r) \in Identity
BY DEF IdentityUnder, Identity

LEMMA BusyType ==
  ASSUME TokenTypeOK, NEW b \in Builders, building[b] # IdleBuild
  PROVE  /\ building[b] \in Builds
         /\ building[b].of \in Recipients /\ building[b].axis \in Axes
         /\ building[b].waited \in 0..MintTime /\ building[b].key \in SUBSET Kids
         /\ building[b].made \in SUBSET Token
         /\ ModeOf(b) \in Modes
<1>1. building[b] \in Builds
  BY DEF TokenTypeOK
<1>2. policy[building[b].of][building[b].axis] \in Modes
  BY <1>1 DEF TokenTypeOK, Builds, Modes, NoPolicy
<1> QED  BY <1>1, <1>2 DEF Builds, ModeOf

LEMMA BusyStep ==
  ASSUME NEW b \in Builders, building[b].step \in {"lookup", "create", "sign"}
  PROVE  building[b] # IdleBuild
BY DEF IdleBuild

LEMMA BuildType ==
  ASSUME NEW axis \in Axes, NEW r \in Recipients, NEW w \in 0..MintTime, NEW T \in SUBSET Token
  PROVE  Build(axis, r, w, T) \in Builds
BY DEF Build, Builds

LEMMA AdvanceType ==
  ASSUME TokenTypeOK, NEW b \in Builders, building[b] # IdleBuild,
         NEW T \in SUBSET Token, Advance(b, T), UNCHANGED <<keys, policy>>,
         shared' \in [Builders -> SUBSET Token]
  PROVE  TokenTypeOK'
<1> DEFINE made == building[b].made \cup T
           r == building[b].of
<1>1. made \in SUBSET Token /\ r \in Recipients /\ building[b].waited \in 0..MintTime
  BY BusyType
<1>2. Build("opens", r, building[b].waited, made) \in Builds
  BY <1>1, BuildType DEF Axes
<1>3. CASE building[b].axis = "links"
  <2>1. building' = [building EXCEPT ![b] = Build("opens", r, building[b].waited, made)]
        /\ held' = held
    BY <1>3 DEF Advance
  <2> HIDE DEF made, r
  <2> QED  BY <1>2, <2>1 DEF TokenTypeOK
<1>4. CASE building[b].axis # "links"
  <2>1. building' = [building EXCEPT ![b] = IdleBuild]
        /\ held' = [held EXCEPT ![r] = @ \cup made]
    BY <1>4 DEF Advance
  <2> HIDE DEF made, r
  <2> QED  BY <1>1, <2>1 DEF TokenTypeOK
<1> QED  BY <1>3, <1>4

LEMMA MintedType ==
  ASSUME TokenTypeOK, NEW b \in Builders, building[b] # IdleBuild, NEW k \in building[b].key
  PROVE  [kid |-> k, aud |-> building[b].axis, mode |-> ModeOf(b),
          who |-> IdentityUnder(ModeOf(b), building[b].of), left |-> Period] \in Token
BY BusyType, IdentityUnderType, TokensAssumption DEF TokensAssumption, Token, Audience

LEMMA BuilderType ==
  ASSUME TokenTypeOK, NEW b \in Builders, BuilderStep(b)
  PROVE  TokenTypeOK'
<1>1. ASSUME NEW r \in Recipients, StartBuild(b, r) PROVE TokenTypeOK'
  <2>1. Build("links", r, 0, {}) \in Builds
    BY BuildType, TokensAssumption DEF TokensAssumption, Axes
  <2> QED  BY <1>1, <2>1 DEF StartBuild, TokenTypeOK
<1>2. CASE SkipAxis(b)
  BY <1>2, BusyStep, AdvanceType DEF SkipAxis, TokenTypeOK
<1>3. CASE ReuseToken(b)
  <2>1. PICK t \in Cached(b) : Advance(b, {t})
    BY <1>3 DEF ReuseToken
  <2>2. {t} \in SUBSET Token
    BY DEF Cached, TokenTypeOK
  <2> QED  BY <1>3, <2>1, <2>2, BusyStep, AdvanceType DEF ReuseToken, TokenTypeOK
<1>4. CASE LookupKey(b)
  <2>1. building[b] \in Builds
    BY <1>4, BusyStep, BusyType DEF LookupKey
  <2>2. /\ [building[b] EXCEPT !.step = "create"] \in Builds
        /\ \A k \in SigningKeys : [building[b] EXCEPT !.step = "sign", !.key = {k}] \in Builds
    BY <2>1 DEF Builds, SigningKeys
  <2> QED  BY <1>4, <2>2 DEF LookupKey, TokenTypeOK
<1>5. CASE CreateStatsKeys(b)
  <2>1. building[b] \in Builds
    BY <1>5, BusyStep, BusyType DEF CreateStatsKeys
  <2>2. PICK k \in FreshKids :
          /\ keys' = [keys EXCEPT ![k] = 2 * Period]
          /\ building' = [building EXCEPT ![b].step = "sign", ![b].key = {k}]
    BY <1>5 DEF CreateStatsKeys
  <2>3. k \in Kids /\ 2 * Period \in Absent..(2 * Period)
    BY TokensAssumption DEF FreshKids, TokensAssumption, Absent
  <2>4. [building[b] EXCEPT !.step = "sign", !.key = {k}] \in Builds
    BY <2>1, <2>3 DEF Builds
  <2> QED  BY <1>5, <2>2, <2>3, <2>4 DEF CreateStatsKeys, TokenTypeOK
<1>6. CASE CreateToken(b)
  <2>1. building[b] # IdleBuild
    BY <1>6, BusyStep DEF CreateToken
  <2> DEFINE Minted(k) == [kid |-> k, aud |-> building[b].axis, mode |-> ModeOf(b),
                who |-> IdentityUnder(ModeOf(b), building[b].of), left |-> Period]
  <2>2. PICK k \in building[b].key :
          /\ Advance(b, {Minted(k)})
          /\ shared' \in {shared, [shared EXCEPT ![b] = @ \cup {Minted(k)}]}
    BY <1>6 DEF CreateToken
  <2>3. Minted(k) \in Token
    BY <2>1, MintedType
  <2> HIDE DEF Minted
  <2>4. shared' \in [Builders -> SUBSET Token]
    BY <2>2, <2>3 DEF TokenTypeOK
  <2> QED  BY <1>6, <2>1, <2>2, <2>3, <2>4, AdvanceType DEF CreateToken
<1>7. CASE BuildFails(b)
  BY <1>7 DEF BuildFails, TokenTypeOK
<1>8. CASE ForgetShared(b)
  BY <1>8 DEF ForgetShared, TokenTypeOK
<1> QED
  BY <1>1, <1>2, <1>3, <1>4, <1>5, <1>6, <1>7, <1>8 DEF BuilderStep

LEMMA AgedType ==
  ASSUME NEW T \in SUBSET Token
  PROVE  Aged(T) \in SUBSET Token /\ Current(T) \in SUBSET Token
BY TokensAssumption DEF TokensAssumption, Aged, Current, Token

LEMMA TickType ==
  ASSUME TokenTypeOK, TokenTick PROVE TokenTypeOK'
<1>1. keys' \in [Kids -> Absent..(2 * Period)]
  <2>1. \A n \in Absent..(2 * Period) : KeyLater(n) \in Absent..(2 * Period)
    BY TokensAssumption DEF TokensAssumption, KeyLater, Absent, Expired
  <2> QED  BY <2>1 DEF TokenTypeOK, TokenTick
<1>2. ASSUME NEW b \in Builders PROVE BuildLater(building[b]) \in Builds \cup {IdleBuild}
  <2>1. CASE building[b] = IdleBuild
    BY <2>1 DEF BuildLater
  <2>2. CASE building[b] # IdleBuild
    <3>1. building[b] \in Builds /\ building[b].waited \in 0..MintTime
      BY <2>2, BusyType
    <3>2. building[b].waited < MintTime
      BY <2>2 DEF TokenTick, InTime
    <3>3. building[b].waited + 1 \in 0..MintTime
      BY <3>1, <3>2, TokensAssumption DEF TokensAssumption
    <3>4. Aged(building[b].made) \in SUBSET Token
      BY <2>2, BusyType, AgedType
    <3>5. [building[b] EXCEPT !.waited = @ + 1, !.made = Aged(@)] \in Builds
      BY <3>1, <3>3, <3>4 DEF Builds
    <3> QED  BY <2>2, <3>5 DEF BuildLater
  <2> QED  BY <2>1, <2>2
<1>3. building' \in [Builders -> Builds \cup {IdleBuild}]
  BY <1>2 DEF TokenTick
<1>4. shared' \in [Builders -> SUBSET Token] /\ held' \in [Recipients -> SUBSET Token]
  BY AgedType DEF TokenTypeOK, TokenTick
<1> QED  BY <1>1, <1>3, <1>4 DEF TokenTypeOK, TokenTick

LEMMA RetainedType ==
  ASSUME NEW t \in Token PROVE Retained(t).who \in Identity /\ Retained(t).ip \in BOOLEAN
BY DEF Retained, Token, Identity

LEMMA EngageType ==
  ASSUME EngagementTypeOK, NEW r \in Recipients, NEW t \in held[r], NEW channel \in Axes,
         Engage(r, t, channel)
  PROVE  EngagementTypeOK'
<1>1. t \in Token
  BY DEF EngagementTypeOK, TokenTypeOK
<1>2. OnTheWire(t.mode) \in Modes
  BY DEF OnTheWire, WireModes, Modes
<1>3. [axis |-> channel, by |-> r, who |-> Retained(t).who,
       mode |-> OnTheWire(t.mode), ip |-> Retained(t).ip] \in Event
  BY <1>1, <1>2, RetainedType DEF Event
<1> QED  BY <1>3 DEF Engage, EngagementTypeOK, TokenTypeOK

LEMMA TypeStep ==
  ASSUME EngagementTypeOK, [EngagementNext]_engagementVars
  PROVE  EngagementTypeOK'
<1>1. ASSUME NEW r \in Recipients, Intake(r) PROVE EngagementTypeOK'
  <2>1. PICK links \in Outcomes, opens \in Outcomes :
          /\ policy' = [policy EXCEPT ![r] = [links |-> links.mode, opens |-> opens.mode]]
          /\ allowed' = [allowed EXCEPT ![r] = [links |-> links.allowed, opens |-> opens.allowed]]
    BY <1>1 DEF Intake
  <2>2. [links |-> links.mode, opens |-> opens.mode] \in [Axes -> Readable]
    BY OutcomeType DEF Axes
  <2>3. [links |-> links.allowed, opens |-> opens.allowed] \in [Axes -> SUBSET (0..4)]
    BY OutcomeType DEF Axes
  <2>4. policy' \in [Recipients -> [Axes -> Readable] \cup {NoPolicy}]
    BY <2>1, <2>2 DEF EngagementTypeOK, TokenTypeOK
  <2>5. allowed' \in [Recipients -> [Axes -> SUBSET (0..4)]]
    BY <2>1, <2>3 DEF EngagementTypeOK
  <2> QED  BY <1>1, <2>4, <2>5 DEF Intake, EngagementTypeOK, TokenTypeOK
<1>2. ASSUME NEW b \in Builders, BuilderStep(b), UNCHANGED <<allowed, events, rows>>
      PROVE  EngagementTypeOK'
  BY <1>2, BuilderType DEF EngagementTypeOK
<1>3. CASE TokenTick /\ UNCHANGED <<allowed, events, rows>>
  BY <1>3, TickType DEF EngagementTypeOK
<1>4. ASSUME NEW r \in Recipients, NEW t \in held[r], NEW channel \in Axes,
             Engage(r, t, channel)
      PROVE  EngagementTypeOK'
  BY <1>4, EngageType
<1>5. ASSUME NEW e \in events, DiscardStat(e) PROVE EngagementTypeOK'
  BY <1>5 DEF DiscardStat, EngagementTypeOK, TokenTypeOK
<1>6. ASSUME NEW e \in events, InsertStat(e) PROVE EngagementTypeOK'
  <2>1. [axis |-> e.axis, by |-> e.by, who |-> e.who, ip |-> e.ip] \in StatRow
    BY DEF EngagementTypeOK, Event, StatRow
  <2> QED  BY <1>6, <2>1 DEF InsertStat, EngagementTypeOK, TokenTypeOK
<1>7. CASE CleanupCycle
  <2>1. KeysAfterCleanup \in [Kids -> Absent..(2 * Period)]
    BY TokensAssumption
       DEF TokensAssumption, KeysAfterCleanup, EngagementTypeOK, TokenTypeOK, Absent, Expired
  <2>2. keys' \in [Kids -> Absent..(2 * Period)] /\ rows' \subseteq StatRow
    BY <1>7, <2>1 DEF CleanupCycle, EngagementTypeOK, TokenTypeOK
  <2> QED  BY <1>7, <2>2 DEF CleanupCycle, EngagementTypeOK, TokenTypeOK
<1>8. CASE UNCHANGED engagementVars
  BY <1>8 DEF engagementVars, EngagementTypeOK, TokenTypeOK
<1> QED
  BY <1>1, <1>2, <1>3, <1>4, <1>5, <1>6, <1>7, <1>8 DEF EngagementNext

LEMMA OldMailType ==
  ASSUME NEW r \in Recipients, NEW k \in Kids
  PROVE  LegacyMail(r, k) \in SUBSET Token /\ NewerMail(r, k) \in SUBSET Token
BY TokensAssumption
   DEF TokensAssumption, LegacyMail, NewerMail, Token, Identity, Audience, Axes, Modes

LEMMA TypeInit == EngagementInit => EngagementTypeOK
<1> SUFFICES ASSUME EngagementInit PROVE EngagementTypeOK
  OBVIOUS
<1>1. PICK k \in Kids, legacy \in SUBSET Recipients, newer \in SUBSET Recipients :
        Start(k, legacy, newer)
  BY DEF EngagementInit
<1>2. keys \in [Kids -> Absent..(2 * Period)]
  BY <1>1, TokensAssumption DEF TokensAssumption, Absent, Start
<1>3. held \in [Recipients -> SUBSET Token]
  BY <1>1, OldMailType DEF Start
<1>4. allowed \in [Recipients -> [Axes -> SUBSET (0..4)]]
  <2>1. 0..3 \in SUBSET (0..4) /\ {0} \in SUBSET (0..4) /\ {} \in SUBSET (0..4)
    OBVIOUS
  <2> QED  BY <1>1, <2>1 DEF Start
<1>5. policy \in [Recipients -> [Axes -> Readable] \cup {NoPolicy}]
  BY <1>1 DEF Start
<1> QED
  BY <1>1, <1>2, <1>3, <1>4, <1>5 DEF Start, EngagementTypeOK, TokenTypeOK

(* Every variable keeps its type.                                          *)
THEOREM EngagementTypes == EngagementSpec => []EngagementTypeOK
BY TypeInit, TypeStep, PTL DEF EngagementSpec

-----------------------------------------------------------------------------
(* What is retained.  The invariant follows what a token may say of the     *)
(* Recipient that holds it, wherever it is.                                *)
Fits(t, r) ==
  \A channel \in Axes :
    AssertAudience(t, channel) => MaySay(r, channel, Retained(t).who, Retained(t).ip)

PolicyAllowed ==
  \A r \in Recipients : policy[r] # NoPolicy =>
    \A a \in Axes : \A n \in 0..Rank(policy[r][a]) : n \in allowed[r][a]

BuildsFit ==
  \A b \in Builders : building[b] # IdleBuild =>
    /\ policy[building[b].of] # NoPolicy
    /\ \A t \in building[b].made : Fits(t, building[b].of)

SharedIsolatesNobody == \A b \in Builders : \A t \in shared[b] : ~IsolatesRecipient(t.mode)

MailFits == \A r \in Recipients : \A t \in held[r] : Fits(t, r)

PolicyInv ==
  PolicyAllowed /\ BuildsFit /\ SharedIsolatesNobody /\ MailFits /\ RetainsWithinPolicy

LEMMA ReadableHasPolicy ==
  ASSUME NEW p \in [Axes -> Readable] PROVE p # NoPolicy
BY DEF NoPolicy, Axes, Readable

LEMMA NobodyFits ==
  ASSUME NEW t, NEW r, ~IsolatesRecipient(t.mode) PROVE Fits(t, r)
BY DEF Fits, Retained, MaySay, NoOne

LEMMA MintedFits ==
  ASSUME TokenTypeOK, PolicyInv, NEW b \in Builders, building[b] # IdleBuild, NEW k
  PROVE  Fits([kid |-> k, aud |-> building[b].axis, mode |-> ModeOf(b),
               who |-> IdentityUnder(ModeOf(b), building[b].of), left |-> Period],
              building[b].of)
<1> DEFINE m == ModeOf(b)
           r == building[b].of
           axis == building[b].axis
           t == [kid |-> k, aud |-> axis, mode |-> m, who |-> IdentityUnder(m, r), left |-> Period]
<1>1. r \in Recipients /\ axis \in Axes /\ m = policy[r][axis]
  BY BusyType DEF ModeOf
<1>2. policy[r] \in [Axes -> Readable] /\ policy[r] # NoPolicy
  BY <1>1 DEF TokenTypeOK, PolicyInv, BuildsFit
<1>3. m \in Readable /\ \A n \in 0..Rank(m) : n \in allowed[r][axis]
  BY <1>1, <1>2 DEF PolicyInv, PolicyAllowed
<1> HIDE DEF m, r, axis
<1>4. t.mode = m /\ t.who = IdentityUnder(m, r) /\ t.aud = axis
  OBVIOUS
<1>5. ASSUME NEW channel \in Axes, AssertAudience(t, channel) PROVE channel = axis
  BY <1>5, <1>3, <1>4 DEF AssertAudience, Readable
<1>6. MaySay(r, axis, Retained(t).who, Retained(t).ip)
  <2>1. /\ IsolatesRecipient(m) => 2 \in allowed[r][axis]
        /\ IdentifiesRecipient(m) => 3 \in allowed[r][axis]
        /\ m = "full" => 4 \in allowed[r][axis]
    BY <1>3, RankType, ReadableModes
  <2>2. CASE ~IsolatesRecipient(m)
    BY <2>2, <1>4 DEF Retained, MaySay, NoOne
  <2>3. CASE IsolatesRecipient(m)
    <3>1. Retained(t).who = IdentityUnder(m, r) /\ (Retained(t).ip => m = "full")
      BY <2>3, <1>4 DEF Retained
    <3>2. /\ IdentityUnder(m, r).of = r
          /\ IdentityUnder(m, r).kind = "address" => IdentifiesRecipient(m)
      BY <2>3 DEF IdentityUnder
    <3> QED  BY <2>1, <2>3, <3>1, <3>2 DEF MaySay
  <2> QED  BY <2>2, <2>3
<1>7. Fits(t, r)
  <2> HIDE DEF t
  <2> QED  BY <1>5, <1>6 DEF Fits
<1> QED  BY <1>7 DEF m, r, axis

LEMMA AdvanceFits ==
  ASSUME EngagementTypeOK, PolicyInv, NEW b \in Builders, building[b] # IdleBuild,
         NEW T, \A t \in T : Fits(t, building[b].of), Advance(b, T),
         UNCHANGED <<policy, allowed, events, rows>>, SharedIsolatesNobody'
  PROVE  PolicyInv'
<1> DEFINE made == building[b].made \cup T
           r == building[b].of
<1>1. r \in Recipients /\ \A t \in made : Fits(t, r)
  BY BusyType DEF EngagementTypeOK, PolicyInv, BuildsFit
<1>2. \A t, s : Fits(t, s) => Fits(t, s)'
  BY DEF Fits, MaySay
<1>3. PolicyAllowed' /\ RetainsWithinPolicy'
  BY DEF PolicyInv, PolicyAllowed, RetainsWithinPolicy, MaySay
<1>4. CASE building[b].axis = "links"
  <2> DEFINE new == Build("opens", r, building[b].waited, made)
  <2>1. building' = [building EXCEPT ![b] = new] /\ held' = held
    BY <1>4 DEF Advance
  <2>2. new.of = r /\ new.made = made /\ policy[r] # NoPolicy
    BY DEF Build, PolicyInv, BuildsFit
  <2> HIDE DEF made, r, new
  <2>3. BuildsFit'
    BY <1>1, <1>2, <2>1, <2>2 DEF EngagementTypeOK, TokenTypeOK, PolicyInv, BuildsFit
  <2>4. MailFits'
    BY <1>2, <2>1 DEF PolicyInv, MailFits
  <2> QED  BY <1>3, <2>3, <2>4 DEF PolicyInv
<1>5. CASE building[b].axis # "links"
  <2>1. building' = [building EXCEPT ![b] = IdleBuild]
        /\ held' = [held EXCEPT ![r] = @ \cup made]
    BY <1>5 DEF Advance
  <2> HIDE DEF made, r
  <2>2. BuildsFit'
    BY <1>2, <2>1 DEF EngagementTypeOK, TokenTypeOK, PolicyInv, BuildsFit
  <2>3. MailFits'
    BY <1>1, <1>2, <2>1 DEF EngagementTypeOK, TokenTypeOK, PolicyInv, MailFits
  <2> QED  BY <1>3, <2>2, <2>3 DEF PolicyInv
<1> QED  BY <1>4, <1>5

LEMMA BuilderFits ==
  ASSUME EngagementTypeOK, PolicyInv, NEW b \in Builders, BuilderStep(b),
         UNCHANGED <<allowed, events, rows>>
  PROVE  PolicyInv'
<1> USE DEF EngagementTypeOK
<1>1. \A t, s : Fits(t, s) => Fits(t, s)'
  BY DEF Fits, MaySay
<1>2. RetainsWithinPolicy'
  BY DEF PolicyInv, RetainsWithinPolicy, MaySay
<1>3. policy' = policy => PolicyAllowed'
  BY DEF PolicyInv, PolicyAllowed
<1>4. shared' = shared => SharedIsolatesNobody'
  BY DEF PolicyInv, SharedIsolatesNobody
<1>5. held' = held => MailFits'
  BY <1>1 DEF PolicyInv, MailFits
<1>6. ASSUME NEW r \in Recipients, StartBuild(b, r) PROVE PolicyInv'
  <2>1. Build("links", r, 0, {}).of = r /\ Build("links", r, 0, {}).made = {}
    BY DEF Build
  <2>2. BuildsFit'
    BY <1>1, <1>6, <2>1 DEF StartBuild, TokenTypeOK, PolicyInv, BuildsFit
  <2> QED  BY <1>2, <1>3, <1>4, <1>5, <1>6, <2>2 DEF StartBuild, PolicyInv
<1>7. CASE SkipAxis(b)
  BY <1>4, <1>7, BusyStep, AdvanceFits DEF SkipAxis
<1>8. CASE ReuseToken(b)
  <2>1. PICK t \in Cached(b) : Advance(b, {t})
    BY <1>8 DEF ReuseToken
  <2>2. Fits(t, building[b].of)
    BY NobodyFits DEF Cached, PolicyInv, SharedIsolatesNobody
  <2> QED  BY <1>4, <1>8, <2>1, <2>2, BusyStep, AdvanceFits DEF ReuseToken
<1>9. ASSUME building[b] # IdleBuild, UNCHANGED <<policy, shared, held>>,
             NEW step, NEW K,
             building' = [building EXCEPT ![b].step = step, ![b].key = K]
      PROVE  PolicyInv'
  <2> DEFINE new == [building[b] EXCEPT !.step = step, !.key = K]
  <2>1. new.of = building[b].of /\ new.made = building[b].made
    BY <1>9, BusyType DEF Builds
  <2>2. building' = [building EXCEPT ![b] = new]
    BY <1>9
  <2> HIDE DEF new
  <2>3. BuildsFit'
    BY <1>1, <1>9, <2>1, <2>2 DEF TokenTypeOK, PolicyInv, BuildsFit
  <2> QED  BY <1>2, <1>3, <1>4, <1>5, <1>9, <2>3 DEF PolicyInv
<1>10. CASE LookupKey(b)
  <2>1. building[b] # IdleBuild
    BY <1>10, BusyStep DEF LookupKey
  <2>2. CASE building' = [building EXCEPT ![b].step = "create"]
    <3>1. building[b] \in Builds
      BY <2>1, BusyType
    <3>2. building' = [building EXCEPT ![b].step = "create", ![b].key = building[b].key]
      BY <2>2, <3>1 DEF TokenTypeOK, Builds
    <3> QED  BY <1>9, <1>10, <2>1, <3>2 DEF LookupKey
  <2> QED  BY <1>9, <1>10, <2>1, <2>2 DEF LookupKey
<1>11. CASE CreateStatsKeys(b)
  BY <1>9, <1>11, BusyStep DEF CreateStatsKeys
<1>12. CASE CreateToken(b)
  <2>1. building[b] # IdleBuild
    BY <1>12, BusyStep DEF CreateToken
  <2> DEFINE Minted(k) == [kid |-> k, aud |-> building[b].axis, mode |-> ModeOf(b),
                who |-> IdentityUnder(ModeOf(b), building[b].of), left |-> Period]
  <2>2. PICK k \in building[b].key :
          /\ Advance(b, {Minted(k)})
          /\ \/ shared' = shared
             \/ /\ ~IsolatesRecipient(ModeOf(b))
                /\ shared' = [shared EXCEPT ![b] = @ \cup {Minted(k)}]
    BY <1>12 DEF CreateToken
  <2>3. Fits(Minted(k), building[b].of)
    BY <2>1, MintedFits
  <2>4. Minted(k).mode = ModeOf(b)
    OBVIOUS
  <2> HIDE DEF Minted
  <2>5. SharedIsolatesNobody'
    BY <2>2, <2>4 DEF TokenTypeOK, PolicyInv, SharedIsolatesNobody
  <2> QED  BY <1>12, <2>1, <2>2, <2>3, <2>5, AdvanceFits DEF CreateToken
<1>13. CASE BuildFails(b)
  <2>1. BuildsFit'
    BY <1>1, <1>13 DEF BuildFails, TokenTypeOK, PolicyInv, BuildsFit
  <2> QED  BY <1>2, <1>3, <1>4, <1>5, <1>13, <2>1 DEF BuildFails, PolicyInv
<1>14. CASE ForgetShared(b)
  <2>1. BuildsFit'
    BY <1>1, <1>14 DEF ForgetShared, PolicyInv, BuildsFit
  <2>2. SharedIsolatesNobody'
    BY <1>14 DEF ForgetShared, TokenTypeOK, PolicyInv, SharedIsolatesNobody
  <2> QED  BY <1>2, <1>3, <1>5, <1>14, <2>1, <2>2 DEF ForgetShared, PolicyInv
<1> QED
  BY <1>6, <1>7, <1>8, <1>10, <1>11, <1>12, <1>13, <1>14 DEF BuilderStep

(* Ageing changes nothing but the time left.                               *)
LEMMA AgedFields ==
  ASSUME NEW T \in SUBSET Token, NEW u \in Aged(T)
  PROVE  \E t \in T : /\ u.kid = t.kid /\ u.aud = t.aud /\ u.mode = t.mode /\ u.who = t.who
                      /\ u.left = IF t.left = 0 THEN 0 ELSE t.left - 1
BY DEF Aged, Token

LEMMA AgedFits ==
  ASSUME NEW T \in SUBSET Token, NEW r, \A t \in T : Fits(t, r)
  PROVE  \A u \in Aged(T) : Fits(u, r)
<1> SUFFICES ASSUME NEW u \in Aged(T) PROVE Fits(u, r)
  OBVIOUS
<1>1. PICK t \in T : u.aud = t.aud /\ u.mode = t.mode /\ u.who = t.who
  BY AgedFields
<1>2. Retained(u) = Retained(t) /\ \A c : AssertAudience(u, c) <=> AssertAudience(t, c)
  BY <1>1 DEF Retained, AssertAudience
<1> QED  BY <1>2 DEF Fits

LEMMA BuildLaterFields ==
  ASSUME TokenTypeOK, NEW b \in Builders, BuildLater(building[b]) # IdleBuild
  PROVE  /\ building[b] # IdleBuild
         /\ BuildLater(building[b]).of = building[b].of
         /\ BuildLater(building[b]).key = building[b].key
         /\ BuildLater(building[b]).waited = building[b].waited + 1
         /\ BuildLater(building[b]).made = Aged(building[b].made)
<1>1. building[b] # IdleBuild
  BY DEF BuildLater
<1>2. BuildLater(building[b]) = [building[b] EXCEPT !.waited = @ + 1, !.made = Aged(@)]
  BY <1>1 DEF BuildLater
<1>3. building[b] \in Builds
  BY <1>1, BusyType
<1> QED  BY <1>1, <1>2, <1>3 DEF Builds

LEMMA TickFits ==
  ASSUME EngagementTypeOK, PolicyInv, TokenTick, UNCHANGED <<allowed, events, rows>>
  PROVE  PolicyInv'
<1> USE DEF EngagementTypeOK
<1>1. \A t, s : Fits(t, s) => Fits(t, s)'
  BY DEF Fits, MaySay
<1>2. RetainsWithinPolicy' /\ PolicyAllowed'
  BY DEF PolicyInv, RetainsWithinPolicy, PolicyAllowed, MaySay, TokenTick
<1>3. BuildsFit'
  <2> SUFFICES ASSUME NEW b \in Builders, building'[b] # IdleBuild
               PROVE  /\ policy[building'[b].of] # NoPolicy
                      /\ \A t \in building'[b].made : Fits(t, building'[b].of)
    BY <1>1 DEF BuildsFit, TokenTick
  <2>1. building'[b] = BuildLater(building[b])
    BY DEF TokenTick
  <2>2. /\ building[b] # IdleBuild /\ building'[b].of = building[b].of
        /\ building'[b].made = Aged(building[b].made)
    BY <2>1, BuildLaterFields
  <2> QED  BY <2>2, BusyType, AgedFits DEF PolicyInv, BuildsFit
<1>4. SharedIsolatesNobody'
  <2> SUFFICES ASSUME NEW b \in Builders, NEW u \in Aged(shared[b])
               PROVE  ~IsolatesRecipient(u.mode)
    BY DEF SharedIsolatesNobody, TokenTick
  <2>1. shared[b] \in SUBSET Token
    BY DEF TokenTypeOK
  <2>2. PICK t \in shared[b] : u.mode = t.mode
    BY <2>1, AgedFields
  <2> QED  BY <2>2 DEF PolicyInv, SharedIsolatesNobody
<1>5. MailFits'
  <2> SUFFICES ASSUME NEW r \in Recipients, NEW u \in Aged(held[r]) PROVE Fits(u, r)
    BY <1>1 DEF MailFits, TokenTick, Current
  <2> QED  BY AgedFits DEF TokenTypeOK, PolicyInv, MailFits
<1> QED  BY <1>2, <1>3, <1>4, <1>5 DEF PolicyInv

LEMMA IntakeFits ==
  ASSUME EngagementTypeOK, PolicyInv, NEW r \in Recipients, Intake(r)
  PROVE  PolicyInv'
<1> USE DEF EngagementTypeOK
<1>1. PICK links \in Outcomes, opens \in Outcomes :
        /\ policy' = [policy EXCEPT ![r] = [links |-> links.mode, opens |-> opens.mode]]
        /\ allowed' = [allowed EXCEPT ![r] = [links |-> links.allowed, opens |-> opens.allowed]]
  BY DEF Intake
<1>2. \A s \in Recipients, a \in Axes : allowed[s][a] \subseteq allowed'[s][a]
  BY <1>1 DEF Intake, NotYet
<1>3. ASSUME NEW s \in Recipients, NEW a \in Axes, NEW who, NEW ip, MaySay(s, a, who, ip)
      PROVE  MaySay(s, a, who, ip)'
  BY <1>2, <1>3 DEF MaySay
<1>4. \A t : \A s \in Recipients : Fits(t, s) => Fits(t, s)'
  BY <1>3 DEF Fits
<1>5. PolicyAllowed'
  <2> SUFFICES ASSUME NEW s \in Recipients, policy'[s] # NoPolicy, NEW a \in Axes,
                      NEW n \in 0..Rank(policy'[s][a])
               PROVE  n \in allowed'[s][a]
    BY DEF PolicyAllowed
  <2>1. CASE s = r
    <3>1. /\ policy'[r] = [links |-> links.mode, opens |-> opens.mode]
          /\ allowed'[r] = [links |-> links.allowed, opens |-> opens.allowed]
      BY <1>1 DEF TokenTypeOK
    <3> QED  BY <2>1, <3>1, OutcomeType DEF Axes
  <2>2. CASE s # r
    BY <1>1, <2>2 DEF PolicyInv, PolicyAllowed
  <2> QED  BY <2>1, <2>2
<1>6. ASSUME NEW s \in Recipients, policy[s] # NoPolicy PROVE policy'[s] # NoPolicy
  <2>1. [links |-> links.mode, opens |-> opens.mode] \in [Axes -> Readable]
    BY OutcomeType DEF Axes
  <2>2. [links |-> links.mode, opens |-> opens.mode] # NoPolicy
    BY <2>1, ReadableHasPolicy
  <2> QED  BY <1>1, <1>6, <2>2 DEF TokenTypeOK
<1>7. BuildsFit'
  <2> SUFFICES ASSUME NEW b \in Builders, building[b] # IdleBuild
               PROVE  /\ policy'[building[b].of] # NoPolicy
                      /\ \A t \in building[b].made : Fits(t, building[b].of)'
    BY DEF BuildsFit, Intake
  <2> QED  BY <1>4, <1>6, BusyType DEF PolicyInv, BuildsFit, Intake
<1>8. SharedIsolatesNobody' /\ MailFits'
  BY <1>4 DEF Intake, PolicyInv, SharedIsolatesNobody, MailFits
<1>9. RetainsWithinPolicy'
  BY <1>3 DEF Intake, PolicyInv, RetainsWithinPolicy, Event, StatRow
<1> QED  BY <1>5, <1>7, <1>8, <1>9 DEF PolicyInv

(* A step that leaves tokens and Policies alone, and puts nothing but what *)
(* may be said among the events and the rows.                              *)
LEMMA StatFits ==
  ASSUME PolicyInv, UNCHANGED <<policy, building, shared, held, allowed>>,
         \A e \in events' \cup rows' : MaySay(e.by, e.axis, e.who, e.ip)
  PROVE  PolicyInv'
<1>1. \A t, s : Fits(t, s) => Fits(t, s)'
  BY DEF Fits, MaySay
<1>2. RetainsWithinPolicy'
  BY DEF RetainsWithinPolicy, MaySay
<1> QED
  BY <1>1, <1>2 DEF PolicyInv, PolicyAllowed, BuildsFit, SharedIsolatesNobody, MailFits

LEMMA PolicyStep ==
  ASSUME EngagementTypeOK, PolicyInv, [EngagementNext]_engagementVars
  PROVE  PolicyInv'
<1>0. \A e \in events \cup rows : MaySay(e.by, e.axis, e.who, e.ip)
  BY DEF PolicyInv, RetainsWithinPolicy
<1>1. ASSUME NEW r \in Recipients, Intake(r) PROVE PolicyInv'
  BY <1>1, IntakeFits
<1>2. ASSUME NEW b \in Builders, BuilderStep(b), UNCHANGED <<allowed, events, rows>>
      PROVE  PolicyInv'
  BY <1>2, BuilderFits
<1>3. CASE TokenTick /\ UNCHANGED <<allowed, events, rows>>
  BY <1>3, TickFits
<1>4. ASSUME NEW r \in Recipients, NEW t \in held[r], NEW channel \in Axes,
             Engage(r, t, channel)
      PROVE  PolicyInv'
  <2> DEFINE e == [axis |-> channel, by |-> r, who |-> Retained(t).who,
                   mode |-> OnTheWire(t.mode), ip |-> Retained(t).ip]
  <2>1. MaySay(r, channel, Retained(t).who, Retained(t).ip)
    BY <1>4 DEF PolicyInv, MailFits, Fits, Engage, Verifies
  <2>2. MaySay(e.by, e.axis, e.who, e.ip)
    BY <2>1
  <2>3. events' = events \cup {e} /\ UNCHANGED <<policy, building, shared, held, allowed, rows>>
    BY <1>4 DEF Engage
  <2> HIDE DEF e
  <2> QED  BY <1>0, <2>2, <2>3, StatFits
<1>5. ASSUME NEW e \in events, DiscardStat(e) PROVE PolicyInv'
  BY <1>0, <1>5, StatFits DEF DiscardStat
<1>6. ASSUME NEW e \in events, InsertStat(e) PROVE PolicyInv'
  <2> DEFINE row == [axis |-> e.axis, by |-> e.by, who |-> e.who, ip |-> e.ip]
  <2>1. MaySay(row.by, row.axis, row.who, row.ip)
    BY <1>0
  <2>2. /\ rows' = rows \cup {row} /\ events' \subseteq events
        /\ UNCHANGED <<policy, building, shared, held, allowed>>
    BY <1>6 DEF InsertStat
  <2> HIDE DEF row
  <2> QED  BY <1>0, <2>1, <2>2, StatFits
<1>7. CASE CleanupCycle
  BY <1>0, <1>7, StatFits DEF CleanupCycle
<1>8. CASE UNCHANGED engagementVars
  BY <1>0, <1>8, StatFits DEF engagementVars
<1> QED
  BY <1>1, <1>2, <1>3, <1>4, <1>5, <1>6, <1>7, <1>8 DEF EngagementNext

LEMMA PolicyInit == EngagementInit => PolicyInv
<1> SUFFICES ASSUME EngagementInit PROVE PolicyInv
  OBVIOUS
<1>1. PICK k \in Kids, legacy \in SUBSET Recipients, newer \in SUBSET Recipients :
        Start(k, legacy, newer)
  BY DEF EngagementInit
<1>2. ASSUME NEW r \in Recipients, r \in legacy, NEW t \in LegacyMail(r, k) PROVE Fits(t, r)
  <2>1. /\ t.mode = "unspecified" /\ t.who = [kind |-> "address", of |-> r]
    BY <1>2 DEF LegacyMail
  <2>2. IsolatesRecipient(t.mode) /\ t.mode # "full"
    BY <2>1 DEF IsolatesRecipient, Reaches, States
  <2>3. t.who.of = r /\ Retained(t).who = t.who /\ (Retained(t).ip => t.mode = "full")
    <3>1. Retained(t).who = t.who /\ (Retained(t).ip => t.mode = "full")
      BY <2>2 DEF Retained
    <3> QED  BY <2>1, <3>1
  <2>4. \A a \in Axes : 2 \in allowed[r][a] /\ 3 \in allowed[r][a]
    BY <1>1, <1>2 DEF Start
  <2> QED  BY <2>2, <2>3, <2>4 DEF Fits, MaySay
<1>3. ASSUME NEW r \in Recipients, NEW t \in NewerMail(r, k) PROVE Fits(t, r)
  <2>1. t.mode = "unreadable"
    BY <1>3 DEF NewerMail
  <2>2. ~IsolatesRecipient(t.mode)
    BY <2>1 DEF IsolatesRecipient, Reaches, States, Rank, Collection, Readable, modeRanks
  <2> QED  BY <2>2, NobodyFits
<1>4. MailFits
  BY <1>1, <1>2, <1>3 DEF MailFits, Start
<1> QED
  BY <1>1, <1>4 DEF Start, PolicyInv, PolicyAllowed, BuildsFit, SharedIsolatesNobody,
                    RetainsWithinPolicy

(* For any cascade, any number of Builders and any order of requests and   *)
(* redeliveries, nothing is retained beyond what all levels allow.         *)
THEOREM PolicyIsKept == EngagementSpec => []RetainsWithinPolicy
<1>1. PolicyInv => RetainsWithinPolicy
  BY DEF PolicyInv
<1> QED  BY <1>1, PolicyInit, PolicyStep, EngagementTypes, PTL DEF EngagementSpec

-----------------------------------------------------------------------------
(* Keys.  A token is as far ahead of its key as the mint was slow, and a    *)
(* Build that has looked up a key has used up part of its own time since.  *)
Outlived(t) == t.left > MintTime => keys[t.kid] > t.left - MintTime

SignersInTime ==
  \A b \in Builders : building[b] # IdleBuild =>
    \A k \in building[b].key : Period > MintTime => keys[k] + building[b].waited > Period

BuildsOutlived ==
  \A b \in Builders : building[b] # IdleBuild => \A t \in building[b].made : Outlived(t)

CacheOutlived == \A b \in Builders : \A t \in shared[b] : Outlived(t)

MailOutlived == \A r \in Recipients : \A t \in held[r] : Outlived(t)

KeyInv == SignersInTime /\ BuildsOutlived /\ CacheOutlived /\ MailOutlived

(* Nothing makes a key that is still valid older but the clock.            *)
KeysKept == \A k \in Kids : keys[k] > 0 => keys'[k] >= keys[k]

LEMMA OutlivedKept ==
  ASSUME TokenTypeOK, KeysKept, keys' \in [Kids -> Int], NEW t \in Token, Outlived(t)
  PROVE  Outlived(t)'
BY TokensAssumption DEF TokensAssumption, TokenTypeOK, KeysKept, Outlived, Token, Absent

LEMMA SignerKept ==
  ASSUME TokenTypeOK, KeyInv, KeysKept, keys' \in [Kids -> Int],
         NEW b \in Builders, building[b] # IdleBuild, NEW k \in building[b].key,
         Period > MintTime
  PROVE  keys'[k] + building[b].waited > Period
<1>1. /\ k \in Kids /\ building[b].waited \in 0..MintTime /\ keys[k] \in Int
      /\ keys[k] + building[b].waited > Period
  BY BusyType DEF TokenTypeOK, KeyInv, SignersInTime, Absent
<1>2. keys[k] > 0 /\ keys'[k] \in Int
  BY <1>1, TokensAssumption DEF TokensAssumption
<1>3. keys'[k] >= keys[k]
  BY <1>1, <1>2 DEF KeysKept
<1> QED  BY <1>1, <1>2, <1>3, TokensAssumption DEF TokensAssumption

LEMMA KeyFrame ==
  ASSUME TokenTypeOK, KeyInv, KeysKept, keys' \in [Kids -> Int],
         UNCHANGED <<building, shared, held>>
  PROVE  KeyInv'
<1>1. \A t \in Token : Outlived(t) => Outlived(t)'
  BY OutlivedKept
<1>2. SignersInTime'
  BY SignerKept DEF SignersInTime
<1>3. BuildsOutlived'
  BY <1>1, BusyType DEF KeyInv, BuildsOutlived
<1>4. CacheOutlived' /\ MailOutlived'
  BY <1>1 DEF TokenTypeOK, KeyInv, CacheOutlived, MailOutlived
<1> QED  BY <1>2, <1>3, <1>4 DEF KeyInv

LEMMA AdvanceKeys ==
  ASSUME TokenTypeOK, KeyInv, NEW b \in Builders, building[b] # IdleBuild,
         NEW T, \A t \in T : Outlived(t), Advance(b, T), keys' = keys, CacheOutlived'
  PROVE  KeyInv'
<1> DEFINE made == building[b].made \cup T
           r == building[b].of
<1>1. r \in Recipients /\ \A t \in made : Outlived(t)
  BY BusyType DEF KeyInv, BuildsOutlived
<1>2. \A t : Outlived(t) => Outlived(t)'
  BY DEF Outlived
<1>3. CASE building[b].axis = "links"
  <2> DEFINE new == Build("opens", r, building[b].waited, made)
  <2>1. building' = [building EXCEPT ![b] = new] /\ held' = held
    BY <1>3 DEF Advance
  <2>2. new.key = {} /\ new.made = made
    BY DEF Build
  <2> HIDE DEF made, r, new
  <2>3. SignersInTime' /\ BuildsOutlived'
    BY <1>1, <1>2, <2>1, <2>2 DEF TokenTypeOK, KeyInv, SignersInTime, BuildsOutlived
  <2>4. MailOutlived'
    BY <1>2, <2>1 DEF KeyInv, MailOutlived
  <2> QED  BY <2>3, <2>4 DEF KeyInv
<1>4. CASE building[b].axis # "links"
  <2>1. building' = [building EXCEPT ![b] = IdleBuild]
        /\ held' = [held EXCEPT ![r] = @ \cup made]
    BY <1>4 DEF Advance
  <2> HIDE DEF made, r
  <2>2. SignersInTime' /\ BuildsOutlived'
    BY <1>2, <2>1 DEF TokenTypeOK, KeyInv, SignersInTime, BuildsOutlived
  <2>3. MailOutlived'
    BY <1>1, <1>2, <2>1 DEF TokenTypeOK, KeyInv, MailOutlived
  <2> QED  BY <2>2, <2>3 DEF KeyInv
<1> QED  BY <1>3, <1>4

(* A Build is handed a key: one that was looked up, or a new one.          *)
LEMMA HandedKey ==
  ASSUME TokenTypeOK, KeyInv, KeysKept, keys' \in [Kids -> Int], UNCHANGED <<shared, held>>,
         NEW b \in Builders, building[b] # IdleBuild, NEW step, NEW K \in SUBSET Kids,
         \A k \in K : keys'[k] > Period,
         building' = [building EXCEPT ![b].step = step, ![b].key = K]
  PROVE  KeyInv'
<1> DEFINE new == [building[b] EXCEPT !.step = step, !.key = K]
<1>1. /\ new.key = K /\ new.made = building[b].made /\ new.waited = building[b].waited
      /\ building[b].waited \in 0..MintTime
  BY BusyType DEF Builds
<1>2. building' = [building EXCEPT ![b] = new]
  OBVIOUS
<1> HIDE DEF new
<1>3. \A t \in Token : Outlived(t) => Outlived(t)'
  BY OutlivedKept
<1>4. SignersInTime'
  <2> SUFFICES ASSUME NEW c \in Builders, building'[c] # IdleBuild,
                      NEW k \in building'[c].key, Period > MintTime
               PROVE  keys'[k] + building'[c].waited > Period
    BY DEF SignersInTime
  <2>1. CASE c = b
    <3>1. k \in K /\ building'[c].waited \in 0..MintTime
      BY <1>1, <1>2, <2>1 DEF TokenTypeOK
    <3>2. keys'[k] \in Int /\ keys'[k] > Period
      BY <3>1
    <3> QED  BY <3>1, <3>2, TokensAssumption DEF TokensAssumption
  <2>2. CASE c # b
    <3>1. building'[c] = building[c]
      BY <1>2, <2>2 DEF TokenTypeOK
    <3> QED  BY <3>1, SignerKept
  <2> QED  BY <2>1, <2>2
<1>5. BuildsOutlived'
  <2> SUFFICES ASSUME NEW c \in Builders, building'[c] # IdleBuild, NEW t \in building'[c].made
               PROVE  Outlived(t)'
    BY DEF BuildsOutlived
  <2>1. building[c] # IdleBuild /\ t \in building[c].made
    BY <1>1, <1>2 DEF TokenTypeOK
  <2> QED  BY <1>3, <2>1, BusyType DEF KeyInv, BuildsOutlived
<1>6. CacheOutlived' /\ MailOutlived'
  BY <1>3 DEF TokenTypeOK, KeyInv, CacheOutlived, MailOutlived
<1> QED  BY <1>4, <1>5, <1>6 DEF KeyInv

LEMMA BuilderKeys ==
  ASSUME TokenTypeOK, KeyInv, NEW b \in Builders, BuilderStep(b)
  PROVE  KeyInv'
<1>1. keys' = keys => KeysKept /\ keys' \in [Kids -> Int]
  BY DEF TokenTypeOK, KeysKept, Absent
<1>2. ASSUME keys' = keys PROVE \A t : Outlived(t) => Outlived(t)'
  BY <1>2 DEF Outlived
<1>3. keys' = keys /\ shared' = shared => CacheOutlived'
  BY <1>2 DEF KeyInv, CacheOutlived
<1>4. keys' = keys /\ held' = held => MailOutlived'
  BY <1>2 DEF KeyInv, MailOutlived
<1>5. ASSUME NEW r \in Recipients, StartBuild(b, r) PROVE KeyInv'
  <2>1. Build("links", r, 0, {}).key = {} /\ Build("links", r, 0, {}).made = {}
    BY DEF Build
  <2>2. SignersInTime' /\ BuildsOutlived'
    BY <1>2, <1>5, <2>1 DEF StartBuild, TokenTypeOK, KeyInv, SignersInTime, BuildsOutlived
  <2> QED  BY <1>3, <1>4, <1>5, <2>2 DEF StartBuild, KeyInv
<1>6. CASE SkipAxis(b)
  BY <1>3, <1>6, BusyStep, AdvanceKeys DEF SkipAxis
<1>7. CASE ReuseToken(b)
  <2>1. PICK t \in Cached(b) : Advance(b, {t})
    BY <1>7 DEF ReuseToken
  <2>2. Outlived(t)
    BY DEF Cached, KeyInv, CacheOutlived
  <2> QED  BY <1>3, <1>7, <2>1, <2>2, BusyStep, AdvanceKeys DEF ReuseToken
<1>8. CASE LookupKey(b)
  <2>1. building[b] # IdleBuild /\ keys' = keys /\ UNCHANGED <<shared, held>>
    BY <1>8, BusyStep DEF LookupKey
  <2>2. ASSUME NEW k \in SigningKeys,
               building' = [building EXCEPT ![b].step = "sign", ![b].key = {k}]
        PROVE  KeyInv'
    <3>1. {k} \in SUBSET Kids /\ \A j \in {k} : keys'[j] > Period
      BY <2>1 DEF SigningKeys
    <3> QED  BY <1>1, <2>1, <2>2, <3>1, HandedKey
  <2>3. CASE building' = [building EXCEPT ![b].step = "create"]
    <3>1. building[b] \in Builds
      BY <2>1, BusyType
    <3> DEFINE new == [building[b] EXCEPT !.step = "create"]
    <3>2. /\ building' = [building EXCEPT ![b] = new]
          /\ new.key = building[b].key /\ new.made = building[b].made
          /\ new.waited = building[b].waited
      BY <2>3, <3>1 DEF Builds
    <3> HIDE DEF new
    <3>3. SignersInTime' /\ BuildsOutlived'
      BY <1>2, <2>1, <3>2 DEF TokenTypeOK, KeyInv, SignersInTime, BuildsOutlived
    <3> QED  BY <1>3, <1>4, <2>1, <3>3 DEF KeyInv
  <2> QED  BY <1>8, <2>2, <2>3 DEF LookupKey
<1>9. CASE CreateStatsKeys(b)
  <2>1. building[b] # IdleBuild /\ UNCHANGED <<shared, held>>
    BY <1>9, BusyStep DEF CreateStatsKeys
  <2>2. PICK k \in FreshKids :
          /\ keys' = [keys EXCEPT ![k] = 2 * Period]
          /\ building' = [building EXCEPT ![b].step = "sign", ![b].key = {k}]
    BY <1>9 DEF CreateStatsKeys
  <2>3. k \in Kids /\ keys[k] = Absent
    BY DEF FreshKids
  <2>4. KeysKept /\ keys' \in [Kids -> Int] /\ keys'[k] > Period
    BY <2>2, <2>3, TokensAssumption DEF TokensAssumption, TokenTypeOK, KeysKept, Absent
  <2>5. {k} \in SUBSET Kids /\ \A j \in {k} : keys'[j] > Period
    BY <2>3, <2>4
  <2> QED  BY <2>1, <2>2, <2>4, <2>5, HandedKey
<1>10. CASE CreateToken(b)
  <2>1. building[b] # IdleBuild
    BY <1>10, BusyStep DEF CreateToken
  <2> DEFINE Minted(k) == [kid |-> k, aud |-> building[b].axis, mode |-> ModeOf(b),
                who |-> IdentityUnder(ModeOf(b), building[b].of), left |-> Period]
  <2>2. PICK k \in building[b].key :
          /\ Advance(b, {Minted(k)})
          /\ shared' \in {shared, [shared EXCEPT ![b] = @ \cup {Minted(k)}]}
    BY <1>10 DEF CreateToken
  <2>3. Minted(k).kid = k /\ Minted(k).left = Period
    OBVIOUS
  <2>4. k \in Kids /\ building[b].waited \in 0..MintTime
        /\ (Period > MintTime => keys[k] + building[b].waited > Period)
    BY <2>1, BusyType DEF KeyInv, SignersInTime
  <2> HIDE DEF Minted
  <2>5. keys[k] \in Int
    BY <2>4 DEF TokenTypeOK, Absent
  <2>6. Outlived(Minted(k))
    BY <2>3, <2>4, <2>5, TokensAssumption DEF TokensAssumption, Outlived
  <2>7. keys' = keys
    BY <1>10 DEF CreateToken
  <2>8. CacheOutlived'
    BY <1>2, <2>2, <2>6, <2>7 DEF TokenTypeOK, KeyInv, CacheOutlived
  <2> QED  BY <2>1, <2>2, <2>6, <2>7, <2>8, AdvanceKeys
<1>11. CASE BuildFails(b)
  <2>1. SignersInTime' /\ BuildsOutlived'
    BY <1>2, <1>11 DEF BuildFails, TokenTypeOK, KeyInv, SignersInTime, BuildsOutlived
  <2> QED  BY <1>3, <1>4, <1>11, <2>1 DEF BuildFails, KeyInv
<1>12. CASE ForgetShared(b)
  <2>1. SignersInTime' /\ BuildsOutlived'
    BY <1>2, <1>12 DEF ForgetShared, KeyInv, SignersInTime, BuildsOutlived
  <2>2. CacheOutlived'
    BY <1>2, <1>12 DEF ForgetShared, TokenTypeOK, KeyInv, CacheOutlived
  <2> QED  BY <1>4, <1>12, <2>1, <2>2 DEF ForgetShared, KeyInv
<1> QED
  BY <1>5, <1>6, <1>7, <1>8, <1>9, <1>10, <1>11, <1>12 DEF BuilderStep

(* A token and its key grow old together.                                  *)
LEMMA AgedOutlived ==
  ASSUME TokenTypeOK, TokenTick, NEW T \in SUBSET Token, \A t \in T : Outlived(t),
         NEW u \in Aged(T)
  PROVE  Outlived(u)'
<1>1. PICK t \in T : u.kid = t.kid /\ u.left = IF t.left = 0 THEN 0 ELSE t.left - 1
  BY AgedFields
<1>2. t.kid \in Kids /\ t.left \in 0..Period /\ keys[t.kid] \in Int
  BY DEF Token, TokenTypeOK, Absent
<1>3. keys'[t.kid] = KeyLater(keys[t.kid])
  BY <1>2 DEF TokenTick
<1>4. CASE t.left > MintTime
  <2>1. keys[t.kid] > t.left - MintTime /\ t.left - MintTime > 0
    BY <1>2, <1>4, TokensAssumption DEF TokensAssumption, Outlived
  <2>2. KeyLater(keys[t.kid]) = keys[t.kid] - 1
    BY <1>2, <1>4, <2>1, TokensAssumption DEF TokensAssumption, KeyLater, Absent, Expired
  <2> QED
    BY <1>1, <1>2, <1>3, <1>4, <2>1, <2>2, TokensAssumption DEF TokensAssumption, Outlived
<1>5. CASE ~(t.left > MintTime)
  <2>1. ~(u.left > MintTime)
    BY <1>1, <1>2, <1>5, TokensAssumption DEF TokensAssumption
  <2> QED  BY <2>1 DEF Outlived
<1> QED  BY <1>4, <1>5

LEMMA TickKeys ==
  ASSUME TokenTypeOK, KeyInv, TokenTick PROVE KeyInv'
<1>1. ASSUME NEW b \in Builders, building'[b] # IdleBuild
      PROVE  /\ building[b] # IdleBuild
             /\ building'[b].key = building[b].key
             /\ building'[b].waited = building[b].waited + 1
             /\ building'[b].made = Aged(building[b].made)
  BY <1>1, BuildLaterFields DEF TokenTick
<1>2. SignersInTime'
  <2> SUFFICES ASSUME NEW b \in Builders, building'[b] # IdleBuild,
                      NEW k \in building'[b].key, Period > MintTime
               PROVE  keys'[k] + building'[b].waited > Period
    BY DEF SignersInTime
  <2>1. /\ k \in Kids /\ building[b].waited \in 0..MintTime /\ keys[k] \in Int
        /\ keys[k] + building[b].waited > Period /\ building'[b].waited = building[b].waited + 1
    BY <1>1, BusyType DEF TokenTypeOK, KeyInv, SignersInTime, Absent
  <2>2. keys'[k] = KeyLater(keys[k])
    BY <2>1 DEF TokenTick
  <2>3. KeyLater(keys[k]) \in Int /\ KeyLater(keys[k]) >= keys[k] - 1
    BY <2>1 DEF KeyLater
  <2> QED  BY <2>1, <2>2, <2>3, TokensAssumption DEF TokensAssumption
<1>3. BuildsOutlived'
  <2> SUFFICES ASSUME NEW b \in Builders, building'[b] # IdleBuild, NEW u \in building'[b].made
               PROVE  Outlived(u)'
    BY DEF BuildsOutlived
  <2>1. /\ building[b].made \in SUBSET Token /\ u \in Aged(building[b].made)
        /\ \A t \in building[b].made : Outlived(t)
    BY <1>1, BusyType DEF KeyInv, BuildsOutlived
  <2> QED  BY <2>1, AgedOutlived
<1>4. CacheOutlived'
  <2> SUFFICES ASSUME NEW b \in Builders, NEW u \in Aged(shared[b]) PROVE Outlived(u)'
    BY DEF CacheOutlived, TokenTick
  <2>1. shared[b] \in SUBSET Token /\ \A t \in shared[b] : Outlived(t)
    BY DEF TokenTypeOK, KeyInv, CacheOutlived
  <2> QED  BY <2>1, AgedOutlived
<1>5. MailOutlived'
  <2> SUFFICES ASSUME NEW r \in Recipients, NEW u \in Aged(held[r]) PROVE Outlived(u)'
    BY DEF MailOutlived, TokenTick, Current
  <2>1. held[r] \in SUBSET Token /\ \A t \in held[r] : Outlived(t)
    BY DEF TokenTypeOK, KeyInv, MailOutlived
  <2> QED  BY <2>1, AgedOutlived
<1> QED  BY <1>2, <1>3, <1>4, <1>5 DEF KeyInv

LEMMA KeyStep ==
  ASSUME EngagementTypeOK, KeyInv, [EngagementNext]_engagementVars
  PROVE  KeyInv'
<1> USE DEF EngagementTypeOK
<1>1. ASSUME UNCHANGED <<keys, building, shared, held>> PROVE KeyInv'
  BY <1>1, KeyFrame DEF TokenTypeOK, KeysKept, Absent
<1>2. CASE CleanupCycle
  <2>1. KeysKept /\ keys' \in [Kids -> Int]
    BY <1>2 DEF CleanupCycle, KeysAfterCleanup, TokenTypeOK, KeysKept, Absent, Expired
  <2> QED  BY <1>2, <2>1, KeyFrame DEF CleanupCycle
<1>3. ASSUME NEW b \in Builders, BuilderStep(b) PROVE KeyInv'
  BY <1>3, BuilderKeys
<1>4. CASE TokenTick
  BY <1>4, TickKeys
<1> QED
  BY <1>1, <1>2, <1>3, <1>4
     DEF EngagementNext, engagementVars, Intake, Engage, DiscardStat, InsertStat

LEMMA KeyInit == EngagementInit => KeyInv
<1> SUFFICES ASSUME EngagementInit PROVE KeyInv
  OBVIOUS
<1>1. PICK k \in Kids, legacy \in SUBSET Recipients, newer \in SUBSET Recipients :
        Start(k, legacy, newer)
  BY DEF EngagementInit
<1>2. ASSUME NEW r \in Recipients, NEW t \in held[r] PROVE Outlived(t)
  <2>1. legacy \cup newer # {} /\ t.kid = k /\ t.left = Period
    BY <1>1, <1>2 DEF Start, LegacyMail, NewerMail
  <2>2. keys[t.kid] = 2 * Period
    BY <1>1, <2>1 DEF Start
  <2> QED  BY <2>1, <2>2, TokensAssumption DEF TokensAssumption, Outlived
<1> QED
  BY <1>1, <1>2 DEF Start, KeyInv, SignersInTime, BuildsOutlived, CacheOutlived, MailOutlived

(* For any lifetimes and any number of replicas, the key of a token is     *)
(* there until the token expires, but for the time its signing took.       *)
THEOREM TokensVerify == EngagementSpec => []UnexpiredTokenVerifies
<1>1. EngagementTypeOK /\ KeyInv => UnexpiredTokenVerifies
  <2> SUFFICES ASSUME EngagementTypeOK, KeyInv, NEW r \in Recipients, NEW t \in held[r],
                      t.left > MintTime
               PROVE  KeyIsValid(t)
    BY DEF UnexpiredTokenVerifies
  <2>1. t.kid \in Kids /\ t.left \in 0..Period /\ keys[t.kid] \in Int
    BY DEF EngagementTypeOK, TokenTypeOK, Token, Absent
  <2>2. keys[t.kid] > t.left - MintTime
    BY DEF KeyInv, MailOutlived, Outlived
  <2> QED  BY <2>1, <2>2, TokensAssumption DEF TokensAssumption, KeyIsValid
<1> QED  BY <1>1, KeyInit, KeyStep, EngagementTypes, PTL DEF EngagementSpec

-----------------------------------------------------------------------------
(* Induction on the naturals, for a set: a step of it that stayed below a  *)
(* number it does not hold would map a finite set into itself less 0.      *)
LEMMA Induction ==
  ASSUME NEW S, 0 \in S, \A m \in Nat : m \in S => m + 1 \in S
  PROVE  \A n \in Nat : n \in S
<1> SUFFICES ASSUME NEW n \in Nat, n \notin S PROVE FALSE
  OBVIOUS
<1> DEFINE A == {k \in 0..n : k \in S}
           B == A \ {0}
           f == [k \in A |-> k + 1]
<1>1. IsFiniteSet(A) /\ 0 \in A
  <2>1. IsFiniteSet(0..n)
    BY FS_Interval
  <2> QED  BY <2>1, FS_Subset
<1>2. f \in Injection(A, B)
  <2>1. \A k \in A : k + 1 \in B
    OBVIOUS
  <2>2. \A k, l \in A : k + 1 = l + 1 => k = l
    OBVIOUS
  <2> QED  BY <2>1, <2>2 DEF Injection, IsInjective
<1>3. IsFiniteSet(B) /\ Cardinality(B) = Cardinality(A) - 1
  BY <1>1, FS_RemoveElement
<1>4. Cardinality(A) <= Cardinality(B)
  <2> HIDE DEF A, B, f
  <2> QED  BY <1>2, <1>3, FS_Injection
<1>5. Cardinality(A) \in Nat
  BY <1>1, FS_CardinalityType
<1> QED  BY <1>3, <1>4, <1>5

(* A set of positions that is not empty has a first one.                   *)
LEMMA MinOfPositions ==
  ASSUME NEW S \in SUBSET Nat, S # {}
  PROVE  Min(S) \in S /\ \A k \in S : Min(S) <= k
<1>1. \E m \in S : \A k \in S : m <= k
  <2> SUFFICES ASSUME ~\E m \in S : \A k \in S : m <= k PROVE FALSE
    OBVIOUS
  <2> DEFINE T == {n \in Nat : \A k \in S : n <= k}
  <2>1. 0 \in T
    OBVIOUS
  <2>2. \A n \in Nat : n \in T => n + 1 \in T
    <3> TAKE n \in Nat
    <3> HAVE n \in T
    <3>1. n \notin S
      OBVIOUS
    <3> QED  BY <3>1
  <2>3. \A n \in Nat : n \in T
    <3> HIDE DEF T
    <3> QED  BY <2>1, <2>2, Induction
  <2>4. PICK k \in S : TRUE
    OBVIOUS
  <2>5. k + 1 \in T
    BY <2>3
  <2> QED  BY <2>4, <2>5
<1> QED  BY <1>1 DEF Min

-----------------------------------------------------------------------------
(* Texts.                                                                  *)
LEMMA TextOf ==
  ASSUME NEW n \in Nat, NEW t, t = [i \in 1..n |-> t[i]], \A i \in 1..n : IsPiece(t[i])
  PROVE  IsText(t) /\ Len(t) = n /\ DOMAIN t = 1..n
<1>1. t \in Seq(ToSet(t)) /\ DOMAIN t = 1..n
  BY DEF ToSet
<1> QED  BY <1>1 DEF IsText

LEMMA TextFacts ==
  ASSUME NEW t, IsText(t)
  PROVE  /\ Len(t) \in Nat /\ DOMAIN t = 1..Len(t) /\ t = [i \in 1..Len(t) |-> t[i]]
         /\ \A i \in 1..Len(t) : IsPiece(t[i])
BY DEF IsText

LEMMA TagIsPiece ==
  ASSUME NEW href, NEW opts \in Nat
  PROVE  /\ IsPiece(Tag(href, opts)) /\ Tag(href, opts).kind = "a"
         /\ Tag(href, opts).href = href /\ Tag(href, opts).opts = opts
         /\ Tag(href, opts) # Pixel /\ Tag(href, opts) # BodyClose
<1>1. PICK t : t = Tag(href, opts)
  OBVIOUS
<1>2. t.kind = "a" /\ t.href = href /\ t.opts = opts
  BY <1>1 DEF Tag
<1>3. t.kind # "pixel" /\ t = Tag(t.href, t.opts) /\ t.opts \in Nat
  BY <1>1, <1>2
<1>4. Pixel.kind = "pixel" /\ BodyClose.kind = "close"
  BY DEF Pixel, BodyClose, Piece
<1>5. t # Pixel /\ t # BodyClose
  BY <1>2, <1>4, Zenon
<1> QED  BY <1>1, <1>2, <1>3, <1>5, Zenon DEF IsPiece

LEMMA ExpandIsPiece ==
  ASSUME NEW v, IsPiece(v) PROVE IsPiece(Expand(v))
<1>1. Word("").kind = "word"
  BY DEF Word, Piece
<1>2. IsPiece(Word(""))
  BY <1>1 DEF IsPiece
<1> QED  BY <1>2, Zenon DEF Expand

LEMMA SubstitutedIsText ==
  ASSUME NEW t, IsText(t), NEW key, NEW v, IsPiece(v)
  PROVE  IsText(Substituted(t, key, v)) /\ Len(Substituted(t, key, v)) = Len(t)
<1>1. PICK n \in Nat : n = Len(t) /\ DOMAIN t = 1..n /\ \A i \in 1..n : IsPiece(t[i])
  BY TextFacts
<1>2. PICK s : s = Substituted(t, key, v)
  OBVIOUS
<1>3. s = [i \in 1..n |-> s[i]]
  BY <1>1, <1>2 DEF Substituted
<1>4. ASSUME NEW i \in 1..n PROVE IsPiece(s[i])
  <2>1. s[i] = IF t[i].kind = "a" THEN Tag(Filled(t[i].href, key, v), t[i].opts) ELSE Filled(t[i], key, v)
    BY <1>1, <1>2, <1>4 DEF Substituted
  <2>2. CASE t[i].kind = "a"
    <3>1. t[i].opts \in Nat
      BY <1>1, <2>2, Zenon DEF IsPiece
    <3> QED  BY <2>1, <2>2, <3>1, TagIsPiece, Zenon
  <2>3. CASE t[i].kind # "a"
    <3>1. IsPiece(Filled(t[i], key, v))
      BY <1>1, <1>4, Zenon DEF Filled
    <3> QED  BY <2>1, <2>3, <3>1, Zenon
  <2> QED  BY <2>2, <2>3
<1> QED  BY <1>1, <1>2, <1>3, <1>4, TextOf

-----------------------------------------------------------------------------
(* The loop over the fields: what is left after each of its passes.        *)
Pass(t, values, order, m) == Substituted(t, order[m], Expand(values[order[m]]))

Passes(g, n, str, values, order) ==
  g = [m \in 0..n |-> IF m = 0 THEN str ELSE Pass(g[m - 1], values, order, m)]

LEMMA PassesExist ==
  ASSUME NEW str, NEW values, NEW order, NEW n \in Nat
  PROVE  \E g : Passes(g, n, str, values, order)
<1> DEFINE S == {m \in Nat : \E g : Passes(g, m, str, values, order)}
<1>1. 0 \in S
  <2>1. PICK g : g = [m \in 0..0 |-> str]
    OBVIOUS
  <2>2. g = [m \in 0..0 |-> IF m = 0 THEN str ELSE Pass(g[m - 1], values, order, m)]
    BY <2>1
  <2> QED  BY <2>2 DEF Passes
<1>2. \A m \in Nat : m \in S => m + 1 \in S
  <2> TAKE m \in Nat
  <2> HAVE m \in S
  <2>1. PICK g : Passes(g, m, str, values, order)
    OBVIOUS
  <2>2. PICK h : h = [l \in 0..(m + 1) |-> IF l <= m THEN g[l] ELSE Pass(g[m], values, order, m + 1)]
    OBVIOUS
  <2>3. ASSUME NEW l \in 0..(m + 1)
        PROVE  h[l] = IF l = 0 THEN str ELSE Pass(h[l - 1], values, order, l)
    <3>1. CASE l = 0
      BY <2>1, <2>2, <3>1 DEF Passes
    <3>2. CASE l \in 1..m
      <4>1. g[l] = Pass(g[l - 1], values, order, l)
        BY <2>1, <3>2 DEF Passes
      <4>2. h[l] = g[l] /\ h[l - 1] = g[l - 1]
        BY <2>2, <3>2
      <4> QED  BY <3>2, <4>1, <4>2
    <3>3. CASE l = m + 1
      <4>1. h[l] = Pass(g[m], values, order, l) /\ h[l - 1] = g[m]
        BY <2>2, <3>3
      <4> QED  BY <3>3, <4>1
    <3> QED  BY <3>1, <3>2, <3>3
  <2>4. Passes(h, m + 1, str, values, order)
    BY <2>2, <2>3 DEF Passes
  <2> QED  BY <2>4
<1> HIDE DEF S
<1>3. n \in S
  BY <1>1, <1>2, Induction
<1> QED  BY <1>3 DEF S

LEMMA InOrderPasses ==
  ASSUME NEW str, NEW values, NEW order, NEW n \in Nat, Len(order) = n
  PROVE  \E g : /\ g[0] = str /\ InOrder(str, values, order) = g[n]
                /\ \A m \in 1..n : g[m] = Pass(g[m - 1], values, order, m)
<1> DEFINE g == CHOOSE g : g = [m \in 0..Len(order) |-> IF m = 0 THEN str
                                   ELSE Substituted(g[m - 1], order[m], Expand(values[order[m]]))]
<1>1. InOrder(str, values, order) = g[Len(order)]
  BY Zenon DEF InOrder
<1>2. \E h : Passes(h, Len(order), str, values, order)
  BY PassesExist
<1>3. Passes(g, Len(order), str, values, order)
  BY <1>2, Zenon DEF Passes, Pass
<1> HIDE DEF g
<1>4. g[0] = str /\ \A m \in 1..n : g[m] = Pass(g[m - 1], values, order, m)
  BY <1>3 DEF Passes
<1> QED  BY <1>1, <1>4

(* Each key has its pass.                                                  *)
LEMMA OrderFacts ==
  ASSUME NEW K, IsFiniteSet(K), NEW order \in SetToSeqs(K)
  PROVE  /\ Len(order) \in Nat /\ order \in [1..Len(order) -> K]
         /\ \A k \in K : \E m \in 1..Len(order) : order[m] = k
<1>1. PICK n \in Nat : n = Cardinality(K)
  BY FS_CardinalityType
<1>2. /\ order \in [1..n -> K] /\ Len(order) = n
      /\ \A i, j \in 1..n : order[i] = order[j] => i = j
  BY <1>1 DEF SetToSeqs
<1>3. order \in Injection(1..n, K)
  BY <1>2 DEF Injection, IsInjective
<1>4. IsFiniteSet(1..n) /\ Cardinality(1..n) = n
  BY FS_Interval
<1>5. order \in Surjection(1..n, K)
  BY <1>1, <1>3, <1>4, FS_Injection
<1>6. \A k \in K : \E m \in 1..n : order[m] = k
  BY <1>5 DEF Surjection
<1> QED  BY <1>2, <1>6

LEMMA FilledIsText ==
  ASSUME NEW str, IsText(str), NEW values, IsFiniteSet(DOMAIN values),
         \A key \in DOMAIN values : IsPiece(values[key]),
         NEW t \in replaceCustomFields(str, values)
  PROVE  IsText(t) /\ Len(t) = Len(str)
<1>1. PICK order \in SetToSeqs(DOMAIN values) : t = InOrder(str, values, order)
  BY DEF replaceCustomFields
<1>2. PICK n \in Nat : n = Len(order) /\ order \in [1..n -> DOMAIN values]
  BY OrderFacts
<1>3. PICK g : /\ g[0] = str /\ t = g[n]
               /\ \A m \in 1..n : g[m] = Pass(g[m - 1], values, order, m)
  BY <1>1, <1>2, InOrderPasses
<1> DEFINE S == {m \in Nat : m <= n => IsText(g[m]) /\ Len(g[m]) = Len(str)}
<1>4. 0 \in S
  BY <1>3
<1>5. \A m \in Nat : m \in S => m + 1 \in S
  <2> TAKE m \in Nat
  <2> HAVE m \in S
  <2> SUFFICES ASSUME m + 1 <= n PROVE IsText(g[m + 1]) /\ Len(g[m + 1]) = Len(str)
    OBVIOUS
  <2>1. m + 1 \in 1..n /\ (m + 1) - 1 = m /\ IsText(g[m]) /\ Len(g[m]) = Len(str)
    OBVIOUS
  <2>2. PICK l \in 1..n : l = m + 1
    BY <2>1
  <2>3. g[l] = Substituted(g[m], order[l], Expand(values[order[l]]))
    BY <1>3, <2>1, <2>2 DEF Pass
  <2>4. IsPiece(Expand(values[order[l]]))
    BY <1>2, ExpandIsPiece
  <2> QED  BY <2>1, <2>2, <2>3, <2>4, SubstitutedIsText
<1> HIDE DEF S
<1>6. n \in S
  BY <1>4, <1>5, Induction
<1> QED  BY <1>3, <1>6 DEF S

LEMMA EffectiveIsPieces ==
  ASSUME NEW email, NEW fields, IsFiniteSet(DOMAIN fields),
         \A key \in DOMAIN fields : IsPiece(fields[key]),
         NEW e, e = EffectiveFields(email, fields)
  PROVE  IsFiniteSet(DOMAIN e) /\ \A key \in DOMAIN e : IsPiece(e[key])
<1>1. Word(email).kind = "word"
  BY DEF Word, Piece
<1>2. IsPiece(Word(email))
  BY <1>1 DEF IsPiece
<1>3. PICK K : K = DOMAIN fields \cup {"email"}
  OBVIOUS
<1>4. IsFiniteSet(K)
  BY <1>3, FS_AddElement
<1>5. e = [k \in K |-> IF k \in DOMAIN fields THEN fields[k] ELSE Word(email)]
  BY <1>3 DEF EffectiveFields
<1> QED  BY <1>2, <1>4, <1>5

-----------------------------------------------------------------------------
(* Putting a piece in.                                                     *)
WithPiece(s, i, e, j) == IF j < i THEN s[j] ELSE IF j = i THEN e ELSE s[j - 1]

IsInserted(t, s, n, i, e) == DOMAIN t = 1..(n + 1) /\ \A j \in 1..(n + 1) : t[j] = WithPiece(s, i, e, j)

LEMMA Inserted ==
  ASSUME NEW S, NEW s \in Seq(S), NEW e \in S, NEW n \in Nat, Len(s) = n, NEW i \in 1..(n + 1),
         NEW t, t = InsertAt(s, i, e)
  PROVE  IsInserted(t, s, n, i, e)
<1>1. n = Len(s)
  OBVIOUS
<1>2. PICK a : a = SubSeq(s, 1, i - 1)
  OBVIOUS
<1>3. PICK b : b = SubSeq(s, i, n)
  OBVIOUS
<1>4. PICK c : c = <<e>>
  OBVIOUS
<1>5. a \in Seq(S) /\ Len(a) = i - 1 /\ \A j \in 1..(i - 1) : a[j] = s[j]
  BY <1>1, <1>2
<1>6. b \in Seq(S) /\ Len(b) = n - i + 1 /\ \A j \in 1..(n - i + 1) : b[j] = s[i + j - 1]
  BY <1>1, <1>3
<1>7. c \in Seq(S) /\ Len(c) = 1 /\ c[1] = e
  BY <1>4
<1>8. PICK ac : ac = a \o c
  OBVIOUS
<1>9. /\ ac \in Seq(S) /\ Len(ac) = i /\ ac[i] = e /\ \A j \in 1..(i - 1) : ac[j] = s[j]
  <2>1. ac = Append(a, e)
    BY <1>4, <1>5, <1>8, AppendIsConcat
  <2> QED  BY <1>5, <2>1
<1>10. t = ac \o b
  BY <1>1, <1>2, <1>3, <1>4, <1>8 DEF InsertAt
<1>11. t \in Seq(S) /\ Len(t) = n + 1
  <2>1. PICK k \in Nat : k = n - i + 1
    <3>1. n - i + 1 \in Nat
      OBVIOUS
    <3> QED  BY <3>1
  <2>2. Len(b) = k /\ i + k = n + 1
    BY <1>6, <2>1
  <2>3. ac \o b \in Seq(S) /\ Len(ac \o b) = Len(ac) + Len(b)
    BY <1>6, <1>9, ConcatProperties
  <2> QED  BY <1>9, <1>10, <2>2, <2>3
<1>12. \A j \in 1..i : t[j] = ac[j]
  BY <1>6, <1>9, <1>10
<1>13. ASSUME NEW j \in (i + 1)..(n + 1) PROVE t[j] = s[j - 1]
  <2>1. PICK k \in 1..(n - i + 1) : j = i + k
    <3>1. j - i \in 1..(n - i + 1) /\ j = i + (j - i)
      BY <1>1
    <3> QED  BY <3>1
  <2>2. t[j] = b[k]
    BY <1>6, <1>9, <1>10, <2>1
  <2>3. b[k] = s[i + k - 1]
    BY <1>6
  <2> QED  BY <2>1, <2>2, <2>3
<1>14. \A j \in 1..(n + 1) : t[j] = WithPiece(s, i, e, j)
  BY <1>1, <1>9, <1>12, <1>13 DEF WithPiece
<1> QED  BY <1>11, <1>14 DEF IsInserted
-----------------------------------------------------------------------------
(* The HTML.                                                               *)
LEMMA SentAsPiece ==
  ASSUME NEW p, IsPiece(p), NEW pol
  PROVE  SentAs(p, pol) # Pixel /\ (SentAs(p, pol) = BodyClose <=> p = BodyClose)
<1>1. Pixel.kind = "pixel" /\ BodyClose.kind = "close"
  BY DEF Pixel, BodyClose, Piece
<1>2. CASE p.kind # "a"
  BY <1>1, <1>2, Zenon DEF SentAs, IsPiece
<1>3. CASE p.kind = "a"
  <2>1. PICK href : SentAs(p, pol) = Tag(href, 0)
    BY <1>3, Zenon DEF SentAs
  <2>2. p # BodyClose
    <3>1. "a" # "close"
      OBVIOUS
    <3> QED  BY <1>1, <1>3, <3>1, Zenon
  <2>3. Tag(href, 0) # Pixel /\ Tag(href, 0) # BodyClose
    BY TagIsPiece
  <2> QED  BY <2>1, <2>2, <2>3, Zenon
<1> QED  BY <1>2, <1>3

Linked(page, pol) == IF pol.links = "off" THEN page ELSE replaceLinks(page)

(* Links are rewritten before the opt-outs are taken away.                 *)
LEMMA SentPieces ==
  ASSUME NEW page, IsText(page), NEW pol, NEW linked, NEW stripped,
         linked = Linked(page, pol),
         stripped = stripNoTrackAttrs(linked)
  PROVE  stripped = [i \in 1..Len(page) |-> SentAs(page[i], pol)]
<1>1. PICK n \in Nat : n = Len(page) /\ DOMAIN page = 1..n /\ \A i \in 1..n : IsPiece(page[i])
  BY TextFacts
<1>2. DOMAIN linked = 1..n
  BY <1>1 DEF Linked, replaceLinks
<1>3. stripped = [i \in 1..n |-> IF linked[i].kind = "a" THEN Tag(linked[i].href, 0) ELSE linked[i]]
  BY <1>2 DEF stripNoTrackAttrs
<1>4. ASSUME NEW i \in 1..n
      PROVE  (IF linked[i].kind = "a" THEN Tag(linked[i].href, 0) ELSE linked[i]) = SentAs(page[i], pol)
  <2>1. PICK p : p = page[i] /\ IsPiece(p)
    BY <1>1, <1>4
  <2>2. CASE p.kind # "a"
    <3>1. linked[i] = p
      BY <1>1, <1>4, <2>1, <2>2, Zenon DEF Linked, replaceLinks
    <3> QED  BY <2>1, <2>2, <3>1, Zenon DEF SentAs
  <2>3. CASE p.kind = "a" /\ pol.links = "off"
    BY <2>1, <2>3, Zenon DEF SentAs, Linked
  <2>4. CASE p.kind = "a" /\ pol.links # "off"
    <3>1. linked[i] = rewriteATag(p)
      BY <1>1, <1>4, <2>1, <2>4, Zenon DEF Linked, replaceLinks
    <3>2. p.opts \in Nat
      BY <2>1, <2>4, Zenon DEF IsPiece
    <3>3. p.opts > 0 <=> p.opts # 0
      BY <3>2
    <3>4. Tag(Tracked(p.href), p.opts).kind = "a" /\ Tag(Tracked(p.href), p.opts).href = Tracked(p.href)
      BY <3>2, TagIsPiece, Zenon
    <3> QED  BY <2>1, <2>4, <3>1, <3>3, <3>4, Zenon DEF SentAs, rewriteATag
  <2> QED  BY <2>1, <2>2, <2>3, <2>4, Zenon
<1> QED  BY <1>1, <1>3, <1>4

LEMMA PreparedAsStated ==
  ASSUME NEW page, IsText(page), NEW pol
  PROVE  AsStated(preparedHTML(page, pol), page, pol)
<1>1. PICK n \in Nat : n = Len(page) /\ DOMAIN page = 1..n /\ \A i \in 1..n : IsPiece(page[i])
  BY TextFacts
<1>2. PICK stripped :
        /\ stripped = [i \in 1..n |-> SentAs(page[i], pol)]
        /\ preparedHTML(page, pol) =
             IF pol.opens = "off" THEN stripped ELSE insertTrackLinkInHTML(stripped)
  <2>1. PICK linked : linked = Linked(page, pol)
    OBVIOUS
  <2>2. PICK stripped : stripped = stripNoTrackAttrs(linked)
    OBVIOUS
  <2>3. stripped = [i \in 1..n |-> SentAs(page[i], pol)]
    BY <1>1, <2>1, <2>2, SentPieces
  <2>4. preparedHTML(page, pol) =
          IF pol.opens = "off" THEN stripped ELSE insertTrackLinkInHTML(stripped)
    BY <2>1, <2>2, Zenon DEF preparedHTML, Linked
  <2> QED  BY <2>3, <2>4, Zenon
<1>3. PICK sent : sent = preparedHTML(page, pol)
  OBVIOUS
<1>4. PICK ends : ends = {i \in DOMAIN page : page[i] = BodyClose}
  OBVIOUS
<1>5. ends = {i \in 1..n : stripped[i] = BodyClose} /\ \A i \in 1..n : stripped[i] # Pixel
  <2>1. \A i \in 1..n : stripped[i] # Pixel /\ (stripped[i] = BodyClose <=> page[i] = BodyClose)
    <3> TAKE i \in 1..n
    <3>1. stripped[i] = SentAs(page[i], pol) /\ IsPiece(page[i])
      BY <1>1, <1>2
    <3> QED  BY <3>1, SentAsPiece, Zenon
  <2> QED  BY <1>1, <1>4, <2>1
<1>6. DOMAIN stripped = 1..n
  BY <1>2
<1> DEFINE text == {i \in DOMAIN sent : sent[i] # Pixel}
<1>7. CASE pol.opens = "off" \/ ends = {}
  <2>1. sent = stripped
    BY <1>2, <1>3, <1>5, <1>6, <1>7, Zenon DEF insertTrackLinkInHTML
  <2>2. text = 1..n /\ DOMAIN sent \ text = {}
    BY <1>5, <1>6, <2>1
  <2>3. PICK at : at = [i \in 1..n |-> i]
    OBVIOUS
  <2>4. /\ at \in [1..n -> text] /\ \A i, j \in 1..n : i < j => at[i] < at[j]
        /\ \A k \in text : \E i \in 1..n : k = at[i]
    BY <2>2, <2>3
  <2>5. \A i \in 1..n : sent[at[i]] = SentAs(page[i], pol)
    BY <1>2, <2>1, <2>3
  <2>6. DOMAIN sent \ text = IF pol.opens # "off" /\ ends # {} THEN {Min(ends)} ELSE {}
    BY <1>7, <2>2, Zenon
  <2> HIDE DEF text
  <2>7. \E a \in [DOMAIN page -> text] :
           /\ \A i, j \in DOMAIN page : i < j => a[i] < a[j]
           /\ \A k \in text : \E i \in DOMAIN page : k = a[i]
           /\ \A i \in DOMAIN page : sent[a[i]] = SentAs(page[i], pol)
    <3>1. /\ at \in [DOMAIN page -> text]
          /\ \A i, j \in DOMAIN page : i < j => at[i] < at[j]
          /\ \A k \in text : \E i \in DOMAIN page : k = at[i]
          /\ \A i \in DOMAIN page : sent[at[i]] = SentAs(page[i], pol)
      BY <1>1, <2>4, <2>5, Zenon
    <3> QED  BY <3>1
  <2>8. AsStated(sent, page, pol)
    BY <1>4, <2>7, <2>6, Zenon DEF AsStated, text
  <2> QED  BY <1>3, <2>8
<1>8. CASE pol.opens # "off" /\ ends # {}
  <2>1. PICK m : m = Min(ends)
    OBVIOUS
  <2>2. m \in 1..n
    <3>1. ends \in SUBSET Nat /\ ends # {} /\ ends \subseteq 1..n
      BY <1>5, <1>8
    <3> QED  BY <2>1, <3>1, MinOfPositions
  <2>3. sent = InsertAt(stripped, m, Pixel)
    <3>1. {i \in DOMAIN stripped : stripped[i] = BodyClose} = ends
      BY <1>5, <1>6
    <3> QED  BY <1>2, <1>3, <1>8, <2>1, <3>1, Zenon DEF insertTrackLinkInHTML
  <2>4. /\ DOMAIN sent = 1..(n + 1)
        /\ \A j \in 1..(n + 1) :
             sent[j] = IF j < m THEN stripped[j] ELSE IF j = m THEN Pixel ELSE stripped[j - 1]
    <3>1. PICK S : S = {stripped[i] : i \in 1..n} \cup {Pixel}
      OBVIOUS
    <3>2. stripped \in Seq(S) /\ Len(stripped) = n /\ Pixel \in S /\ m \in 1..(n + 1)
      BY <1>2, <2>2, <3>1
    <3>3. IsInserted(sent, stripped, n, m, Pixel)
      BY <2>3, <3>2, Inserted
    <3> QED  BY <3>3 DEF IsInserted, WithPiece
  <2>5. PICK at : at = [i \in 1..n |-> IF i < m THEN i ELSE i + 1]
    OBVIOUS
  <2>6. text = {j \in 1..(n + 1) : j # m} /\ DOMAIN sent \ text = {m}
    <3>1. \A j \in 1..(n + 1) : j # m => sent[j] # Pixel
      <4> TAKE j \in 1..(n + 1)
      <4> HAVE j # m
      <4>1. CASE j < m
        BY <1>5, <2>2, <2>4, <4>1
      <4>2. CASE ~(j < m)
        <5>1. j - 1 \in 1..n /\ sent[j] = stripped[j - 1]
          BY <2>2, <2>4, <4>2
        <5> QED  BY <1>5, <5>1
      <4> QED  BY <4>1, <4>2
    <3>2. sent[m] = Pixel /\ m \in 1..(n + 1)
      BY <2>2, <2>4
    <3> QED  BY <2>4, <3>1, <3>2
  <2>7. /\ at \in [1..n -> text] /\ \A i, j \in 1..n : i < j => at[i] < at[j]
    BY <2>2, <2>5, <2>6
  <2>8. \A k \in text : \E i \in 1..n : k = at[i]
    <3> TAKE k \in text
    <3>1. k \in 1..(n + 1) /\ k # m
      BY <2>6
    <3>2. CASE k < m
      <4>1. k \in 1..n /\ at[k] = k
        BY <2>2, <2>5, <3>1, <3>2
      <4> QED  BY <4>1
    <3>3. CASE ~(k < m)
      <4>1. k - 1 \in 1..n /\ at[k - 1] = k
        BY <2>2, <2>5, <3>1, <3>3
      <4> QED  BY <4>1
    <3> QED  BY <3>2, <3>3
  <2>9. \A i \in 1..n : sent[at[i]] = SentAs(page[i], pol)
    <3> TAKE i \in 1..n
    <3>1. sent[at[i]] = stripped[i]
      BY <2>2, <2>4, <2>5
    <3> QED  BY <1>2, <3>1
  <2>10. DOMAIN sent \ text = IF pol.opens # "off" /\ ends # {} THEN {Min(ends)} ELSE {}
    BY <1>8, <2>1, <2>6, Zenon
  <2> HIDE DEF text
  <2>11. \E a \in [DOMAIN page -> text] :
           /\ \A i, j \in DOMAIN page : i < j => a[i] < a[j]
           /\ \A k \in text : \E i \in DOMAIN page : k = a[i]
           /\ \A i \in DOMAIN page : sent[a[i]] = SentAs(page[i], pol)
    <3>1. /\ at \in [DOMAIN page -> text]
          /\ \A i, j \in DOMAIN page : i < j => at[i] < at[j]
          /\ \A k \in text : \E i \in DOMAIN page : k = at[i]
          /\ \A i \in DOMAIN page : sent[at[i]] = SentAs(page[i], pol)
      BY <1>1, <2>7, <2>8, <2>9, Zenon
    <3> QED  BY <3>1
  <2>12. AsStated(sent, page, pol)
    BY <1>4, <2>11, <2>10, Zenon DEF AsStated, text
  <2> QED  BY <1>3, <2>12
<1> QED  BY <1>7, <1>8
-----------------------------------------------------------------------------
(* The endpoint.  What a piece of it has become after the first m passes.  *)
UrlPiece(fields, order, m, p, q) ==
  IF p.kind # "hole" THEN q = p
  ELSE (q = p /\ \A l \in 1..m : ~Matches(order[l], p.of)) \/ FillsHole(fields, p, q)

Passed(q, key, v) == IF q.kind = "a" THEN Tag(Filled(q.href, key, v), q.opts) ELSE Filled(q, key, v)

InUrl(p) == p.kind \in {"word", "hole"}

LEMMA CodedFacts ==
  ASSUME NEW v
  PROVE  /\ QueryEscape(v).kind = "coded" /\ IsPiece(QueryEscape(v))
         /\ Expand(QueryEscape(v)) = QueryEscape(v)
<1>1. PICK q : q = QueryEscape(v)
  OBVIOUS
<1>2. q.kind = "coded"
  BY <1>1 DEF QueryEscape
<1>3. Expansion.kind = "dollar"
  BY DEF Expansion, Piece
<1>4. q.kind # "dollar" /\ q.kind # "pixel" /\ q.kind # "a"
  BY <1>2
<1> QED  BY <1>1, <1>2, <1>3, <1>4, Zenon DEF Expand, IsPiece

LEMMA UrlPieceStays ==
  ASSUME NEW fields, NEW order, NEW m \in Nat, NEW p, InUrl(p), NEW q,
         UrlPiece(fields, order, m, p, q), NEW key \in DOMAIN fields, order[m + 1] = key
  PROVE  UrlPiece(fields, order, m + 1, p, Passed(q, key, QueryEscape(fields[key])))
<1>1. CASE p.kind # "hole"
  <2>1. q = p /\ p.kind = "word"
    BY <1>1, Zenon DEF UrlPiece, InUrl
  <2>2. p.kind # "a"
    BY <2>1
  <2>3. Passed(q, key, QueryEscape(fields[key])) = p
    BY <1>1, <2>1, <2>2, Zenon DEF Passed, Filled
  <2> QED  BY <1>1, <2>3, Zenon DEF UrlPiece
<1>2. CASE p.kind = "hole" /\ FillsHole(fields, p, q)
  <2>1. q.kind = "coded"
    BY <1>2, CodedFacts, Zenon DEF FillsHole
  <2>2. q.kind # "a" /\ q.kind # "hole"
    BY <2>1
  <2>3. Passed(q, key, QueryEscape(fields[key])) = q
    BY <2>2, Zenon DEF Passed, Filled
  <2> QED  BY <1>2, <2>3, Zenon DEF UrlPiece
<1>3. CASE p.kind = "hole" /\ ~FillsHole(fields, p, q)
  <2>1. q = p /\ \A l \in 1..m : ~Matches(order[l], p.of)
    BY <1>3, Zenon DEF UrlPiece
  <2>2. p.kind # "a"
    BY <1>3
  <2>3. Passed(q, key, QueryEscape(fields[key])) = Filled(p, key, QueryEscape(fields[key]))
    BY <2>1, <2>2, Zenon DEF Passed
  <2>4. CASE Matches(key, p.of)
    <3>1. Filled(p, key, QueryEscape(fields[key])) = QueryEscape(fields[key])
      BY <1>3, <2>4, Zenon DEF Filled
    <3>2. FillsHole(fields, p, QueryEscape(fields[key]))
      BY <2>4, Zenon DEF FillsHole
    <3> QED  BY <1>3, <2>3, <3>1, <3>2, Zenon DEF UrlPiece
  <2>5. CASE ~Matches(key, p.of)
    <3>1. Filled(p, key, QueryEscape(fields[key])) = p
      BY <2>5, Zenon DEF Filled
    <3>2. \A l \in 1..(m + 1) : l \in 1..m \/ l = m + 1
      OBVIOUS
    <3>3. \A l \in 1..(m + 1) : ~Matches(order[l], p.of)
      BY <2>1, <2>5, <3>2, Zenon
    <3> QED  BY <1>3, <2>3, <3>1, <3>3, Zenon DEF UrlPiece
  <2> QED  BY <2>4, <2>5
<1> QED  BY <1>1, <1>2, <1>3

(* What one order of the fields makes of the endpoint.                     *)
LEMMA UrlFilled ==
  ASSUME NEW u, IsText(u), \A i \in DOMAIN u : u[i].kind \in {"word", "hole"},
         NEW fields, IsFiniteSet(DOMAIN fields), NEW t \in ReplaceCustomFieldsInURL(u, fields)
  PROVE  /\ DOMAIN t = DOMAIN u /\ Len(t) = Len(u)
         /\ \A i \in DOMAIN u :
              \/ u[i].kind # "hole" /\ t[i] = u[i]
              \/ u[i].kind = "hole" /\ FillsHole(fields, u[i], t[i])
              \/ /\ u[i].kind = "hole" /\ t[i] = u[i]
                 /\ \A key \in DOMAIN fields : ~Matches(key, u[i].of)
<1>1. PICK values : values = [k \in DOMAIN fields |-> QueryEscape(fields[k])]
  OBVIOUS
<1>2. PICK K : K = DOMAIN fields /\ K = DOMAIN values
  BY <1>1
<1>3. t \in replaceCustomFields(u, values)
  BY <1>1, Zenon DEF ReplaceCustomFieldsInURL
<1>4. \A key \in K : values[key] = QueryEscape(fields[key])
  BY <1>1, <1>2
<1>5. \A key \in DOMAIN values : IsPiece(values[key])
  BY <1>2, <1>4, CodedFacts, Zenon
<1>6. PICK order \in SetToSeqs(K) : t = InOrder(u, values, order)
  BY <1>2, <1>3 DEF replaceCustomFields
<1>7. PICK n \in Nat : /\ n = Len(order) /\ order \in [1..n -> K]
                       /\ \A k \in K : \E m \in 1..n : order[m] = k
  BY <1>2, <1>6, OrderFacts
<1>8. PICK g : /\ g[0] = u /\ t = g[n]
               /\ \A m \in 1..n : g[m] = Pass(g[m - 1], values, order, m)
  BY <1>6, <1>7, InOrderPasses
<1>9. PICK w \in Nat : w = Len(u) /\ DOMAIN u = 1..w
  BY TextFacts
<1> DEFINE S == {m \in Nat : m <= n => /\ IsText(g[m]) /\ Len(g[m]) = w
                                       /\ \A i \in 1..w : UrlPiece(fields, order, m, u[i], g[m][i])}
<1>10. 0 \in S
  <2>1. \A i \in 1..w : UrlPiece(fields, order, 0, u[i], u[i])
    <3>1. \A l \in 1..0 : FALSE
      OBVIOUS
    <3> QED  BY <3>1, Zenon DEF UrlPiece
  <2> QED  BY <1>8, <1>9, <2>1
<1>11. \A m \in Nat : m \in S => m + 1 \in S
  <2> TAKE m \in Nat
  <2> HAVE m \in S
  <2> SUFFICES ASSUME m + 1 <= n
               PROVE  /\ IsText(g[m + 1]) /\ Len(g[m + 1]) = w
                      /\ \A i \in 1..w : UrlPiece(fields, order, m + 1, u[i], g[m + 1][i])
    OBVIOUS
  <2>1. m + 1 \in 1..n /\ (m + 1) - 1 = m /\ m <= n
    OBVIOUS
  <2>2. PICK s : s = g[m] /\ IsText(s) /\ Len(s) = w /\ \A i \in 1..w : UrlPiece(fields, order, m, u[i], s[i])
    BY <2>1
  <2>3. PICK key \in K : key = order[m + 1]
    BY <1>7, <2>1
  <2>4. PICK v : v = QueryEscape(fields[key]) /\ IsPiece(v)
    BY CodedFacts
  <2>5. Expand(values[order[m + 1]]) = v
    BY <1>4, <2>3, <2>4, CodedFacts, Zenon
  <2>6. g[m + 1] = Substituted(s, key, v)
    BY <1>8, <2>1, <2>2, <2>3, <2>5 DEF Pass
  <2>7. IsText(g[m + 1]) /\ Len(g[m + 1]) = w
    BY <2>2, <2>4, <2>6, SubstitutedIsText
  <2>8. ASSUME NEW i \in 1..w PROVE UrlPiece(fields, order, m + 1, u[i], g[m + 1][i])
    <3>1. DOMAIN s = 1..w
      BY <2>2, TextFacts
    <3>2. g[m + 1][i] = Passed(s[i], key, v)
      BY <2>6, <2>8, <3>1, Zenon DEF Substituted, Passed
    <3>3. InUrl(u[i]) /\ UrlPiece(fields, order, m, u[i], s[i])
      BY <1>9, <2>2, <2>8, Zenon DEF InUrl
    <3>4. PICK p, q : p = u[i] /\ q = s[i]
      OBVIOUS
    <3>5. UrlPiece(fields, order, m + 1, p, Passed(q, key, QueryEscape(fields[key])))
      BY <1>2, <2>3, <3>3, <3>4, UrlPieceStays
    <3> QED  BY <2>4, <3>2, <3>4, <3>5, Zenon
  <2> QED  BY <2>7, <2>8
<1> HIDE DEF S
<1>12. n \in S
  BY <1>10, <1>11, Induction
<1>13. IsText(t) /\ Len(t) = w /\ \A i \in 1..w : UrlPiece(fields, order, n, u[i], t[i])
  BY <1>8, <1>12 DEF S
<1>14. DOMAIN t = 1..w
  BY <1>13, TextFacts
<1>15. ASSUME NEW i \in DOMAIN u
       PROVE  \/ u[i].kind # "hole" /\ t[i] = u[i]
              \/ u[i].kind = "hole" /\ FillsHole(fields, u[i], t[i])
              \/ /\ u[i].kind = "hole" /\ t[i] = u[i]
                 /\ \A key \in DOMAIN fields : ~Matches(key, u[i].of)
  <2>1. UrlPiece(fields, order, n, u[i], t[i])
    BY <1>9, <1>13, <1>15, Zenon
  <2>2. (\A l \in 1..n : ~Matches(order[l], u[i].of)) => \A key \in DOMAIN fields : ~Matches(key, u[i].of)
    BY <1>2, <1>7, Zenon
  <2> QED  BY <2>1, <2>2, Zenon DEF UrlPiece
<1> QED  BY <1>9, <1>13, <1>14, <1>15, Zenon

(* An endpoint that one order of the fields resolves is resolved by all.   *)
LEMMA ResolvedAlways ==
  ASSUME NEW u, IsText(u), \A i \in DOMAIN u : u[i].kind \in {"word", "hole"}, ~IsZero(u),
         NEW email, NEW f, FALSE \in unresolvedUnsubscribeURL(u, email, f),
         NEW fields, fields = EffectiveFields(email, f), IsFiniteSet(DOMAIN fields),
         NEW url \in resolveUnsubscribeURL(u, fields)
  PROVE  FilledIn(url, u, fields) /\ url # <<>>
<1>1. PICK s \in ReplaceCustomFieldsInURL(u, fields) : ~HasUnresolvedPlaceholders(s)
  BY Zenon DEF unresolvedUnsubscribeURL
<1>2. \A i \in DOMAIN u : u[i].kind = "hole" => \E key \in DOMAIN fields : Matches(key, u[i].of)
  <2> TAKE i \in DOMAIN u
  <2> HAVE u[i].kind = "hole"
  <2>1. DOMAIN s = DOMAIN u
    BY <1>1, UrlFilled, Zenon
  <2>2. s[i].kind # "hole"
    BY <1>1, <2>1, Zenon DEF HasUnresolvedPlaceholders
  <2>3. FillsHole(fields, u[i], s[i])
    BY <1>1, <2>2, UrlFilled, Zenon
  <2> QED  BY <2>3, Zenon DEF FillsHole
<1>3. PICK t \in ReplaceCustomFieldsInURL(u, fields) :
        url = IF HasUnresolvedPlaceholders(t) THEN <<>> ELSE t
  <2>1. PICK R : R = ReplaceCustomFieldsInURL(u, fields)
    OBVIOUS
  <2>2. url \in {IF HasUnresolvedPlaceholders(t) THEN <<>> ELSE t : t \in R}
    BY <2>1, Zenon DEF resolveUnsubscribeURL
  <2>3. PICK t \in R : url = IF HasUnresolvedPlaceholders(t) THEN <<>> ELSE t
    BY <2>2
  <2> QED  BY <2>1, <2>3
<1>4. DOMAIN t = DOMAIN u /\ Len(t) = Len(u)
  BY UrlFilled, Zenon
<1>5. \A i \in DOMAIN u : IF u[i].kind = "hole" THEN FillsHole(fields, u[i], t[i]) ELSE t[i] = u[i]
  <2> TAKE i \in DOMAIN u
  <2>1. \/ u[i].kind # "hole" /\ t[i] = u[i]
        \/ u[i].kind = "hole" /\ FillsHole(fields, u[i], t[i])
        \/ u[i].kind = "hole" /\ \A key \in DOMAIN fields : ~Matches(key, u[i].of)
    BY UrlFilled, Zenon
  <2> QED  BY <1>2, <2>1, Zenon
<1>6. ~HasUnresolvedPlaceholders(t)
  <2> SUFFICES ASSUME NEW i \in DOMAIN u, t[i].kind = "hole" PROVE FALSE
    BY <1>4, Zenon DEF HasUnresolvedPlaceholders
  <2>1. FillsHole(fields, u[i], t[i])
    BY <1>5, Zenon
  <2>2. t[i].kind = "coded"
    BY <2>1, CodedFacts, Zenon DEF FillsHole
  <2> QED  BY <2>2
<1>7. url = t
  BY <1>3, <1>6, Zenon
<1>8. url # <<>>
  <2>1. u # <<>>
    BY DEF IsZero
  <2>2. PICK n \in Nat : n = Len(u) /\ DOMAIN u = 1..n /\ u = [i \in 1..n |-> u[i]]
    BY TextFacts
  <2>3. n # 0
    <3> SUFFICES ASSUME n = 0 PROVE FALSE
      OBVIOUS
    <3>1. DOMAIN u = {} /\ u = [i \in {} |-> u[i]]
      BY <2>2
    <3>2. u = <<>>
      BY <2>2, <3>1
    <3> QED  BY <2>1, <3>2
  <2>4. Len(url) = n
    BY <1>4, <1>7, <2>2
  <2> QED  BY <2>3, <2>4
<1> QED  BY <1>4, <1>5, <1>7, <1>8, Zenon DEF FilledIn

-----------------------------------------------------------------------------
(* Headers: each name of the map comes once.                               *)
IsList(s, n) == s = [i \in 1..n |-> s[i]]

HeadersOf(headers, n, h) ==
  \A name \in DOMAIN h : \E at \in 1..n :
    headers[at] = Header(name, h[name]) /\ \A i \in 1..n : headers[i].name = name <=> i = at

LEMMA OncePerName ==
  ASSUME NEW h, IsFiniteSet(DOMAIN h), NEW html, NEW headers, headers = renderMsg(html, h).headers
  PROVE  \E n \in Nat : IsList(headers, n) /\ HeadersOf(headers, n, h)
<1>1. PICK K : K = DOMAIN h
  OBVIOUS
<1>2. PICK names : names = SetToSeq(K)
  OBVIOUS
<1>3. PICK n \in Nat : n = Cardinality(K) /\ ExistsBijection(1..n, K)
  BY <1>1, FS_CardinalityType
<1>4. names \in [1..n -> K] /\ IsInjective(names)
  <2>1. \E f \in [1..n -> K] : IsInjective(f)
    BY <1>3 DEF ExistsBijection, Bijection, Injection
  <2> QED  BY <1>2, <1>3, <2>1, Zenon DEF SetToSeq
<1>5. \A name \in K : \E at \in 1..n : names[at] = name
  <2>1. names \in Injection(1..n, K)
    BY <1>4 DEF Injection
  <2>2. IsFiniteSet(1..n) /\ Cardinality(1..n) = n
    BY FS_Interval
  <2>3. names \in Surjection(1..n, K)
    BY <1>1, <1>3, <2>1, <2>2, FS_Injection
  <2> QED  BY <2>3 DEF Surjection
<1>6. headers = [i \in 1..n |-> Header(names[i], h[names[i]])]
  <2>1. DOMAIN names = 1..n
    BY <1>4
  <2> QED  BY <1>1, <1>2, <2>1 DEF renderMsg
<1>7. \A a, v : Header(a, v).name = a
  BY DEF Header
<1>8. \A i \in 1..n : headers[i] = Header(names[i], h[names[i]]) /\ headers[i].name = names[i]
  BY <1>6, <1>7
<1>9. ASSUME NEW name \in K
      PROVE  \E at \in 1..n : /\ headers[at] = Header(name, h[name])
                              /\ \A i \in 1..n : headers[i].name = name <=> i = at
  <2>1. PICK at \in 1..n : names[at] = name
    BY <1>5
  <2>2. headers[at] = Header(name, h[name])
    BY <1>8, <2>1
  <2>3. \A i \in 1..n : names[i] = name <=> i = at
    BY <1>4, <2>1 DEF IsInjective
  <2>4. \A i \in 1..n : headers[i].name = name <=> i = at
    BY <1>8, <2>3
  <2> QED  BY <2>2, <2>4
<1>10. IsList(headers, n)
  BY <1>6 DEF IsList
<1>11. HeadersOf(headers, n, h)
  BY <1>1, <1>9, Zenon DEF HeadersOf
<1> QED  BY <1>10, <1>11

LEMMA PairFacts ==
  ASSUME NEW a, NEW b
  PROVE  IsFiniteSet({a, b}) /\ (a # b => Cardinality({a, b}) = 2)
<1>1. PICK S : S = {a} /\ IsFiniteSet(S) /\ Cardinality(S) = 1
  BY FS_Singleton
<1>2. PICK T : T = S \cup {b}
  OBVIOUS
<1>3. IsFiniteSet(T) /\ Cardinality(T) = IF b \in S THEN Cardinality(S) ELSE Cardinality(S) + 1
  BY <1>1, <1>2, FS_AddElement, Zenon
<1>4. T = {a, b} /\ (a # b => b \notin S)
  BY <1>1, <1>2
<1> QED  BY <1>1, <1>3, <1>4

LEMMA UnsubscribeHeaders ==
  ASSUME NEW subject, NEW d, NEW url, url # <<>>, NEW h, h = buildHeaders(subject, d, url)
  PROVE  /\ IsFiniteSet(DOMAIN h)
         /\ "ListUnsubscribe" \in DOMAIN h /\ "ListUnsubscribePost" \in DOMAIN h
         /\ h["ListUnsubscribe"] = url /\ h["ListUnsubscribePost"] = <<Word("One-Click")>>
<1>1. PICK A : A = {"Subject", "From", "MessageID", "To"} /\ IsFiniteSet(A)
  <2>1. PICK X, Y : X = {"Subject", "From"} /\ Y = {"MessageID", "To"}
    OBVIOUS
  <2>2. IsFiniteSet(X) /\ IsFiniteSet(Y)
    BY <2>1, PairFacts, Zenon
  <2>3. IsFiniteSet(X \cup Y)
    BY <2>2, FS_Union
  <2>4. X \cup Y = {"Subject", "From", "MessageID", "To"}
    BY <2>1
  <2> QED  BY <2>3, <2>4
<1>2. PICK B : B = (IF d.headers.Cc = <<>> THEN {} ELSE {"Cc"}) /\ IsFiniteSet(B)
  BY FS_Singleton, FS_EmptySet
<1>3. PICK C : C = {"ListUnsubscribe", "ListUnsubscribePost"} /\ IsFiniteSet(C)
  <2>1. IsFiniteSet({"ListUnsubscribe", "ListUnsubscribePost"})
    BY PairFacts, Zenon
  <2> QED  BY <2>1, Zenon
<1>4. DOMAIN h = A \cup B \cup C
  BY <1>1, <1>2, <1>3 DEF buildHeaders
<1>5. IsFiniteSet(A \cup B \cup C)
  BY <1>1, <1>2, <1>3, FS_Union
<1>6. h["ListUnsubscribe"] = url /\ h["ListUnsubscribePost"] = <<Word("One-Click")>>
  BY <1>3, <1>4 DEF buildHeaders
<1> QED  BY <1>3, <1>4, <1>5, <1>6

-----------------------------------------------------------------------------
(* The signature names each of the two once more than it is there.         *)
IsSignedTwice(name) ==
  \E k \in DOMAIN dkimSignedHeaders :
    dkimSignedHeaders[k] = name /\ Cardinality({j \in 1..k : dkimSignedHeaders[j] = name}) = 2

LEMMA SignedTwice ==
  ASSUME NEW name \in {"ListUnsubscribe", "ListUnsubscribePost"}
  PROVE  IsSignedTwice(name)
<1>2. DOMAIN dkimSignedHeaders = 1..9
  BY DEF dkimSignedHeaders
<1>3. CASE name = "ListUnsubscribe"
  <2>1. \A j \in 1..7 : dkimSignedHeaders[j] = "ListUnsubscribe" <=> j \in {6, 7}
    BY DEF dkimSignedHeaders
  <2>2. {j \in 1..7 : dkimSignedHeaders[j] = name} = {6, 7}
    BY <1>3, <2>1
  <2>3. Cardinality({6, 7}) = 2
    <3>1. 6 # 7
      OBVIOUS
    <3> QED  BY <3>1, PairFacts, Zenon
  <2> QED  BY <1>2, <1>3, <2>1, <2>2, <2>3 DEF IsSignedTwice
<1>4. CASE name = "ListUnsubscribePost"
  <2>1. \A j \in 1..9 : dkimSignedHeaders[j] = "ListUnsubscribePost" <=> j \in {8, 9}
    BY DEF dkimSignedHeaders
  <2>2. {j \in 1..9 : dkimSignedHeaders[j] = name} = {8, 9}
    BY <1>4, <2>1
  <2>3. Cardinality({8, 9}) = 2
    <3>1. 8 # 9
      OBVIOUS
    <3> QED  BY <3>1, PairFacts, Zenon
  <2> QED  BY <1>2, <1>4, <2>1, <2>2, <2>3 DEF IsSignedTwice
<1> QED  BY <1>3, <1>4

(* A header that is there once is covered once, and then as not there.     *)
LEMMA CoveredOnce ==
  ASSUME NEW headers, NEW n \in Nat, DOMAIN headers = 1..n, NEW name, NEW at \in 1..n,
         \A i \in 1..n : headers[i].name = name <=> i = at
  PROVE  FromBottom(headers, name, 2) = Header(name, <<>>)
<1>1. PICK here : here = {i \in DOMAIN headers : headers[i].name = name}
  OBVIOUS
<1>2. here = {at}
  BY <1>1
<1>3. {j \in here : j >= at} = {at}
  BY <1>2
<1>4. Cardinality({at}) = 1
  BY FS_Singleton
<1>5. {i \in here : Cardinality({j \in here : j >= i}) = 2} = {}
  <2> SUFFICES ASSUME NEW i \in here, Cardinality({j \in here : j >= i}) = 2 PROVE FALSE
    OBVIOUS
  <2>1. i = at
    BY <1>2
  <2>2. Cardinality({j \in here : j >= i}) = 1
    BY <1>3, <1>4, <2>1
  <2> QED  BY <2>2
<1> QED  BY <1>1, <1>5, Zenon DEF FromBottom

(* With a second one, the upper of the two is covered.                     *)
LEMMA CoveredTwice ==
  ASSUME NEW headers, NEW n \in Nat, DOMAIN headers = 1..n, NEW name,
         NEW a \in 1..n, NEW b \in 1..n, a < b,
         \A i \in 1..n : headers[i].name = name <=> i \in {a, b}
  PROVE  \E i \in {a, b} : FromBottom(headers, name, 2) = headers[i]
<1>1. PICK here : here = {i \in DOMAIN headers : headers[i].name = name}
  OBVIOUS
<1>2. here = {a, b}
  BY <1>1
<1>3. {j \in here : j >= a} = {a, b}
  BY <1>2
<1>4. Cardinality({a, b}) = 2
  <2>1. a # b
    OBVIOUS
  <2> QED  BY <2>1, PairFacts, Zenon
<1>5. PICK top : top = {i \in here : Cardinality({j \in here : j >= i}) = 2}
  OBVIOUS
<1>6. a \in top /\ top \subseteq {a, b}
  BY <1>2, <1>3, <1>4, <1>5
<1>7. FromBottom(headers, name, 2) = headers[CHOOSE i \in top : TRUE]
  <2>1. top # {}
    BY <1>6
  <2> QED  BY <1>1, <1>5, <2>1, Zenon DEF FromBottom
<1>8. (CHOOSE i \in top : TRUE) \in top
  BY <1>6, Zenon
<1> QED  BY <1>6, <1>7, <1>8, Zenon

(* Whichever place it is put in, it or the one that was there is covered.  *)
LEMMA CoveredAdded ==
  ASSUME NEW S, NEW headers \in Seq(S), NEW n \in Nat, Len(headers) = n, NEW name,
         NEW at \in 1..n, \A i \in 1..n : headers[i].name = name <=> i = at,
         NEW other \in S, other.name = name, NEW i \in 1..(n + 1),
         NEW more, more = InsertAt(headers, i, other)
  PROVE  FromBottom(more, name, 2) \in {other, headers[at]}
<1>1. DOMAIN more = 1..(n + 1) /\ \A j \in 1..(n + 1) : more[j] = WithPiece(headers, i, other, j)
  <2>1. IsInserted(more, headers, n, i, other)
    BY Inserted
  <2> QED  BY <2>1, Zenon DEF IsInserted
<1>2. PICK b \in 1..(n + 1) : b = IF at < i THEN at ELSE at + 1
  OBVIOUS
<1>3. more[i] = other /\ more[b] = headers[at] /\ i # b
  BY <1>1, <1>2 DEF WithPiece
<1>4. \A j \in 1..(n + 1) : more[j].name = name <=> j \in {i, b}
  <2> TAKE j \in 1..(n + 1)
  <2>1. CASE j \in {i, b}
    BY <1>3, <2>1
  <2>2. CASE j < i /\ j # b
    <3>1. j \in 1..n /\ more[j] = headers[j] /\ j # at
      BY <1>1, <1>2, <2>2 DEF WithPiece
    <3> QED  BY <2>2, <3>1
  <2>3. CASE j > i /\ j # b
    <3>1. j - 1 \in 1..n /\ more[j] = headers[j - 1] /\ j - 1 # at
      BY <1>1, <1>2, <2>3 DEF WithPiece
    <3> QED  BY <2>3, <3>1
  <2> QED  BY <2>1, <2>2, <2>3
<1>5. \E j \in {i, b} : FromBottom(more, name, 2) = more[j]
  <2>1. CASE i < b
    BY <1>1, <1>4, <2>1, CoveredTwice
  <2>2. CASE b < i
    <3>1. \A j \in 1..(n + 1) : more[j].name = name <=> j \in {b, i}
      BY <1>4
    <3>2. \E j \in {b, i} : FromBottom(more, name, 2) = more[j]
      BY <1>1, <2>2, <3>1, CoveredTwice
    <3> QED  BY <3>2
  <2> QED  BY <1>3, <2>1, <2>2
<1> QED  BY <1>3, <1>5, Zenon

LEMMA SealedOnce ==
  ASSUME NEW name, IsSignedTwice(name), NEW msg, NEW headers, headers = msg.headers,
         NEW n \in Nat, IsList(headers, n),
         NEW at \in 1..n, \A i \in 1..n : headers[i].name = name <=> i = at,
         NEW value, value # <<>>, headers[at] = Header(name, value)
  PROVE  Sealed(signMessage(msg), name)
<1>1. PICK k \in DOMAIN dkimSignedHeaders :
        dkimSignedHeaders[k] = name /\ Cardinality({j \in 1..k : dkimSignedHeaders[j] = name}) = 2
  BY DEF IsSignedTwice
<1>2. \A hs : Covered(hs)[k] = FromBottom(hs, name, 2)
  BY <1>1, Zenon DEF Covered
<1>3. PICK signed : signed = signMessage(msg)
  OBVIOUS
<1>4. signed.msg = msg /\ signed.signature = Covered(headers)
  BY <1>3 DEF signMessage
<1>5. PICK other : other = Header(name, <<Word("other")>>)
  OBVIOUS
<1>6. other.name = name /\ other.value # <<>>
  <2>1. PICK w : w = Word("other")
    OBVIOUS
  <2>2. other.name = name /\ other.value = <<w>>
    BY <1>5, <2>1 DEF Header
  <2> QED  BY <2>2
<1>7. ASSUME NEW i \in 1..(n + 1), NEW more, more = InsertAt(headers, i, other)
      PROVE  ~Authenticates(signed, more)
  <2>1. FromBottom(more, name, 2) \in {other, headers[at]}
    <3>1. PICK S : S = {headers[j] : j \in 1..n} \cup {other}
      OBVIOUS
    <3>2. headers \in Seq(S) /\ Len(headers) = n /\ other \in S
      BY <3>1 DEF IsList
    <3> QED  BY <1>6, <1>7, <3>2, CoveredAdded
  <2>2. FromBottom(more, name, 2).value # <<>>
    <3>1. headers[at].value = value
      BY DEF Header
    <3> QED  BY <1>6, <2>1, <3>1, Zenon
  <2>3. FromBottom(headers, name, 2).value = <<>>
    <3>1. FromBottom(headers, name, 2) = Header(name, <<>>)
      <4>1. DOMAIN headers = 1..n
        BY DEF IsList
      <4> QED  BY <4>1, CoveredOnce
    <3> QED  BY <3>1 DEF Header
  <2>4. Covered(more) # Covered(headers)
    BY <1>2, <2>2, <2>3, Zenon
  <2> QED  BY <1>4, <2>4, Zenon DEF Authenticates
<1>8. Len(headers) = n
  BY DEF IsList
<1>9. \A i \in 1..(n + 1) : ~Authenticates(signed, InsertAt(headers, i, other))
  BY <1>7
<1> QED  BY <1>3, <1>4, <1>5, <1>8, <1>9, Zenon DEF Sealed

-----------------------------------------------------------------------------
(* What is taken in, and what is built of it.                              *)
IsDraft(d) ==
  /\ IsText(d.html) /\ IsText(d.unsubscribe)
  /\ \A i \in DOMAIN d.unsubscribe : d.unsubscribe[i].kind \in {"word", "hole"}
  /\ IsFiniteSet(DOMAIN d.fields) /\ \A key \in DOMAIN d.fields : IsPiece(d.fields[key])

LEMMA DraftsAreDrafts ==
  ASSUME NEW d \in Drafts PROVE IsDraft(d)
<1>1. ASSUME NEW html, NEW f, NEW pol, NEW u, d = Draft(html, f, pol, u)
      PROVE  d.html = html /\ d.fields = f /\ d.unsubscribe = u
  BY <1>1 DEF Draft
<1>2. IsText(<<>>) /\ DOMAIN <<>> = {}
  <2>1. PICK t : t = <<>>
    OBVIOUS
  <2>2. t = [i \in 1..0 |-> t[i]] /\ \A i \in 1..0 : IsPiece(t[i])
    BY <2>1
  <2>3. IsText(t) /\ DOMAIN t = 1..0
    BY <2>2, TextOf
  <2> QED  BY <2>1, <2>3
<1>3. IsText(<<BodyClose>>)
  <2>1. PICK c : c = BodyClose
    OBVIOUS
  <2>2. IsPiece(c)
    <3>1. c.kind = "close"
      BY <2>1 DEF BodyClose, Piece
    <3> QED  BY <3>1 DEF IsPiece
  <2>3. PICK t : t = <<c>>
    OBVIOUS
  <2>4. t = [i \in 1..1 |-> t[i]] /\ \A i \in 1..1 : t[i] = c
    BY <2>3
  <2> QED  BY <2>1, <2>2, <2>3, <2>4, TextOf
<1>4. ASSUME NEW html \in Pages, NEW f \in FieldMaps, NEW pol, d = Draft(html, f, pol, <<>>)
      PROVE  IsDraft(d)
  <2>1. d.html = html /\ d.fields = f /\ d.unsubscribe = <<>>
    BY <1>1, <1>4
  <2> QED  BY <1>2, <2>1, RenderAssumption, Zenon DEF IsDraft, RenderAssumption
<1>5. ASSUME NEW f \in FieldMaps, NEW u \in Endpoints, NEW pol, d = Draft(<<BodyClose>>, f, pol, u)
      PROVE  IsDraft(d)
  <2>1. d.html = <<BodyClose>> /\ d.fields = f /\ d.unsubscribe = u
    BY <1>1, <1>5
  <2> QED  BY <1>3, <2>1, RenderAssumption, Zenon DEF IsDraft, RenderAssumption
<1>6. CASE d \in {Draft(html, f, pol, <<>>) : html \in Pages, f \in FieldMaps, pol \in Policies}
  <2>1. PICK html \in Pages, f \in FieldMaps, pol \in Policies : d = Draft(html, f, pol, <<>>)
    BY <1>6
  <2> QED  BY <2>1, <1>4, Zenon
<1>7. PICK off : off = [links |-> "off", opens |-> "off"]
  OBVIOUS
<1>8. CASE d \in {Draft(<<BodyClose>>, f, off, u) : f \in FieldMaps, u \in Endpoints}
  <2>1. PICK f \in FieldMaps, u \in Endpoints : d = Draft(<<BodyClose>>, f, off, u)
    BY <1>8
  <2> QED  BY <2>1, <1>5, Zenon
<1> QED  BY <1>6, <1>7, <1>8 DEF Drafts

(* What an Envelope of a draft carries.                                    *)
LEMMA EnvelopeOf ==
  ASSUME NEW d, NEW env \in Envelopes(d)
  PROVE  \E html \in ReplaceCustomFields(d.html, EffectiveFields(d.email, d.fields)),
            subject \in ReplaceCustomFields(d.subject, EffectiveFields(d.email, d.fields)),
            url \in resolveUnsubscribeURL(d.unsubscribe, EffectiveFields(d.email, d.fields)) :
           env.body = signMessage(renderMsg(preparedHTML(html, d.policy),
                                            buildHeaders(subject, d, url)))
<1>1. PICK b \in Built(d) : env = ToEnvelope(FromEnvelope(b))
  BY DEF Envelopes
<1>2. env.body = b.body
  BY <1>1 DEF ToEnvelope, FromEnvelope
<1>3. PICK msg \in prepareMessage(d) : b.body = signMessage(msg)
  <2>1. PICK msg \in prepareMessage(d) :
          b = [emailId |-> d.email, from |-> d.sender, to |-> d.email, returnPath |-> d.email,
               body |-> signMessage(msg), shouldRetry |-> d.canRetry]
    BY Zenon DEF Built
  <2>2. PICK s : s = signMessage(msg)
    OBVIOUS
  <2>3. b.body = s
    BY <2>1, <2>2
  <2> QED  BY <2>2, <2>3
<1>4. PICK html \in ReplaceCustomFields(d.html, EffectiveFields(d.email, d.fields)),
         subject \in ReplaceCustomFields(d.subject, EffectiveFields(d.email, d.fields)),
         url \in resolveUnsubscribeURL(d.unsubscribe, EffectiveFields(d.email, d.fields)) :
           msg = renderMsg(preparedHTML(html, d.policy), buildHeaders(subject, d, url))
  <2>1. msg \in {renderMsg(preparedHTML(html, d.policy), buildHeaders(subject, d, url)) :
                   html \in ReplaceCustomFields(d.html, EffectiveFields(d.email, d.fields)),
                   subject \in ReplaceCustomFields(d.subject, EffectiveFields(d.email, d.fields)),
                   url \in resolveUnsubscribeURL(d.unsubscribe, EffectiveFields(d.email, d.fields))}
    BY DEF prepareMessage
  <2> QED  BY <2>1
<1>5. env.body = signMessage(renderMsg(preparedHTML(html, d.policy),
                                       buildHeaders(subject, d, url)))
  BY <1>2, <1>3, <1>4, Zenon
<1> QED  BY <1>5

LEMMA EnvelopeHTML ==
  ASSUME NEW d, IsDraft(d), NEW env \in Envelopes(d)
  PROVE  \E page \in ReplaceCustomFields(d.html, EffectiveFields(d.email, d.fields)) :
           AsStated(env.body.msg.html, page, d.policy)
<1>1. PICK fields : fields = EffectiveFields(d.email, d.fields)
  OBVIOUS
<1>2. PICK html \in ReplaceCustomFields(d.html, fields) :
        \E h : env.body = signMessage(renderMsg(preparedHTML(html, d.policy), h))
  BY <1>1, EnvelopeOf, Zenon
<1>3. env.body.msg.html = preparedHTML(html, d.policy)
  <2> PICK h : env.body = signMessage(renderMsg(preparedHTML(html, d.policy), h))
    BY <1>2
  <2>1. PICK x : x = preparedHTML(html, d.policy)
    OBVIOUS
  <2>2. PICK m : m = renderMsg(x, h)
    OBVIOUS
  <2>3. m.html = x
    BY <2>2 DEF renderMsg
  <2>4. signMessage(m).msg = m
    BY DEF signMessage
  <2> QED  BY <2>1, <2>2, <2>3, <2>4, Zenon
<1>4. IsFiniteSet(DOMAIN fields) /\ \A key \in DOMAIN fields : IsPiece(fields[key])
  BY <1>1, EffectiveIsPieces DEF IsDraft
<1>5. IsText(html)
  <2>1. html \in replaceCustomFields(d.html, fields) /\ IsText(d.html)
    BY Zenon DEF ReplaceCustomFields, IsDraft
  <2>2. PICK str : str = d.html
    OBVIOUS
  <2> QED  BY <1>4, <2>1, <2>2, FilledIsText
<1>6. AsStated(preparedHTML(html, d.policy), html, d.policy)
  BY <1>5, PreparedAsStated
<1> QED  BY <1>1, <1>3, <1>6, Zenon

LEMMA EnvelopeUnsubscribes ==
  ASSUME NEW d, IsDraft(d), TakenIn(d), ~IsZero(d.unsubscribe), NEW env \in Envelopes(d)
  PROVE  /\ ValuesOf(env.body.msg.headers, "ListUnsubscribePost") = {<<Word("One-Click")>>}
         /\ \E url \in ValuesOf(env.body.msg.headers, "ListUnsubscribe") :
              FilledIn(url, d.unsubscribe, EffectiveFields(d.email, d.fields))
         /\ Sealed(env.body, "ListUnsubscribe") /\ Sealed(env.body, "ListUnsubscribePost")
<1>1. PICK fields : fields = EffectiveFields(d.email, d.fields)
  OBVIOUS
<1>2. PICK page \in ReplaceCustomFields(d.html, EffectiveFields(d.email, d.fields)),
           subject \in ReplaceCustomFields(d.subject, EffectiveFields(d.email, d.fields)),
           url \in resolveUnsubscribeURL(d.unsubscribe, EffectiveFields(d.email, d.fields)) :
             env.body = signMessage(renderMsg(preparedHTML(page, d.policy), buildHeaders(subject, d, url)))
  BY EnvelopeOf
<1>3. FilledIn(url, d.unsubscribe, fields) /\ url # <<>>
  <2>1. IsFiniteSet(DOMAIN fields)
    BY <1>1, EffectiveIsPieces DEF IsDraft
  <2>2. /\ IsText(d.unsubscribe) /\ \A i \in DOMAIN d.unsubscribe : d.unsubscribe[i].kind \in {"word", "hole"}
        /\ FALSE \in unresolvedUnsubscribeURL(d.unsubscribe, d.email, d.fields)
    BY Zenon DEF IsDraft, TakenIn
  <2> QED  BY <1>1, <1>2, <2>1, <2>2, ResolvedAlways, Zenon
<1>4. PICK h : h = buildHeaders(subject, d, url)
  OBVIOUS
<1>5. PICK lu, lup : lu = "ListUnsubscribe" /\ lup = "ListUnsubscribePost"
  OBVIOUS
<1>6. PICK oneClick : oneClick = <<Word("One-Click")>> /\ oneClick # <<>>
  <2>1. PICK w : w = Word("One-Click")
    OBVIOUS
  <2>2. <<w>> # <<>>
    OBVIOUS
  <2> QED  BY <2>1, <2>2
<1>7. /\ IsFiniteSet(DOMAIN h) /\ lu \in DOMAIN h /\ lup \in DOMAIN h
      /\ h[lu] = url /\ h[lup] = oneClick
  <2>1. /\ IsFiniteSet(DOMAIN h)
        /\ "ListUnsubscribe" \in DOMAIN h /\ "ListUnsubscribePost" \in DOMAIN h
        /\ h["ListUnsubscribe"] = url /\ h["ListUnsubscribePost"] = <<Word("One-Click")>>
    BY <1>3, <1>4, UnsubscribeHeaders
  <2> QED  BY <1>5, <1>6, <2>1, Zenon
<1>8. PICK html : html = preparedHTML(page, d.policy)
  OBVIOUS
<1>9. PICK msg : msg = renderMsg(html, h)
  OBVIOUS
<1>10. PICK headers : headers = msg.headers
  OBVIOUS
<1>11. PICK n \in Nat : IsList(headers, n) /\ HeadersOf(headers, n, h)
  BY <1>7, <1>9, <1>10, OncePerName
<1>12. env.body = signMessage(msg) /\ env.body.msg = msg
  <2>1. signMessage(msg).msg = msg
    BY DEF signMessage
  <2> QED  BY <1>2, <1>4, <1>8, <1>9, <2>1, Zenon
<1>13. IsSignedTwice(lu) /\ IsSignedTwice(lup)
  BY <1>5, SignedTwice, Zenon
<1>14. ASSUME NEW name \in DOMAIN h, IsSignedTwice(name), NEW value, value = h[name], value # <<>>
       PROVE  ValuesOf(headers, name) = {value} /\ Sealed(env.body, name)
  <2>1. PICK at \in 1..n :
          headers[at] = Header(name, value) /\ \A i \in 1..n : headers[i].name = name <=> i = at
    BY <1>11, <1>14, Zenon DEF HeadersOf
  <2>2. headers[at].value = value
    BY <2>1 DEF Header
  <2>3. ValuesOf(headers, name) = {value}
    <3>1. {j \in DOMAIN headers : headers[j].name = name} = {at}
      <4>1. DOMAIN headers = 1..n
        BY <1>11 DEF IsList
      <4> QED  BY <2>1, <4>1
    <3> QED  BY <2>2, <3>1 DEF ValuesOf
  <2>4. Sealed(signMessage(msg), name)
    BY <1>10, <1>11, <1>14, <2>1, SealedOnce
  <2> QED  BY <1>12, <2>3, <2>4
<1>15. ValuesOf(headers, lu) = {url} /\ Sealed(env.body, lu)
  BY <1>3, <1>7, <1>13, <1>14
<1>16. ValuesOf(headers, lup) = {oneClick} /\ Sealed(env.body, lup)
  BY <1>6, <1>7, <1>13, <1>14
<1>17. env.body.msg.headers = headers
  BY <1>10, <1>12
<1> QED  BY <1>1, <1>3, <1>5, <1>6, <1>15, <1>16, <1>17, Zenon

(* Every mail is the author's page but for what the Policy adds, whatever  *)
(* the page, the fields and the order they are put in (preparedHTML).      *)
THEOREM PageIsDelivered == RenderSpec => []DeliveredAsStated
<1> DEFINE Inv == (draft \in Drafts) /\ DeliveredAsStated
<1>1. RenderInit => Inv
  BY Zenon DEF RenderInit, DeliveredAsStated
<1>2. Inv /\ [Render]_renderVars => Inv'
  <2> SUFFICES ASSUME Inv, [Render]_renderVars PROVE Inv'
    OBVIOUS
  <2>1. CASE Render
    <3>1. draft' = draft /\ IsDraft(draft)
      BY <2>1, DraftsAreDrafts DEF Render
    <3>2. PICK env : env = envelope'
      OBVIOUS
    <3>3. env \in Envelopes(draft)
      BY <2>1, <3>2 DEF Render
    <3>4. \E page \in ReplaceCustomFields(draft.html, EffectiveFields(draft.email, draft.fields)) :
           AsStated(env.body.msg.html, page, draft.policy)
      BY <3>1, <3>3, EnvelopeHTML
    <3> QED  BY <3>1, <3>2, <3>4, Zenon DEF DeliveredAsStated
  <2>2. CASE UNCHANGED renderVars
    BY <2>2, Zenon DEF renderVars, DeliveredAsStated
  <2> QED  BY <2>1, <2>2
<1> QED  BY <1>1, <1>2, PTL DEF RenderSpec

(* Whom intake lets in with a one-click endpoint can use it, for any       *)
(* endpoint and fields and whatever the orders they are put in at intake   *)
(* and at each Build (resolveUnsubscribeURL, dkimSignedHeaders).           *)
THEOREM UnsubscribeHolds == RenderSpec => []UnsubscribeIsHonoured
<1> DEFINE Inv == (draft \in Drafts /\ TakenIn(draft)) /\ UnsubscribeIsHonoured
<1>1. RenderInit => Inv
  BY Zenon DEF RenderInit, UnsubscribeIsHonoured
<1>2. Inv /\ [Render]_renderVars => Inv'
  <2> SUFFICES ASSUME Inv, [Render]_renderVars PROVE Inv'
    OBVIOUS
  <2>1. CASE Render
    <3>1. PICK d : d = draft
      OBVIOUS
    <3>2. draft' = d /\ d \in Drafts /\ IsDraft(d) /\ TakenIn(d)
      BY <2>1, <3>1, DraftsAreDrafts DEF Render
    <3>3. PICK env : env = envelope'
      OBVIOUS
    <3>4. env \in Envelopes(d)
      BY <2>1, <3>1, <3>3 DEF Render
    <3>5. TakenIn(draft)'
      BY <3>2 DEF TakenIn
    <3>6. UnsubscribeIsHonoured'
      <4> SUFFICES ASSUME ~IsZero(d.unsubscribe)
                   PROVE  /\ ValuesOf(env.body.msg.headers, "ListUnsubscribePost") = {<<Word("One-Click")>>}
                          /\ \E url \in ValuesOf(env.body.msg.headers, "ListUnsubscribe") :
                               FilledIn(url, d.unsubscribe, EffectiveFields(d.email, d.fields))
                          /\ Sealed(env.body, "ListUnsubscribe") /\ Sealed(env.body, "ListUnsubscribePost")
        BY <3>2, <3>3, Zenon DEF UnsubscribeIsHonoured
      <4> QED  BY <3>2, <3>4, EnvelopeUnsubscribes, Zenon
    <3> QED  BY <3>2, <3>5, <3>6
  <2>2. CASE UNCHANGED renderVars
    BY <2>2, Zenon DEF renderVars, UnsubscribeIsHonoured, TakenIn
  <2> QED  BY <2>1, <2>2
<1> QED  BY <1>1, <1>2, PTL DEF RenderSpec

=============================================================================
