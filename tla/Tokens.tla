-------------------------------- MODULE Tokens --------------------------------
(***************************************************************************)
(* Tracking tokens: the signing keys of internal/statssec, the Builder's    *)
(* half of minting (internal/envelope/builder.go and sharedtokens.go) and   *)
(* their verification.  The Deliveries are those of one Batch, with one     *)
(* tracked URL.                                                             *)
(*                                                                          *)
(* Every replica of the Dispatcher has a Builder with a cache of its own.   *)
(* A Build makes the link token and then the open token; each mint reads a  *)
(* signing key and signs afterwards, with a clock read in between.          *)
(*                                                                          *)
(* Instants are kept as the time left until them: of a key its              *)
(* expiration_time, of a token its exp claim.                               *)
(***************************************************************************)
EXTENDS TrackingPolicy, FiniteSets

CONSTANTS
  Recipients,   \* the Batch's
  Builders,     \* replicas of the Dispatcher
  Kids,         \* key ids in use at one time
  Period,       \* tokenExpirePeriod (3 months)
  MintTime,     \* perDeliveryTimeout: no Build outlasts it
  MaxHeld       \* bound: tokens in a Recipient's mails when a Build starts

ASSUME TokensAssumption ==
  /\ Period \in Nat \ {0}
  /\ MintTime \in Nat
  /\ MaxHeld \in Nat

VARIABLES
  keys,       \* stats_keys: time left to each key
  policy,     \* the Policy frozen on each Delivery
  building,   \* the Build each replica is in
  shared,     \* the shared tokens each replica holds
  held        \* the tokens in each Recipient's mails

-----------------------------------------------------------------------------
Absent  == -2                           \* no such row
Expired == -1                           \* expiration_time < NOW()
NoPolicy == [a \in Axes |-> "unspecified"]

(* Whom a token or an event names.                                         *)
NoOne == [kind |-> "nobody"]
Identity == {NoOne} \cup [kind : {"address", "pseudonym"}, of : Recipients]

Audience == Axes \cup {"legacy"}

Token == [kid : Kids, aud : Audience, mode : Modes, who : Identity, left : 0..Period]

IdleBuild == [step |-> "idle"]
Builds == [step : {"lookup", "create", "sign"}, axis : Axes, of : Recipients,
           key : SUBSET Kids, waited : 0..MintTime, made : SUBSET Token]

Build(axis, r, waited, T) ==
  [step |-> "lookup", axis |-> axis, of |-> r, key |-> {}, waited |-> waited, made |-> T]

ModeOf(b) == policy[building[b].of][building[b].axis]

(* One Axis is done with, having made the tokens T; after the opens the    *)
(* mail goes out.                                                          *)
Advance(b, T) ==
  LET made == building[b].made \cup T
      r    == building[b].of
  IN  IF building[b].axis = "links"
      THEN /\ building' = [building EXCEPT ![b] = Build("opens", r, building[b].waited, made)]
           /\ UNCHANGED held
      ELSE /\ building' = [building EXCEPT ![b] = IdleBuild]
           /\ held' = [held EXCEPT ![r] = @ \cup made]

-----------------------------------------------------------------------------
(* preparedHTML begins; a Delivery may be built any number of times.       *)
StartBuild(b, r) ==
  /\ building[b] = IdleBuild
  /\ policy[r] # NoPolicy
  /\ Cardinality(held[r]) < MaxHeld
  /\ building' = [building EXCEPT ![b] = Build("links", r, 0, {})]
  /\ UNCHANGED <<keys, policy, shared, held>>

(* An Axis that is Off is not tracked.                                     *)
SkipAxis(b) ==
  /\ building[b].step = "lookup"
  /\ ModeOf(b) = "off"
  /\ Advance(b, {})
  /\ UNCHANGED <<keys, policy, shared>>

(* sharedTokenKey: the cached token of this Axis and Mode.                 *)
Cached(b) == {t \in shared[b] : t.aud = building[b].axis /\ t.mode = ModeOf(b)}

(* token: a Mode that isolates nobody shares its token.                    *)
ReuseToken(b) ==
  /\ building[b].step = "lookup"
  /\ ModeOf(b) # "off"
  /\ ~IsolatesRecipient(ModeOf(b))
  /\ \E t \in Cached(b) : Advance(b, {t})
  /\ UNCHANGED <<keys, policy, shared>>

(* Mutant: any key that is still valid signs.                              *)
ValidKeys0 == {k \in Kids : keys[k] > 0}

(* GetValidStatsKeys: the keys that outlive a token signed now.            *)
SigningKeys == {k \in Kids : keys[k] > Period}

(* getSignKeys: any of these, or the way to a new one.                     *)
LookupKey(b) ==
  /\ building[b].step = "lookup"
  /\ ModeOf(b) # "off"
  /\ IsolatesRecipient(ModeOf(b)) \/ Cached(b) = {}
  /\ \/ \E k \in SigningKeys :
          building' = [building EXCEPT ![b].step = "sign", ![b].key = {k}]
     \/ /\ SigningKeys = {}
        /\ building' = [building EXCEPT ![b].step = "create"]
  /\ UNCHANGED <<keys, policy, shared, held>>

(* A key id is never drawn twice.  One without a row that no token in use  *)
(* and no Build mentions is as good as new.                                *)
TokensInUse ==
  UNION {held[r] : r \in Recipients} \cup UNION {shared[b] : b \in Builders}
    \cup UNION {building[b].made : b \in {c \in Builders : building[c] # IdleBuild}}

FreshKids ==
  {k \in Kids : /\ keys[k] = Absent
                /\ \A t \in TokensInUse : t.kid = k => t.left = 0
                /\ \A b \in Builders : building[b] # IdleBuild => k \notin building[b].key}

(* generateNewKeyPairs: another replica may have made one meanwhile.       *)
CreateStatsKeys(b) ==
  /\ building[b].step = "create"
  /\ \E k \in FreshKids :
       /\ keys' = [keys EXCEPT ![k] = 2 * Period]
       /\ building' = [building EXCEPT ![b].step = "sign", ![b].key = {k}]
  /\ UNCHANGED <<policy, shared, held>>

(* trackingIdentity.under and identityUnder: whom the Mode lets a token    *)
(* name.                                                                   *)
IdentityUnder(mode, r) ==
  IF IdentifiesRecipient(mode) THEN [kind |-> "address", of |-> r]
  ELSE IF IsolatesRecipient(mode) THEN [kind |-> "pseudonym", of |-> r] ELSE NoOne

(* createOpenToken, createLinkToken; what nobody is isolated by is kept    *)
(* for the Deliveries to come.                                             *)
CreateToken(b) ==
  /\ building[b].step = "sign"
  /\ \E k \in building[b].key :
       LET t == [kid |-> k, aud |-> building[b].axis, mode |-> ModeOf(b),
                 who |-> IdentityUnder(ModeOf(b), building[b].of), left |-> Period]
       IN  /\ Advance(b, {t})
           /\ IF IsolatesRecipient(ModeOf(b)) THEN UNCHANGED shared
              ELSE shared' = [shared EXCEPT ![b] = @ \cup {t}]
  /\ UNCHANGED <<keys, policy>>

(* A Build returns an error, or its time is up.  What it cached stays.     *)
BuildFails(b) ==
  /\ building[b] # IdleBuild
  /\ building' = [building EXCEPT ![b] = IdleBuild]
  /\ UNCHANGED <<keys, policy, shared, held>>

(* sharedTokens.put for other Batches pushes ours out of both generations, *)
(* or the replica is restarted.                                            *)
ForgetShared(b) ==
  /\ shared[b] # {}
  /\ building[b] = IdleBuild
  /\ shared' = [shared EXCEPT ![b] = {}]
  /\ UNCHANGED <<keys, policy, building, held>>

BuilderStep(b) ==
  \/ \E r \in Recipients : StartBuild(b, r)
  \/ SkipAxis(b) \/ ReuseToken(b) \/ LookupKey(b) \/ CreateStatsKeys(b) \/ CreateToken(b)
  \/ BuildFails(b) \/ ForgetShared(b)

-----------------------------------------------------------------------------
(* assertAudience.                                                         *)
AssertAudience(t, want) == t.aud = want \/ (t.mode = "unspecified" /\ t.aud = "legacy")

(* verifyToken: the key is there and valid, the token has not expired and  *)
(* was minted for this channel.                                            *)
KeyIsValid(t) == keys[t.kid] > 0

Verifies(t, want) == KeyIsValid(t) /\ t.left > 0 /\ AssertAudience(t, want)

(* DeleteExpiredStatsKeys, of the Stats worker's clean-up.                 *)
KeysAfterCleanup == [k \in Kids |-> IF keys[k] = Expired THEN Absent ELSE keys[k]]

-----------------------------------------------------------------------------
(* Nothing tells an expired token in a mail from none at all.              *)
Current(T) == {t \in T : t.left > 0}

Aged(T) == {[t EXCEPT !.left = IF @ = 0 THEN 0 ELSE @ - 1] : t \in T}

(* Mutant: a Build without a deadline.                                     *)
NoDeadline(b) == TRUE

(* buildCtx: no Build outlasts its deadline.                               *)
InTime(b) == building[b] # IdleBuild => building[b].waited < MintTime

KeyLater(n) == IF n \in {Absent, Expired} THEN n ELSE n - 1

BuildLater(x) ==
  IF x = IdleBuild THEN IdleBuild
  ELSE [x EXCEPT !.waited = @ + 1, !.made = Aged(@)]

(* The clock.                                                              *)
TokenTick ==
  /\ \A b \in Builders : InTime(b)
  /\ keys' = [k \in Kids |-> KeyLater(keys[k])]
  /\ building' = [b \in Builders |-> BuildLater(building[b])]
  /\ shared' = [b \in Builders |-> Aged(shared[b])]
  /\ held' = [r \in Recipients |-> Current(Aged(held[r]))]
  /\ UNCHANGED policy

TokenTypeOK ==
  /\ keys \in [Kids -> Absent..(2 * Period)]
  /\ policy \in [Recipients -> [Axes -> Readable] \cup {NoPolicy}]
  /\ building \in [Builders -> Builds \cup {IdleBuild}]
  /\ shared \in [Builders -> SUBSET Token]
  /\ held \in [Recipients -> SUBSET Token]

=============================================================================
