------------------------- MODULE TrackingPolicyProofs -------------------------
(***************************************************************************)
(* The scale of the Tracking Modes and the cascade of their levels: what    *)
(* the proofs about the Mailer API and about engagement rest on.            *)
(***************************************************************************)
EXTENDS TrackingPolicy, TLAPS

LEMMA RankType ==
  ASSUME NEW m PROVE Collection(m) \in Readable /\ Rank(m) \in 0..4
BY DEF Collection, Rank, Readable, modeRanks

LEMMA ReadableModes ==
  ASSUME NEW m \in Readable
  PROVE  /\ m \in Modes /\ States(m)
         /\ IdentifiesRecipient(m) <=> Rank(m) >= 3
         /\ IsolatesRecipient(m) <=> Rank(m) >= 2
         /\ m = "full" <=> Rank(m) = 4
BY DEF Readable, Modes, States, IdentifiesRecipient, IsolatesRecipient, Reaches,
       Rank, Collection, modeRanks

(* A rung that the resolved Mode reaches is allowed by every level.        *)
LEMMA CascadeNarrows ==
  ASSUME NEW d \in Modes, NEW b \in Modes, NEW r \in Modes
  PROVE  /\ MostRestrictive(d, b, r) \in Readable
         /\ \A n \in 0..Rank(MostRestrictive(d, b, r)) : n \in Permitted(d, b, r)
<1> DEFINE x == Narrowed("unspecified", d)
           y == Narrowed(x, b)
           z == Narrowed(y, r)
<1>1. /\ x \in Readable \cup {"unspecified"}
      /\ States(d) => x \in Readable /\ Rank(x) <= Rank(d)
  BY RankType DEF Narrowed, States, Rank, Collection, Readable, Modes, modeRanks
<1>2. /\ y \in Readable \cup {"unspecified"}
      /\ x \in Readable => y \in Readable /\ Rank(y) <= Rank(x)
      /\ States(b) => y \in Readable /\ Rank(y) <= Rank(b)
  <2> HIDE DEF x
  <2> QED BY <1>1, RankType DEF Narrowed, States, Rank, Collection, Readable, Modes, modeRanks
<1>3. /\ z \in Readable \cup {"unspecified"}
      /\ y \in Readable => z \in Readable /\ Rank(z) <= Rank(y)
      /\ States(r) => z \in Readable /\ Rank(z) <= Rank(r)
  <2> HIDE DEF x, y
  <2> QED BY <1>2, RankType DEF Narrowed, States, Rank, Collection, Readable, Modes, modeRanks
<1>4. MostRestrictive(d, b, r) = Collection(z)
  BY DEF MostRestrictive
<1>5. Rank(Collection(z)) = Rank(z)
  BY RankType DEF Rank, Collection, Readable
<1> HIDE DEF x, y, z
<1>6. ASSUME NEW n \in 0..Rank(z), NEW m \in {d, b, r}, States(m) PROVE n <= Rank(m)
  BY <1>1, <1>2, <1>3, <1>6, RankType
<1> QED  BY <1>4, <1>5, <1>6, RankType DEF Permitted

=============================================================================
