---------------------------- MODULE TrackingPolicy ----------------------------
(***************************************************************************)
(* The Tracking Mode scale and the Tracking Policy cascade                  *)
(* (internal/tracking): how much one engagement channel may be observed,    *)
(* and how what the Domain, the Batch and the Recipient state becomes the   *)
(* one Policy frozen on a Delivery.  A Policy is a Mode for each Axis.      *)
(***************************************************************************)
EXTENDS Integers

Axes == {"links", "opens"}

(* modeRanks, by increasing collection.                                    *)
modeRanks ==
  [off |-> 0, anonymous |-> 1, pseudonymous |-> 2, identified |-> 3, full |-> 4]

Readable == {"off", "anonymous", "pseudonymous", "identified", "full"}

(* Besides these a Mode may state nothing, or be a value written by a      *)
(* newer build that this one cannot read.                                  *)
Modes == Readable \cup {"unspecified", "unreadable"}

States(m)     == m # "unspecified"
Collection(m) == IF m \in Readable THEN m ELSE "off"
Rank(m)       == modeRanks[Collection(m)]

Reaches(m, rung)       == States(m) => Rank(m) >= modeRanks[rung]
IdentifiesRecipient(m) == Reaches(m, "identified")
IsolatesRecipient(m)   == Reaches(m, "pseudonymous")

(* axisViolation: silence on either side violates nothing.                 *)
AxisViolation(ceiling, stated) ==
  States(stated) /\ States(ceiling) /\ Rank(stated) > Rank(ceiling)

(* One turn of mostRestrictive's loop; "unspecified" is out before a Mode  *)
(* was found.                                                              *)
Narrowed(out, m) ==
  IF States(m) /\ (out = "unspecified" \/ Rank(m) < Rank(out)) THEN Collection(m) ELSE out

(* Mutant: the last level that states something wins.                      *)
LastStated(domain, batch, recipient) ==
  IF States(recipient) THEN Collection(recipient)
  ELSE IF States(batch) THEN Collection(batch) ELSE Collection(domain)

(* mostRestrictive over the three levels, ModeOff when none states any.    *)
MostRestrictive(domain, batch, recipient) ==
  Collection(Narrowed(Narrowed(Narrowed("unspecified", domain), batch), recipient))

Normalized(m) == MostRestrictive(m, "unspecified", "unspecified")

(* The reference: the ranks that every level which states something allows. *)
Permitted(domain, batch, recipient) ==
  {n \in 0..4 : \A m \in {domain, batch, recipient} : States(m) => n <= Rank(m)}

(* What the levels may state when a Batch comes in.  A Domain is           *)
(* normalised when it is loaded; the wire refuses a Mode that cannot be    *)
(* read (trackingpb.ToPolicy).                                             *)
DomainModes == {Normalized(m) : m \in Modes}
WireModes   == Readable \cup {"unspecified"}

(* createBatch and resolveRecipientTracking, for one Axis: the Batch and   *)
(* the Recipient are each held against the Domain's ceiling.               *)
Admitted(domain, batch, recipient) ==
  ~AxisViolation(domain, batch) /\ ~AxisViolation(domain, recipient)

=============================================================================
