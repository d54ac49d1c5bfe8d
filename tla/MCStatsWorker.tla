--------------------------- MODULE MCStatsWorker ---------------------------
(* The Stats worker on a small instance.                                    *)
EXTENDS StatsWorker

CONSTANTS r1

OneReplica == {r1}

Kind(domain, who, mode, outcome) ==
  [parses |-> TRUE, domain |-> domain, who |-> who, id |-> "id", mode |-> mode, outcome |-> outcome]

(* A bounce, an open that is Anonymous, an event of a newer build that     *)
(* names nobody, one that is not an event.                                 *)
SomeKinds ==
  {Kind("a.com", "r@x", "", Outcome("bounced", {"permanent", "code"})),
   Kind("a.com", "", "anonymous", Outcome("opened", {})),
   Kind("b.com", "", "", Outcome("complained", {"msg"})),
   [Kind("", "", "", ZeroOutcome) EXCEPT !.parses = FALSE]}

SomeSpans == {[domain |-> "a.com", from |-> 0, to |-> 2]}
SomePages == {[skip |-> 1, take |-> 1]}
=============================================================================
