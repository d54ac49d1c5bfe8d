---------------------------- MODULE MCEngagement ----------------------------
(* Tracking on small instances.                                             *)
EXTENDS Engagement, Rendering

CONSTANTS r1, r2, b1, k1, k2

TwoRecipients == {r1, r2}
OneBuilder    == {b1}
TwoKids       == {k1, k2}

MostModes     == {"unspecified", "off", "anonymous", "pseudonymous", "full"}

(* Texts of three pieces; a field may hold a placeholder, an expansion  *)
(* or a link of its own.                                                    *)
Link        == Word("https://shop/")
SomePieces  == {Word("hello"), Hole("a"), Hole("b"), Tag(Link, 0), Tag(Link, 2), Tag(Word("mailto:"), 0),
                Tag(Hole("a"), 0), Tag(Hole("a"), 1), Tag(NoHref, 0), BodyClose}
SomePages   == {<<p, q, r>> : p \in SomePieces, r \in {BodyClose, Hole("a")},
                               q \in {Hole("b"), Tag(Link, 2), Tag(Hole("a"), 0), BodyClose}}
SomeFields  == UNION {[S -> {Word("x"), Hole("b"), Expansion, Tag(Link, 1)}] :
                        S \in {{}, {"a"}, {"b"}, {"a", "b"}, {"(", "a"}, {"[a-z]*"}}}
                \cup {[email |-> Hole("b"), b |-> Word("y")], [a |-> Hole("b")] @@ [x \in {"[a-z]*"} |-> Word("z")]}
SomeEndpoints == {<<>>, <<Word("http://host/")>>}
                   \cup {<<Word("https://host/"), p, q>> : p, q \in {Word("?"), Hole("a"), Hole("b"), Hole("email")}}

(* Tokens and texts share no state: a behaviour is about one of the two.   *)
MCInit ==
  \/ EngagementInit /\ RenderIdle
  \/ (\E k \in Kids : Start(k, {}, {})) /\ RenderInit

MCNext ==
  \/ draft = NoDraft /\ EngagementNext /\ UNCHANGED renderVars
  \/ draft # NoDraft /\ Render /\ UNCHANGED engagementVars

MCSpec == MCInit /\ [][MCNext]_<<engagementVars, renderVars>>

Sym == Permutations(Recipients) \cup Permutations(Builders) \cup Permutations(Kids)
=============================================================================
