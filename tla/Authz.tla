-------------------------------- MODULE Authz --------------------------------
(***************************************************************************)
(* internal/authz: what a request is allowed to do.  A Principal carries    *)
(* Grants, each a Role fixed to an Anchor; authority over a path extends to *)
(* everything beneath it and nothing is ever taken back.  Can is a pure     *)
(* function of its arguments, and so is everything here.                    *)
(*                                                                          *)
(* A Resource is the sequence of its segments.  An empty text is the        *)
(* segment that a zero DomainName or a blank identifier leaves.             *)
(***************************************************************************)
EXTENDS Naturals, Sequences

(* The closed vocabulary of Actions, and the texts of the tree.            *)
allActions == {"create", "read", "list", "update", "delete", "attribute"}

Domains          == <<"domains">>
under(d, tail)   == <<"domains", d>> \o tail
Domain(d)        == under(d, <<>>)
Batches(d)       == under(d, <<"batches">>)
Templates(d)     == under(d, <<"templates">>)
Template(d, id)  == under(d, <<"templates", id>>)
APIKeys(d)       == under(d, <<"apikeys">>)
APIKey(d, id)    == under(d, <<"apikeys", id>>)
Stats(d)         == under(d, <<"stats">>)
AggregatedStats(d) == under(d, <<"stats", "aggregated">>)

ResourceIsWellFormed(r) == r # <<>> /\ \A i \in DOMAIN r : r[i] # ""

-----------------------------------------------------------------------------
(* Segments of a pattern.  The wildcard is a flag: a text that happens to  *)
(* be an asterisk stays a literal.                                         *)
literalSegment(text) == [literal |-> text, wildcard |-> FALSE]
wildcardSegment      == [literal |-> "*", wildcard |-> TRUE]

EmptyPattern == [everything |-> FALSE, segments |-> <<>>]

(* pattern.covers: prefix domination, the one matcher there is.            *)
patternCovers(p, r) ==
  /\ ResourceIsWellFormed(r)
  /\ \/ p.everything
     \/ /\ p.segments # <<>>
        /\ Len(p.segments) <= Len(r)
        /\ \A i \in DOMAIN p.segments : p.segments[i].wildcard \/ p.segments[i].literal = r[i]

-----------------------------------------------------------------------------
(* Anchors: where a Grant fixes its Role.                                  *)
Anchor(root, segments) == [root |-> root, segments |-> segments]

RootAnchor       == Anchor(TRUE, <<>>)
DomainAnchor(d)  == Anchor(FALSE, <<literalSegment("domains"), literalSegment(d)>>)
AllDomainsAnchor == Anchor(FALSE, <<literalSegment("domains"), wildcardSegment>>)
AnchorOf(r)      == Anchor(FALSE, [i \in DOMAIN r |-> literalSegment(r[i])])

AnchorIsWellFormed(a) ==
  a.segments # <<>> /\ \A i \in DOMAIN a.segments : a.segments[i].literal # ""

kind(a) ==
  CASE a.root -> "root"
    [] /\ ~a.root /\ AnchorIsWellFormed(a) /\ Len(a.segments) = 2
       /\ a.segments[1] = literalSegment("domains") -> "domain"
    [] OTHER -> "other"

isGrantable(k) == k \in {"root", "domain"}

(* Anchor.extend: a malformed Anchor reaches nothing.                      *)
extend(a, suffix) ==
  CASE ~a.root /\ ~AnchorIsWellFormed(a) -> EmptyPattern
    [] a.root /\ suffix = <<>>           -> [everything |-> TRUE, segments |-> <<>>]
    [] OTHER -> [everything |-> FALSE,
                 segments |-> a.segments \o [i \in DOMAIN suffix |-> literalSegment(suffix[i])]]

anchorCovers(a, r) == patternCovers(extend(a, <<>>), r)

-----------------------------------------------------------------------------
(* The catalogue: a Role's scope and its one rule.  A rule with an empty   *)
(* suffix is at(), any other is on().                                      *)
catalogue ==
  [admin  |-> [scope |-> "any",    actions |-> allActions, suffix |-> <<>>],
   sender |-> [scope |-> "domain", actions |-> {"create"}, suffix |-> <<"batches">>]]

RoleNames == {"admin", "sender"}

accepts(scope, k) ==
  \/ scope = "any" /\ isGrantable(k)
  \/ scope = "root" /\ k = "root"
  \/ scope = "domain" /\ k = "domain"

(* Mutant: a typed Role may be narrowed to any place it reaches.           *)
admitsAnyNarrowing(scope, k) == scope \in {"any", "domain"}

admitsNarrowingTo(scope, k) ==
  \/ scope = "any"
  \/ scope = "root" /\ k = "root"
  \/ scope = "domain" /\ k = "domain"

(* NewGrant returns a Grant for these.                                     *)
Grant(role, anchor) == [role |-> role, anchor |-> anchor]
MayGrant(role, anchor) ==
  /\ role \in RoleNames
  /\ isGrantable(kind(anchor))
  /\ accepts(catalogue[role].scope, kind(anchor))

(* The zero Attribution claims nothing.                                    *)
NoClaim == ""
NewPrincipal(id, grants) == [id |-> id, grants |-> grants, attribution |-> NoClaim]
WithAttribution(p, claim) == [p EXCEPT !.attribution = claim]

(* Can.                                                                    *)
Can(p, a, r) ==
  \E g \in p.grants :
    /\ g.role \in RoleNames
    /\ a \in catalogue[g.role].actions
    /\ patternCovers(extend(g.anchor, catalogue[g.role].suffix), r)

(* Principal.Attenuate: per Resource asked for, one Grant for every Role   *)
(* that reaches it and may be narrowed to a thing of its kind.  Roles,     *)
(* identifier and claim stay.                                              *)
Narrowings(p, r) ==
  {Grant(g.role, AnchorOf(r)) : g \in
     {h \in p.grants : /\ h.role \in RoleNames
                       /\ anchorCovers(h.anchor, r)
                       /\ admitsNarrowingTo(catalogue[h.role].scope, kind(AnchorOf(r)))}}

Attenuate(p, asked) == [p EXCEPT !.grants = UNION {Narrowings(p, r) : r \in asked}]

-----------------------------------------------------------------------------
(* Guard: the decision on one request, in the order it is reached.         *)
(* NoPrincipal stands for a context that carries none.                     *)
NoPrincipal == [id |-> "", grants |-> {}, attribution |-> NoClaim]

Decide(p, a, r) ==
  IF p = NoPrincipal THEN "no-principal"
  ELSE IF ~Can(p, a, r) \/ (p.attribution # NoClaim /\ ~Can(p, "attribute", r)) THEN "denied"
  ELSE "allowed"

=============================================================================
