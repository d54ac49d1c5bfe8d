----------------------------- MODULE AuditProofs ------------------------------
(***************************************************************************)
(* Authorization and its register, for any Resources, any places that a     *)
(* credential may be issued for, any number of narrowings, and any number   *)
(* of messages and writers: what Guard allows lies within what the          *)
(* credential was issued for, and what a writer has acknowledged is stored. *)
(***************************************************************************)
EXTENDS Audit, SequenceTheorems, TLAPS

-----------------------------------------------------------------------------
(* Segments and patterns.  The texts come from any set S.                  *)
LEMMA LiteralSegment ==
  ASSUME NEW x, NEW y
  PROVE  /\ literalSegment(x).literal = x
         /\ literalSegment(x).wildcard = FALSE
         /\ literalSegment(x) = literalSegment(y) => x = y
BY DEF literalSegment

Literals(path) == [i \in DOMAIN path |-> literalSegment(path[i])]

LEMMA LiteralsType ==
  ASSUME NEW S, NEW path \in Seq(S)
  PROVE  /\ Literals(path) \in Seq({literalSegment(s) : s \in S})
         /\ Len(Literals(path)) = Len(path)
         /\ \A i \in 1..Len(path) : Literals(path)[i] = literalSegment(path[i])
<1> DEFINE L == {literalSegment(s) : s \in S}
<1>1. PICK n \in Nat : n = Len(path) /\ DOMAIN path = 1..n /\ \A i \in 1..n : path[i] \in S
  OBVIOUS
<1>2. \A i \in 1..n : literalSegment(path[i]) \in L
  BY <1>1
<1>3. \A i \in 1..n : Literals(path)[i] = literalSegment(path[i])
  BY <1>1 DEF Literals
<1>4. Literals(path) \in [1..n -> L]
  BY <1>1, <1>2 DEF Literals
<1> HIDE DEF L
<1>5. Literals(path) \in Seq(L) /\ Len(Literals(path)) = n
  BY <1>4
<1> QED  BY <1>1, <1>3, <1>5 DEF L

Fits(seg, text) == seg.wildcard \/ seg.literal = text

Matches(a, suffix, r) ==
  /\ ResourceIsWellFormed(r)
  /\ Len(a.segments) + Len(suffix) <= Len(r)
  /\ \A i \in 1..Len(a.segments) : Fits(a.segments[i], r[i])
  /\ \A j \in 1..Len(suffix) : suffix[j] = r[Len(a.segments) + j]

(* An Anchor that is well formed, with a suffix, covers what fits the one  *)
(* and then the other.                                                     *)
LEMMA CoversExtended ==
  ASSUME NEW S, NEW T, NEW a, ~a.root, AnchorIsWellFormed(a), a.segments \in Seq(T),
         NEW suffix \in Seq(S), NEW r \in Seq(S)
  PROVE  patternCovers(extend(a, suffix), r) <=> Matches(a, suffix, r)
<1>1. PICK head : head = a.segments
  OBVIOUS
<1>2. PICK lits : lits = Literals(suffix)
  OBVIOUS
<1>3. PICK L : L = {literalSegment(s) : s \in S}
  OBVIOUS
<1>4. lits \in Seq(L) /\ Len(lits) = Len(suffix) /\ \A j \in 1..Len(suffix) : lits[j] = literalSegment(suffix[j])
  BY <1>2, <1>3, LiteralsType
<1>5. head \in Seq(T) /\ head # <<>>
  BY <1>1 DEF AnchorIsWellFormed
<1>6. PICK all : all = head \o lits
  OBVIOUS
<1>7. PICK m \in Nat, n \in Nat, k \in Nat : m = Len(head) /\ n = Len(suffix) /\ k = Len(r)
  BY <1>5
<1>8. /\ all \in Seq(T \cup L) /\ Len(all) = m + n
      /\ \A i \in 1..m : all[i] = head[i]
      /\ \A j \in 1..n : all[m + j] = lits[j]
  <2>1. PICK U : U = T \cup L
    OBVIOUS
  <2>2. head \in Seq(U) /\ lits \in Seq(U)
    BY <1>4, <1>5, <2>1
  <2>3. Len(lits) = n
    BY <1>4, <1>7
  <2>4. head \o lits \in Seq(U) /\ Len(head \o lits) = m + n
    BY <1>7, <2>2, <2>3, ConcatProperties, ZenonT(60)
  <2>5. \A i \in 1..m : (head \o lits)[i] = head[i]
    BY <1>7, <2>2, <2>3
  <2>6. \A j \in 1..n : (head \o lits)[m + j] = lits[j]
    BY <1>7, <2>2, <2>3
  <2> QED  BY <1>6, <2>1, <2>4, <2>5, <2>6
<1>9. m > 0 /\ all # <<>> /\ DOMAIN all = 1..(m + n)
  BY <1>5, <1>7, <1>8
<1>10. extend(a, suffix) = [everything |-> FALSE, segments |-> all]
  BY <1>1, <1>2, <1>6 DEF extend, Literals
<1>11. patternCovers(extend(a, suffix), r) <=>
         /\ ResourceIsWellFormed(r) /\ m + n <= k
         /\ \A i \in 1..(m + n) : Fits(all[i], r[i])
  <2>1. PICK p : p = [everything |-> FALSE, segments |-> all]
    OBVIOUS
  <2>2. p.everything = FALSE /\ p.segments = all
    BY <2>1
  <2>3. extend(a, suffix) = p
    BY <1>10, <2>1
  <2>4. Len(p.segments) = m + n /\ DOMAIN p.segments = 1..(m + n) /\ p.segments # <<>>
    BY <1>8, <1>9, <2>2
  <2> QED  BY <1>7, <2>2, <2>3, <2>4, Zenon DEF patternCovers, Fits
<1>12. (\A i \in 1..(m + n) : Fits(all[i], r[i])) <=>
         /\ \A i \in 1..m : Fits(head[i], r[i])
         /\ \A j \in 1..n : suffix[j] = r[m + j]
  <2>1. \A i \in 1..(m + n) : i \in 1..m \/ \E j \in 1..n : i = m + j
    <3> TAKE i \in 1..(m + n)
    <3>1. i > m => i - m \in 1..n /\ i = m + (i - m)
      OBVIOUS
    <3> QED  BY <3>1
  <2>2. (\A j \in 1..n : m + j \in 1..(m + n)) /\ \A i \in 1..m : i \in 1..(m + n)
    OBVIOUS
  <2>3. \A j \in 1..n : Fits(all[m + j], r[m + j]) <=> suffix[j] = r[m + j]
    <3> TAKE j \in 1..n
    <3>1. all[m + j] = literalSegment(suffix[j])
      BY <1>4, <1>7, <1>8
    <3> QED  BY <3>1, LiteralSegment, Zenon DEF Fits
  <2>4. \A i \in 1..m : Fits(all[i], r[i]) <=> Fits(head[i], r[i])
    BY <1>8
  <2> QED  BY <2>1, <2>2, <2>3, <2>4
<1> QED  BY <1>1, <1>7, <1>11, <1>12 DEF Matches

-----------------------------------------------------------------------------
(* Anchors.                                                                *)
LEMMA DomainsAnchor ==
  ASSUME NEW seg, NEW a, a = Anchor(FALSE, <<literalSegment("domains"), seg>>)
  PROVE  /\ a.root = FALSE /\ \E T : a.segments \in Seq(T)
         /\ Len(a.segments) = 2
         /\ a.segments[1] = literalSegment("domains") /\ a.segments[2] = seg
<1>1. PICK first : first = literalSegment("domains")
  OBVIOUS
<1>2. PICK s : s = <<first, seg>>
  OBVIOUS
<1>3. a.root = FALSE /\ a.segments = s
  BY <1>1, <1>2 DEF Anchor
<1>4. s \in Seq({first, seg}) /\ Len(s) = 2 /\ s[1] = first /\ s[2] = seg
  BY <1>2
<1> QED  BY <1>1, <1>3, <1>4

(* Such an Anchor is well formed exactly when its second segment is.       *)
LEMMA DomainsAnchorWellFormed ==
  ASSUME NEW seg, NEW a, a = Anchor(FALSE, <<literalSegment("domains"), seg>>)
  PROVE  AnchorIsWellFormed(a) <=> seg.literal # ""
<1>1. PICK first : first = literalSegment("domains")
  OBVIOUS
<1>2. PICK s : s = <<first, seg>>
  OBVIOUS
<1>3. a.root = FALSE /\ a.segments = s
  BY <1>1, <1>2 DEF Anchor
<1>4. s[1] = first /\ s[2] = seg /\ s # <<>> /\ DOMAIN s = {1, 2}
  BY <1>2
<1>5. first.literal # ""
  <2>1. first.literal = "domains"
    BY <1>1, LiteralSegment
  <2> QED  BY <2>1
<1> QED  BY <1>3, <1>4, <1>5, Zenon DEF AnchorIsWellFormed

LEMMA PlaceAnchor ==
  ASSUME NEW place, place # "root", NEW a, a = AnchorAt(place)
  PROVE  /\ a.root = FALSE /\ Len(a.segments) = 2
         /\ \E T : a.segments \in Seq(T)
         /\ \A t : Fits(a.segments[1], t) <=> t = "domains"
         /\ \A t : Fits(a.segments[2], t) <=> place \in {t, "*"}
         /\ AnchorIsWellFormed(a) <=> place # ""
<1>1. \A t : Fits(literalSegment("domains"), t) <=> t = "domains"
  BY LiteralSegment, Zenon DEF Fits
<1>2. CASE place = "*"
  <2>1. a = Anchor(FALSE, <<literalSegment("domains"), wildcardSegment>>)
    BY <1>2 DEF AnchorAt, AllDomainsAnchor
  <2>2. wildcardSegment.wildcard = TRUE /\ wildcardSegment.literal = "*"
    BY DEF wildcardSegment
  <2>3. wildcardSegment.literal # "" /\ place # ""
    BY <1>2, <2>2
  <2>4. \A t : Fits(wildcardSegment, t)
    BY <2>2 DEF Fits
  <2>5. \A t : place \in {t, "*"}
    BY <1>2
  <2>6. /\ a.root = FALSE /\ Len(a.segments) = 2 /\ \E T : a.segments \in Seq(T)
        /\ a.segments[1] = literalSegment("domains") /\ a.segments[2] = wildcardSegment
    BY <2>1, DomainsAnchor
  <2>7. AnchorIsWellFormed(a)
    BY <2>1, <2>3, DomainsAnchorWellFormed, Zenon
  <2> QED  BY <1>1, <2>3, <2>4, <2>5, <2>6, <2>7, Zenon
<1>3. CASE place # "*"
  <2>1. a = Anchor(FALSE, <<literalSegment("domains"), literalSegment(place)>>)
    BY <1>3 DEF AnchorAt, DomainAnchor
  <2>2. \A t : Fits(literalSegment(place), t) <=> t = place
    BY LiteralSegment, Zenon DEF Fits
  <2>3. literalSegment(place).literal = place
    BY LiteralSegment
  <2>4. \A t : place \in {t, "*"} <=> t = place
    BY <1>3
  <2>5. /\ a.root = FALSE /\ Len(a.segments) = 2 /\ \E T : a.segments \in Seq(T)
        /\ a.segments[1] = literalSegment("domains")
        /\ a.segments[2] = literalSegment(place)
    BY <2>1, DomainsAnchor, ZenonT(60)
  <2>6. AnchorIsWellFormed(a) <=> literalSegment(place).literal # ""
    BY <2>1, DomainsAnchorWellFormed, Zenon
  <2> QED  BY <1>1, <2>2, <2>3, <2>4, <2>5, <2>6, Zenon
<1> QED  BY <1>2, <1>3

LEMMA ResourceAnchor ==
  ASSUME NEW S, NEW q \in Seq(S), ResourceIsWellFormed(q), NEW a, a = AnchorOf(q)
  PROVE  /\ a.root = FALSE /\ AnchorIsWellFormed(a)
         /\ a.segments \in Seq({literalSegment(s) : s \in S})
         /\ Len(a.segments) = Len(q)
         /\ \A i \in 1..Len(q) : a.segments[i] = literalSegment(q[i])
<1>1. PICK lits : lits = Literals(q)
  OBVIOUS
<1>2. a.root = FALSE /\ a.segments = lits
  <2>1. a = Anchor(FALSE, lits)
    BY <1>1, Zenon DEF AnchorOf, Literals
  <2> QED  BY <2>1 DEF Anchor
<1>3. PICK n \in Nat : n = Len(q) /\ DOMAIN q = 1..n /\ n > 0
  <2>1. q # <<>>
    BY DEF ResourceIsWellFormed
  <2>2. Len(q) \in Nat /\ DOMAIN q = 1..Len(q) /\ Len(q) > 0
    BY <2>1, LenProperties, EmptySeq
  <2> QED  BY <2>2
<1>4. PICK L : L = {literalSegment(s) : s \in S}
  OBVIOUS
<1>5. lits \in Seq(L) /\ Len(lits) = n /\ \A i \in 1..n : lits[i] = literalSegment(q[i])
  BY <1>1, <1>3, <1>4, LiteralsType
<1>6. lits # <<>> /\ DOMAIN lits = 1..n
  BY <1>3, <1>5
<1>7. \A i \in 1..n : lits[i].literal # ""
  <2> TAKE i \in 1..n
  <2>1. lits[i].literal = q[i]
    BY <1>5, LiteralSegment
  <2>2. q[i] # ""
    BY <1>3 DEF ResourceIsWellFormed
  <2> QED  BY <2>1, <2>2
<1>8. AnchorIsWellFormed(a)
  BY <1>2, <1>6, <1>7, Zenon DEF AnchorIsWellFormed
<1> QED  BY <1>2, <1>3, <1>4, <1>5, <1>8

(* A Resource a sender is narrowed to is a Domain.                         *)
LEMMA NarrowedToDomain ==
  ASSUME NEW S, NEW q \in Seq(S), ResourceIsWellFormed(q), kind(AnchorOf(q)) = "domain"
  PROVE  Len(q) = 2
<1>1. PICK a : a = AnchorOf(q)
  OBVIOUS
<1>2. a.root = FALSE /\ Len(a.segments) = Len(q)
  BY <1>1, ResourceAnchor
<1>3. kind(a) = "domain"
  BY <1>1
<1> QED  BY <1>2, <1>3 DEF kind

-----------------------------------------------------------------------------
(* What a Role at a place means.                                           *)
LEMMA Catalogue ==
  /\ catalogue["admin"].scope = "any" /\ catalogue["admin"].actions = allActions
  /\ catalogue["admin"].suffix = <<>>
  /\ catalogue["sender"].scope = "domain" /\ catalogue["sender"].actions = {"create"}
  /\ catalogue["sender"].suffix = <<"batches">>
BY DEF catalogue

LEMMA GrantedPlace ==
  ASSUME NEW role, NEW place, MayGrant(role, AnchorAt(place))
  PROVE  role \in RoleNames /\ place # "" /\ (role = "sender" => place # "root")
<1>1. role \in RoleNames
  BY DEF MayGrant
<1>2. PICK a : a = AnchorAt(place)
  OBVIOUS
<1>3. MayGrant(role, a)
  BY <1>2
<1>4. ASSUME place = "" PROVE FALSE
  <2>1. place # "root"
    BY <1>4
  <2>2. a.root = FALSE /\ ~AnchorIsWellFormed(a)
    BY <1>2, <1>4, <2>1, PlaceAnchor
  <2>3. kind(a) = "other"
    BY <2>2 DEF kind
  <2> QED  BY <1>3, <2>3 DEF MayGrant, isGrantable
<1>5. ASSUME role = "sender", place = "root" PROVE FALSE
  <2>1. a.root = TRUE
    BY <1>2, <1>5 DEF AnchorAt, RootAnchor, Anchor
  <2>2. kind(a) = "root"
    BY <2>1 DEF kind
  <2>3. catalogue[role].scope = "domain"
    BY <1>5, Catalogue
  <2> QED  BY <1>3, <2>2, <2>3 DEF MayGrant, accepts
<1> QED  BY <1>1, <1>4, <1>5

LEMMA RootReaches ==
  ASSUME NEW r, NEW a, a = RootAnchor
  PROVE  patternCovers(extend(a, <<>>), r) <=> ResourceIsWellFormed(r)
<1>1. a.root = TRUE
  BY DEF RootAnchor, Anchor
<1>2. extend(a, <<>>) = [everything |-> TRUE, segments |-> <<>>]
  BY <1>1 DEF extend
<1>3. extend(a, <<>>).everything
  BY <1>2
<1> QED  BY <1>3, Zenon DEF patternCovers

(* The Anchor of a place that is not the root, alone and with a word after *)
(* it.                                                                     *)
Concrete(place) == place # "" /\ place # "root"

LEMMA PlaceReaches ==
  ASSUME NEW S, NEW place, Concrete(place), NEW r \in Seq(S),
         NEW a, a = AnchorAt(place), NEW word
  PROVE  /\ patternCovers(extend(a, <<>>), r) <=> ResourceIsWellFormed(r) /\ Within(place, r)
         /\ patternCovers(extend(a, <<word>>), r) <=>
              /\ ResourceIsWellFormed(r) /\ Within(place, r)
              /\ Len(r) >= 3 /\ r[3] = word
<1>1. /\ a.root = FALSE /\ Len(a.segments) = 2 /\ AnchorIsWellFormed(a)
      /\ \A t : Fits(a.segments[1], t) <=> t = "domains"
      /\ \A t : Fits(a.segments[2], t) <=> place \in {t, "*"}
  BY PlaceAnchor, Zenon DEF Concrete
<1>2. PICK T : a.segments \in Seq(T)
  BY PlaceAnchor, Zenon DEF Concrete
<1>3. (\A i \in 1..2 : Fits(a.segments[i], r[i])) <=> r[1] = "domains" /\ place \in {r[2], "*"}
  <2>1. 1..2 = {1, 2}
    OBVIOUS
  <2>2. (\A i \in 1..2 : Fits(a.segments[i], r[i])) <=> Fits(a.segments[1], r[1]) /\ Fits(a.segments[2], r[2])
    BY <2>1, Zenon
  <2> QED  BY <1>1, <2>2, Zenon
<1>4. PICK k \in Nat : k = Len(r)
  OBVIOUS
<1>5. Within(place, r) <=> k >= 2 /\ \A i \in 1..2 : Fits(a.segments[i], r[i])
  BY <1>3, <1>4, Zenon DEF Within, Concrete
<1>6. PICK U : U = S \cup {word}
  OBVIOUS
<1>7. r \in Seq(U)
  BY <1>6, SeqMonotonic
<1>8. patternCovers(extend(a, <<>>), r) <=> ResourceIsWellFormed(r) /\ Within(place, r)
  <2>1. PICK e : e = <<>>
    OBVIOUS
  <2>2. e \in Seq(U) /\ Len(e) = 0
    BY <2>1
  <2>3. patternCovers(extend(a, e), r) <=>
          /\ ResourceIsWellFormed(r) /\ 2 + 0 <= k
          /\ \A i \in 1..2 : Fits(a.segments[i], r[i])
          /\ \A j \in 1..0 : e[j] = r[2 + j]
    <3>1. patternCovers(extend(a, e), r) <=> Matches(a, e, r)
      <4>1. ~a.root /\ AnchorIsWellFormed(a) /\ a.segments \in Seq(T) /\ e \in Seq(U)
        BY <1>1, <1>2, <2>2
      <4> QED  BY <1>7, <4>1, CoversExtended
    <3> QED  BY <1>1, <1>4, <2>2, <3>1, Zenon DEF Matches
  <2>4. (2 + 0 <= k <=> k >= 2) /\ \A j \in 1..0 : e[j] = r[2 + j]
    OBVIOUS
  <2> QED  BY <1>5, <2>1, <2>3, <2>4, Zenon
<1>9. patternCovers(extend(a, <<word>>), r) <=>
         /\ ResourceIsWellFormed(r) /\ Within(place, r)
         /\ Len(r) >= 3 /\ r[3] = word
  <2>1. PICK b : b = <<word>>
    OBVIOUS
  <2>2. word \in U
    BY <1>6
  <2>3. b \in Seq(U) /\ Len(b) = 1 /\ b[1] = word
    BY <2>1, <2>2
  <2>4. patternCovers(extend(a, b), r) <=>
          /\ ResourceIsWellFormed(r) /\ 2 + 1 <= k
          /\ \A i \in 1..2 : Fits(a.segments[i], r[i])
          /\ \A j \in 1..1 : b[j] = r[2 + j]
    <3>1. patternCovers(extend(a, b), r) <=> Matches(a, b, r)
      <4>1. ~a.root /\ AnchorIsWellFormed(a) /\ a.segments \in Seq(T) /\ b \in Seq(U)
        BY <1>1, <1>2, <2>3
      <4> QED  BY <1>7, <4>1, CoversExtended
    <3> QED  BY <1>1, <1>4, <2>3, <3>1, Zenon DEF Matches
  <2>5. (2 + 1 <= k <=> k >= 3) /\ (k >= 3 => k >= 2)
    OBVIOUS
  <2>6. (\A j \in 1..1 : b[j] = r[2 + j]) <=> r[3] = word
    <3>1. 1..1 = {1} /\ 2 + 1 = 3
      OBVIOUS
    <3>2. (\A j \in 1..1 : b[j] = r[2 + j]) <=> b[1] = r[3]
      BY <3>1
    <3> QED  BY <2>3, <3>2
  <2> QED  BY <1>4, <1>5, <2>1, <2>4, <2>5, <2>6, Zenon
<1> QED  BY <1>8, <1>9

(* The Anchor of a Resource reaches what begins with it.                   *)
Begins(q, r) == Len(q) <= Len(r) /\ \A i \in 1..Len(q) : q[i] = r[i]
Continues(q, suffix, r) ==
  Len(q) + Len(suffix) <= Len(r) /\ \A j \in 1..Len(suffix) : suffix[j] = r[Len(q) + j]

LEMMA ResourceMatches ==
  ASSUME NEW S, NEW q \in Seq(S), ResourceIsWellFormed(q), NEW r, Len(r) \in Nat,
         NEW a, a = AnchorOf(q), NEW suffix, Len(suffix) \in Nat, Matches(a, suffix, r)
  PROVE  ResourceIsWellFormed(r) /\ Begins(q, r) /\ Continues(q, suffix, r)
<1>1. /\ Len(a.segments) = Len(q)
      /\ \A i \in 1..Len(q) : a.segments[i] = literalSegment(q[i])
  BY ResourceAnchor
<1>2. Len(q) \in Nat
  OBVIOUS
<1>3. \A i \in 1..Len(q) : q[i] = r[i]
  <2> TAKE i \in 1..Len(q)
  <2>1. Fits(literalSegment(q[i]), r[i])
    BY <1>1 DEF Matches
  <2> QED  BY <2>1, LiteralSegment, Zenon DEF Fits
<1> QED  BY <1>1, <1>2, <1>3 DEF Matches, Begins, Continues

LEMMA ResourceReaches ==
  ASSUME NEW S, NEW q \in Seq(S), ResourceIsWellFormed(q), NEW r \in Seq(S),
         NEW a, a = AnchorOf(q), NEW word
  PROVE  /\ patternCovers(extend(a, <<>>), r) => ResourceIsWellFormed(r) /\ Begins(q, r)
         /\ patternCovers(extend(a, <<word>>), r) =>
              /\ ResourceIsWellFormed(r) /\ Begins(q, r)
              /\ Len(q) + 1 <= Len(r) /\ r[Len(q) + 1] = word
<1>1. PICK U : U = S \cup {word}
  OBVIOUS
<1>2. word \in U /\ r \in Seq(U)
  BY <1>1, SeqMonotonic
<1>3. PICK e, b : e = <<>> /\ b = <<word>>
  OBVIOUS
<1>4. /\ e \in Seq(U) /\ Len(e) = 0 /\ Len(e) \in Nat
      /\ b \in Seq(U) /\ Len(b) = 1 /\ Len(b) \in Nat /\ b[1] = word
  BY <1>2, <1>3
<1>5. Len(r) \in Nat /\ Len(q) \in Nat
  OBVIOUS
<1>6. PICK T : a.segments \in Seq(T) /\ ~a.root /\ AnchorIsWellFormed(a)
  BY ResourceAnchor
<1>7. patternCovers(extend(a, e), r) => ResourceIsWellFormed(r) /\ Begins(q, r)
  <2>1. patternCovers(extend(a, e), r) <=> Matches(a, e, r)
    BY <1>2, <1>4, <1>6, CoversExtended
  <2> QED  BY <1>4, <1>5, <2>1, ResourceMatches
<1>8. patternCovers(extend(a, b), r) =>
        /\ ResourceIsWellFormed(r) /\ Begins(q, r)
        /\ Len(q) + 1 <= Len(r) /\ r[Len(q) + 1] = word
  <2> HAVE patternCovers(extend(a, b), r)
  <2>1. Matches(a, b, r)
    BY <1>2, <1>4, <1>6, CoversExtended
  <2>2. ResourceIsWellFormed(r) /\ Begins(q, r) /\ Continues(q, b, r)
    BY <1>4, <1>5, <2>1, ResourceMatches
  <2>3. 1 \in 1..Len(b)
    BY <1>4
  <2> QED  BY <1>4, <2>2, <2>3 DEF Continues
<1> QED  BY <1>3, <1>7, <1>8

LEMMA WithinBeneath ==
  ASSUME NEW S, NEW q \in Seq(S), NEW r \in Seq(S), Begins(q, r), NEW place, Within(place, q)
  PROVE  Within(place, r)
<1>1. Len(q) \in Nat /\ Len(r) \in Nat /\ Len(q) <= Len(r) /\ \A i \in 1..Len(q) : q[i] = r[i]
  BY DEF Begins
<1>2. Len(q) >= 2 => Len(r) >= 2 /\ q[1] = r[1] /\ q[2] = r[2]
  BY <1>1
<1> QED  BY <1>2, Zenon DEF Within

-----------------------------------------------------------------------------
(* The Grants of a Principal that was issued for a Role at a place: the    *)
(* one it was issued with, or one for a thing within the place.            *)
Issued(of) == of # Nobody /\ MayGrant(of.role, AnchorAt(of.place))

IsSender(role) == role = "sender"

Lawful(g, of) ==
  /\ g.role = of.role
  /\ \/ g.anchor = AnchorAt(of.place)
     \/ \E q \in Asked : /\ g.anchor = AnchorOf(q)
                         /\ ResourceIsWellFormed(q) /\ Within(of.place, q)
                         /\ IsSender(of.role) => Len(q) = 2

LEMMA AskedTexts ==
  \E S : \A r \in Asked : r \in Seq(S)
BY AuditAssumption, Zenon DEF AuditAssumption

(* A Grant reaches nothing beyond the place.                               *)
LEMMA LawfulReach ==
  ASSUME NEW of, Issued(of), NEW g, Lawful(g, of), NEW r \in Asked, anchorCovers(g.anchor, r)
  PROVE  ResourceIsWellFormed(r) /\ Within(of.place, r)
<1>1. PICK S : \A x \in Asked : x \in Seq(S)
  BY AskedTexts
<1>2. of.place # ""
  BY GrantedPlace DEF Issued
<1>3. PICK a : a = g.anchor
  OBVIOUS
<1>4. patternCovers(extend(a, <<>>), r)
  BY <1>3 DEF anchorCovers
<1>5. CASE a = AnchorAt(of.place) /\ of.place = "root"
  <2>1. a = RootAnchor
    BY <1>5 DEF AnchorAt
  <2>2. ResourceIsWellFormed(r)
    BY <1>4, <2>1, RootReaches
  <2> QED  BY <1>5, <2>2, Zenon DEF Within
<1>6. CASE a = AnchorAt(of.place) /\ of.place # "root"
  <2>1. Concrete(of.place)
    BY <1>2, <1>6, Zenon DEF Concrete
  <2> QED  BY <1>1, <1>4, <1>6, <2>1, PlaceReaches, Zenon
<1>7. ASSUME NEW q \in Asked, a = AnchorOf(q), ResourceIsWellFormed(q), Within(of.place, q)
      PROVE  ResourceIsWellFormed(r) /\ Within(of.place, r)
  <2>1. ResourceIsWellFormed(r) /\ Begins(q, r)
    BY <1>1, <1>4, <1>7, ResourceReaches, Zenon
  <2> QED  BY <1>1, <1>7, <2>1, WithinBeneath, Zenon
<1> QED  BY <1>3, <1>5, <1>6, <1>7, Zenon DEF Lawful

(* What the Grant's Role does there is what the Role means.                *)
LEMMA LawfulMay ==
  ASSUME NEW of, Issued(of), NEW g, Lawful(g, of), NEW r \in Asked, NEW act,
         act \in catalogue[g.role].actions,
         patternCovers(extend(g.anchor, catalogue[g.role].suffix), r)
  PROVE  May(of, act, r)
<1>1. PICK S : \A x \in Asked : x \in Seq(S)
  BY AskedTexts
<1>2. of.role \in RoleNames /\ of.place # "" /\ (of.role = "sender" => of.place # "root")
  BY GrantedPlace DEF Issued
<1>3. g.role = of.role
  BY DEF Lawful
<1>4. CASE of.role = "admin"
  <2>1. anchorCovers(g.anchor, r)
    BY <1>3, <1>4, Catalogue, Zenon DEF anchorCovers
  <2>2. ResourceIsWellFormed(r) /\ Within(of.place, r)
    BY <2>1, LawfulReach
  <2> QED  BY <1>4, <2>2, Zenon DEF May
<1>5. CASE of.role = "sender"
  <2>1. PICK word : word = "batches"
    OBVIOUS
  <2>2. PICK a : a = g.anchor
    OBVIOUS
  <2>3. patternCovers(extend(a, <<word>>), r) /\ act = "create"
    BY <1>3, <1>5, <2>1, <2>2, Catalogue, Zenon
  <2>4. Concrete(of.place)
    BY <1>2, <1>5, Zenon DEF Concrete
  <2>5. ResourceIsWellFormed(r) /\ Within(of.place, r) /\ Len(r) >= 3 /\ r[3] = word
    <3>1. CASE a = AnchorAt(of.place)
      BY <1>1, <2>3, <2>4, <3>1, PlaceReaches, Zenon
    <3>2. ASSUME NEW q \in Asked, a = AnchorOf(q), ResourceIsWellFormed(q), Within(of.place, q), Len(q) = 2
          PROVE  ResourceIsWellFormed(r) /\ Within(of.place, r) /\ Len(r) >= 3 /\ r[3] = word
      <4>1. q \in Seq(S) /\ r \in Seq(S)
        BY <1>1
      <4>2. /\ ResourceIsWellFormed(r) /\ Begins(q, r)
            /\ Len(q) + 1 <= Len(r) /\ r[Len(q) + 1] = word
        BY <2>3, <3>2, <4>1, ResourceReaches, Zenon
      <4>3. Within(of.place, r)
        BY <3>2, <4>1, <4>2, WithinBeneath, Zenon
      <4>4. Len(q) + 1 = 3
        BY <3>2
      <4>5. Len(r) >= 3
        <5>1. Len(r) \in Nat
          BY <4>1
        <5> QED  BY <4>2, <4>4, <5>1
      <4> QED  BY <4>2, <4>3, <4>4, <4>5, Zenon
    <3> QED  BY <1>5, <2>2, <3>1, <3>2, Zenon DEF Lawful, IsSender
  <2> QED  BY <1>5, <2>1, <2>3, <2>5, Zenon DEF May
<1> QED  BY <1>2, <1>4, <1>5, Zenon DEF RoleNames

(* The Grant a Principal is issued with does all that the Role means.      *)
LEMMA WholeMay ==
  ASSUME NEW of, Issued(of), NEW r \in Asked, NEW act \in allActions, May(of, act, r)
  PROVE  /\ act \in catalogue[of.role].actions
         /\ patternCovers(extend(AnchorAt(of.place), catalogue[of.role].suffix), r)
<1>1. PICK S : \A x \in Asked : x \in Seq(S)
  BY AskedTexts
<1>2. of.role \in RoleNames /\ of.place # "" /\ (of.role = "sender" => of.place # "root")
  BY GrantedPlace DEF Issued
<1>3. PICK a : a = AnchorAt(of.place)
  OBVIOUS
<1>4. ResourceIsWellFormed(r) /\ Within(of.place, r)
  BY Zenon DEF May
<1>5. CASE of.role = "admin"
  <2>1. patternCovers(extend(a, <<>>), r)
    <3>1. CASE of.place = "root"
      BY <1>3, <1>4, <3>1, RootReaches DEF AnchorAt
    <3>2. CASE of.place # "root"
      <4>1. Concrete(of.place)
        BY <1>2, <3>2, Zenon DEF Concrete
      <4> QED  BY <1>1, <1>3, <1>4, <4>1, PlaceReaches, Zenon
    <3> QED  BY <3>1, <3>2
  <2> QED  BY <1>3, <1>5, <2>1, Catalogue, Zenon
<1>6. CASE of.role = "sender"
  <2>1. PICK word : word = "batches"
    OBVIOUS
  <2>2. Concrete(of.place)
    BY <1>2, <1>6, Zenon DEF Concrete
  <2>3. act = "create" /\ Len(r) >= 3 /\ r[3] = word
    <3>1. "sender" # "admin"
      OBVIOUS
    <3> QED  BY <1>6, <2>1, <3>1, Zenon DEF May
  <2>4. patternCovers(extend(a, <<word>>), r)
    <3>1. r \in Seq(S)
      BY <1>1
    <3>2. patternCovers(extend(a, <<word>>), r) <=>
            /\ ResourceIsWellFormed(r) /\ Within(of.place, r)
            /\ Len(r) >= 3 /\ r[3] = word
      BY <1>3, <2>2, <3>1, PlaceReaches, Zenon
    <3> QED  BY <1>4, <2>3, <3>2, Zenon
  <2> QED  BY <1>3, <1>6, <2>1, <2>3, <2>4, Catalogue, Zenon
<1> QED  BY <1>2, <1>5, <1>6, Zenon DEF RoleNames

-----------------------------------------------------------------------------
(* The session: a Principal holds only Grants that are lawful for what it  *)
(* was issued for.                                                         *)
Principal(id, grants, attribution) == [id |-> id, grants |-> grants, attribution |-> attribution]

SessionType ==
  /\ issued \in [role : RoleNames \cup {""}, place : Places \cup {""}]
  /\ who = Principal(who.id, who.grants, who.attribution)
  /\ who.id \in RoleNames \cup {""} /\ who.attribution \in Claims

HoldsLawful ==
  \/ issued = Nobody /\ who = NoPrincipal
  \/ /\ Issued(issued) /\ who.id = issued.role
     /\ \A g \in who.grants : Lawful(g, issued)

SessionInv == SessionType /\ HoldsLawful

LEMMA PrincipalFields ==
  ASSUME NEW i, NEW g, NEW c, NEW p, p = Principal(i, g, c), NEW x
  PROVE  /\ p.id = i /\ p.grants = g /\ p.attribution = c
         /\ [p EXCEPT !.grants = x] = Principal(i, x, c)
         /\ [p EXCEPT !.attribution = x] = Principal(i, g, x)
BY DEF Principal

LEMMA NobodySession ==
  ASSUME issued = Nobody, who = NoPrincipal
  PROVE  SessionInv
<1>1. who = Principal("", {}, NoClaim)
  BY DEF NoPrincipal, Principal
<1>2. who.id = "" /\ who.grants = {} /\ who.attribution = NoClaim
  BY DEF NoPrincipal
<1>3. issued \in [role : RoleNames \cup {""}, place : Places \cup {""}]
  BY DEF Nobody
<1>4. who.id \in RoleNames \cup {""} /\ who.attribution \in Claims
  BY <1>2, Zenon DEF Claims
<1>5. who = Principal(who.id, who.grants, who.attribution)
  BY <1>1, <1>2, Zenon
<1> QED  BY <1>3, <1>4, <1>5 DEF SessionInv, SessionType, HoldsLawful

LEMMA NobodyNext ==
  ASSUME issued' = Nobody, who' = NoPrincipal
  PROVE  SessionInv'
<1>1. (issued = Nobody /\ who = NoPrincipal => SessionInv)'
  BY NobodySession, PTL
<1> QED  BY <1>1 DEF Nobody, NoPrincipal

LEMMA IssueSession ==
  ASSUME NEW role \in RoleNames, NEW place \in Places, NEW claim \in Claims, Issue(role, place, claim)
  PROVE  SessionInv'
<1>1. PICK of : of = [role |-> role, place |-> place]
  OBVIOUS
<1>2. of.role = role /\ of.place = place /\ of \in [role : RoleNames \cup {""}, place : Places \cup {""}]
  BY <1>1
<1>3. of # Nobody
  <2>1. role # ""
    BY DEF RoleNames
  <2>2. Nobody.role = ""
    BY DEF Nobody
  <2> QED  BY <1>2, <2>1, <2>2
<1>4. Issued(of)
  BY <1>2, <1>3 DEF Issue, Issued
<1>5. PICK g : g = Grant(role, AnchorAt(place))
  OBVIOUS
<1>6. PICK p : p = Principal(role, {g}, claim)
  OBVIOUS
<1>7. issued' = of /\ who' = p
  <2>1. NewPrincipal(role, {g}) = Principal(role, {g}, NoClaim)
    BY DEF NewPrincipal, Principal
  <2>2. PICK n : n = NewPrincipal(role, {g})
    OBVIOUS
  <2>3. PICK c : c = NoClaim
    OBVIOUS
  <2>4. n = Principal(role, {g}, c)
    BY <2>1, <2>2, <2>3
  <2>5. [n EXCEPT !.attribution = claim] = p
    BY <1>6, <2>4 DEF Principal
  <2> QED  BY <1>1, <1>5, <2>2, <2>5 DEF Issue, WithAttribution
<1>8. p.id = role /\ p.grants = {g} /\ p.attribution = claim
  BY <1>6, PrincipalFields
<1>9. g.role = role /\ g.anchor = AnchorAt(place)
  BY <1>5 DEF Grant
<1>10. \A x \in p.grants : Lawful(x, of)
  BY <1>2, <1>8, <1>9, Zenon DEF Lawful
<1>11. SessionType'
  <2>1. p = Principal(p.id, p.grants, p.attribution)
    BY <1>6, <1>8, Zenon
  <2>2. p.id \in RoleNames \cup {""} /\ p.attribution \in Claims
    BY <1>8
  <2> QED  BY <1>2, <1>7, <2>1, <2>2, Zenon DEF SessionType
<1>12. HoldsLawful'
  BY <1>2, <1>4, <1>7, <1>8, <1>10, Zenon DEF HoldsLawful
<1> QED  BY <1>11, <1>12 DEF SessionInv

(* Narrowing adds no Grant that is not lawful.                             *)
LEMMA NarrowingIsLawful ==
  ASSUME NEW of, Issued(of), NEW p, \A h \in p.grants : Lawful(h, of),
         NEW r \in Asked, NEW g \in Narrowings(p, r)
  PROVE  Lawful(g, of)
<1>1. PICK h \in p.grants : /\ h.role \in RoleNames /\ anchorCovers(h.anchor, r)
                            /\ admitsNarrowingTo(catalogue[h.role].scope, kind(AnchorOf(r)))
                            /\ g = Grant(h.role, AnchorOf(r))
  BY Zenon DEF Narrowings
<1>2. Lawful(h, of)
  OBVIOUS
<1>3. ResourceIsWellFormed(r) /\ Within(of.place, r)
  BY <1>1, <1>2, LawfulReach
<1>4. h.role = of.role
  BY <1>2 DEF Lawful
<1>5. g.role = of.role /\ g.anchor = AnchorOf(r)
  BY <1>1, <1>4 DEF Grant
<1>6. IsSender(of.role) => Len(r) = 2
  <2> HAVE IsSender(of.role)
  <2>1. catalogue[h.role].scope = "domain"
    BY <1>4, Catalogue, Zenon DEF IsSender
  <2>2. kind(AnchorOf(r)) = "domain"
    BY <1>1, <2>1 DEF admitsNarrowingTo
  <2>3. PICK S : \A x \in Asked : x \in Seq(S)
    BY AskedTexts
  <2> QED  BY <1>3, <2>2, <2>3, NarrowedToDomain
<1> QED  BY <1>3, <1>5, <1>6, Zenon DEF Lawful

LEMMA NarrowSession ==
  ASSUME SessionInv, NEW asked \in SUBSET Asked, Narrow(asked)
  PROVE  SessionInv'
<1>1. Issued(issued) /\ who.id = issued.role /\ \A g \in who.grants : Lawful(g, issued)
  BY DEF SessionInv, HoldsLawful, Narrow
<1>2. PICK p, of : p = who /\ of = issued
  OBVIOUS
<1>3. PICK G : G = UNION {Narrowings(p, r) : r \in asked}
  OBVIOUS
<1>4. p = Principal(p.id, p.grants, p.attribution)
  BY <1>2 DEF SessionInv, SessionType
<1>5. PICK q : q = Principal(p.id, G, p.attribution)
  OBVIOUS
<1>6. who' = q /\ issued' = of
  <2>1. [p EXCEPT !.grants = G] = q
    BY <1>4, <1>5, PrincipalFields
  <2> QED  BY <1>2, <1>3, <2>1 DEF Narrow, Attenuate
<1>7. q.id = p.id /\ q.grants = G /\ q.attribution = p.attribution
  BY <1>5, PrincipalFields
<1>8. \A g \in G : Lawful(g, of)
  <2> TAKE g \in G
  <2>1. PICK r \in asked : g \in Narrowings(p, r)
    BY <1>3
  <2>2. Issued(of) /\ \A h \in p.grants : Lawful(h, of)
    BY <1>1, <1>2
  <2> QED  BY <2>1, <2>2, NarrowingIsLawful
<1>9. SessionType'
  <2>1. q = Principal(q.id, q.grants, q.attribution)
    BY <1>5, <1>7, Zenon
  <2>2. q.id \in RoleNames \cup {""} /\ q.attribution \in Claims
    BY <1>2, <1>7, Zenon DEF SessionInv, SessionType
  <2>3. of \in [role : RoleNames \cup {""}, place : Places \cup {""}]
    BY <1>2 DEF SessionInv, SessionType
  <2> QED  BY <1>6, <2>1, <2>2, <2>3, Zenon DEF SessionType
<1>10. HoldsLawful'
  BY <1>1, <1>2, <1>6, <1>7, <1>8, Zenon DEF HoldsLawful
<1> QED  BY <1>9, <1>10 DEF SessionInv

-----------------------------------------------------------------------------
(* The decision.                                                           *)
Truthful(d) ==
  LET ok == /\ May(d.of, d.action, d.resource)
            /\ d.attribution # NoClaim => May(d.of, "attribute", d.resource)
  IN /\ d.outcome = "allowed" => ok
     /\ ok /\ ~d.narrowed => d.outcome = "allowed"

LEMMA CanIsMay ==
  ASSUME NEW of, Issued(of), NEW p, \A h \in p.grants : Lawful(h, of),
         NEW r \in Asked, NEW act \in allActions
  PROVE  /\ Can(p, act, r) => May(of, act, r)
         /\ p.grants = {Grant(of.role, AnchorAt(of.place))} /\ May(of, act, r) => Can(p, act, r)
<1>1. Can(p, act, r) => May(of, act, r)
  BY LawfulMay DEF Can
<1>2. ASSUME p.grants = {Grant(of.role, AnchorAt(of.place))}, May(of, act, r)
      PROVE  Can(p, act, r)
  <2>1. PICK g : g = Grant(of.role, AnchorAt(of.place))
    OBVIOUS
  <2>2. g \in p.grants /\ g.role = of.role /\ g.anchor = AnchorAt(of.place)
    BY <1>2, <2>1 DEF Grant
  <2>3. of.role \in RoleNames
    BY GrantedPlace DEF Issued
  <2> QED  BY <1>2, <2>2, <2>3, WholeMay, Zenon DEF Can
<1> QED  BY <1>1, <1>2

LEMMA RecordFields ==
  ASSUME NEW act, NEW r, NEW o, NEW d, d = Record(act, r, o)
  PROVE  /\ d.principal = who.id /\ d.action = act /\ d.resource = r /\ d.outcome = o
         /\ d.attribution = who.attribution /\ d.of = issued
         /\ d.narrowed = (who.grants # {Grant(issued.role, AnchorAt(issued.place))})
BY DEF Record

LEMMA Decision ==
  ASSUME SessionInv, NEW act \in allActions, NEW r \in Asked,
         NEW p, p = IF issued = Nobody THEN NoPrincipal ELSE who,
         NEW d, d = Record(act, r, Decide(p, act, r))
  PROVE  d \in Records /\ Truthful(d)
<1>1. PICK o : o = Decide(p, act, r)
  OBVIOUS
<1>2. o \in Outcomes
  BY <1>1 DEF Decide, Outcomes
<1>3. d \in Records
  BY <1>1, <1>2 DEF Record, Records, SessionInv, SessionType
<1>4. /\ d.action = act /\ d.resource = r /\ d.outcome = o /\ d.attribution = who.attribution
      /\ d.of = issued
      /\ d.narrowed = (who.grants # {Grant(issued.role, AnchorAt(issued.place))})
  BY <1>1, RecordFields
<1>5. CASE issued = Nobody
  <2>1. o = "no-principal"
    <3>1. p = NoPrincipal
      BY <1>5
    <3> QED  BY <1>1, <3>1 DEF Decide
  <2>2. o # "allowed"
    BY <2>1
  <2>3. ~May(issued, act, r)
    <3>1. issued.role = ""
      BY <1>5 DEF Nobody
    <3>2. issued.role # "admin" /\ issued.role # "sender"
      BY <3>1
    <3> QED  BY <3>2, Zenon DEF May
  <2> QED  BY <1>3, <1>4, <2>2, <2>3, Zenon DEF Truthful
<1>6. CASE issued # Nobody
  <2>1. Issued(issued) /\ who.id = issued.role /\ \A g \in who.grants : Lawful(g, issued)
    BY <1>6 DEF SessionInv, HoldsLawful
  <2>2. p = who
    BY <1>6
  <2>3. p # NoPrincipal
    <3>1. NoPrincipal.id = ""
      BY DEF NoPrincipal
    <3>2. issued.role \in RoleNames
      BY <2>1, GrantedPlace DEF Issued
    <3>3. issued.role # ""
      BY <3>2 DEF RoleNames
    <3> QED  BY <2>1, <2>2, <3>1, <3>3, Zenon
  <2>4. o = "allowed" <=> Can(who, act, r) /\ (who.attribution # NoClaim => Can(who, "attribute", r))
    BY <1>1, <2>2, <2>3 DEF Decide
  <2>5. "attribute" \in allActions
    BY DEF allActions
  <2>6. PICK of, w : of = issued /\ w = who
    OBVIOUS
  <2>7. \A x \in allActions :
          /\ Can(w, x, r) => May(of, x, r)
          /\ w.grants = {Grant(of.role, AnchorAt(of.place))} /\ May(of, x, r) => Can(w, x, r)
    BY <2>1, <2>6, CanIsMay
  <2>8. d.narrowed <=> w.grants # {Grant(of.role, AnchorAt(of.place))}
    BY <1>4, <2>6
  <2> QED  BY <1>3, <1>4, <2>4, <2>5, <2>6, <2>7, <2>8, Zenon DEF Truthful
<1> QED  BY <1>5, <1>6

-----------------------------------------------------------------------------
(* The register.  A decision never changes; a message, a writer and a row  *)
(* exist for decisions only; and a writer that is about to acknowledge     *)
(* has seen the row.                                                       *)
Wires == {"none", "queued", "pending", "acked", "termed", "lost", "expired"}

RegisterType ==
  /\ decided \in [Ids -> Records \cup {None}]
  /\ wire \in [Ids -> Wires]
  /\ rows \in [Ids -> {"none", "row", "swept"}]
  /\ age \in [Ids -> 0..MaxAge]
  /\ handling \in [Writers -> Held \cup {None}]

Backed ==
  /\ \A w \in Writers : handling[w] # None =>
       /\ decided[handling[w].msg] # None
       /\ handling[w].step = "ack" => rows[handling[w].msg] # "none"
  /\ \A i \in Ids : wire[i] # "none" \/ rows[i] # "none" => decided[i] # None
  /\ \A i \in Ids : rows[i] = "swept" => age[i] > Retention

RegisterInv == RegisterType /\ Backed /\ AckedIsStored

(* What no step but Guard may break.                                       *)
Careful ==
  /\ UNCHANGED decided
  /\ \A i \in Ids :
       /\ rows[i] # "none" => rows'[i] # "none"
       /\ rows'[i] # "none" => rows[i] # "none" \/ (decided[i] # None /\ Valid(decided[i]))
       /\ rows'[i] = "swept" => rows[i] = "swept" \/ age[i] > Retention
       /\ age'[i] >= age[i]
       /\ wire'[i] # "none" => wire[i] # "none"
       /\ wire'[i] = "acked" => wire[i] = "acked" \/ rows[i] # "none"
  /\ \A w \in Writers : handling'[w] # None =>
       /\ decided[handling'[w].msg] # None
       /\ handling'[w].step = "ack" => rows'[handling'[w].msg] # "none"

LEMMA CarefulKeeps ==
  ASSUME RegisterInv, Careful, RegisterType'
  PROVE  RegisterInv'
<1> USE AuditAssumption DEF AuditAssumption
<1>1. Backed'
  <2>1. \A w \in Writers : handling'[w] # None =>
          /\ decided'[handling'[w].msg] # None
          /\ handling'[w].step = "ack" => rows'[handling'[w].msg] # "none"
    BY DEF Careful
  <2>2. \A i \in Ids : wire'[i] # "none" \/ rows'[i] # "none" => decided'[i] # None
    BY DEF Careful, RegisterInv, Backed
  <2>3. \A i \in Ids : rows'[i] = "swept" => age'[i] > Retention
    <3> TAKE i \in Ids
    <3> HAVE rows'[i] = "swept"
    <3>1. age[i] > Retention /\ age'[i] >= age[i]
      BY DEF Careful, RegisterInv, Backed
    <3>2. age[i] \in Nat /\ age'[i] \in Nat
      BY DEF RegisterInv, RegisterType
    <3> QED  BY <3>1, <3>2
  <2> QED  BY <2>1, <2>2, <2>3 DEF Backed
<1>2. AckedIsStored'
  <2> SUFFICES ASSUME NEW i \in Ids
               PROVE  /\ wire'[i] = "acked" => rows'[i] # "none"
                      /\ rows'[i] # "none" => Valid(decided'[i])
    BY DEF AckedIsStored, Valid
  <2> QED  BY DEF Careful, RegisterInv, AckedIsStored
<1> QED  BY <1>1, <1>2 DEF RegisterInv

LEMMA HeldFields ==
  ASSUME RegisterInv, NEW w \in Writers, handling[w] # None
  PROVE  /\ handling[w] \in Held /\ handling[w].msg \in Ids
         /\ decided[handling[w].msg] # None
BY DEF RegisterInv, RegisterType, Backed, Held

(* Settling a message.                                                     *)
LEMMA SettledWire ==
  ASSUME RegisterInv, NEW i \in Ids, NEW how \in Wires, how # "none", Settled(i, how),
         how = "acked" => rows[i] # "none"
  PROVE  /\ wire' \in [Ids -> Wires]
         /\ \A j \in Ids : /\ wire'[j] # "none" => wire[j] # "none"
                           /\ wire'[j] = "acked" => wire[j] = "acked" \/ rows[j] # "none"
<1>1. wire \in [Ids -> Wires]
  BY DEF RegisterInv, RegisterType
<1> QED  BY <1>1 DEF Settled

LEMMA LetGoHandling ==
  ASSUME RegisterInv, NEW w \in Writers, LetGo(w), UNCHANGED rows
  PROVE  /\ handling' \in [Writers -> Held \cup {None}]
         /\ \A x \in Writers : handling'[x] # None =>
              /\ decided[handling'[x].msg] # None
              /\ handling'[x].step = "ack" => rows'[handling'[x].msg] # "none"
BY DEF RegisterInv, RegisterType, Backed, LetGo

-----------------------------------------------------------------------------
(* The steps of the register.                                              *)
LEMMA QuietIsCareful ==
  ASSUME RegisterInv, UNCHANGED <<decided, wire, rows, age, handling>>
  PROVE  RegisterInv'
<1>1. RegisterType'
  BY DEF RegisterInv, RegisterType
<1>2. \A i \in Ids : age[i] >= age[i]
  BY DEF RegisterInv, RegisterType
<1>3. Careful
  BY <1>2 DEF RegisterInv, Backed, Careful
<1> QED  BY <1>1, <1>3, CarefulKeeps

LEMMA DeliverKeeps ==
  ASSUME RegisterInv, NEW w \in Writers, NEW i \in Ids, Deliver(w, i)
  PROVE  RegisterInv'
<1>1. PICK h : h = [msg |-> i, step |-> "read"]
  OBVIOUS
<1>2. h \in Held /\ h.msg = i /\ h.step = "read"
  BY <1>1 DEF Held
<1>3. handling' = [handling EXCEPT ![w] = h] /\ wire' = [wire EXCEPT ![i] = "pending"]
  BY <1>1 DEF Deliver
<1>4. UNCHANGED <<decided, rows, age>> /\ wire[i] = "queued"
  BY DEF Deliver
<1>5. RegisterType'
  BY <1>2, <1>3, <1>4 DEF RegisterInv, RegisterType, Wires
<1>6. decided[i] # None
  BY <1>4 DEF RegisterInv, Backed
<1>7. \A x \in Writers : handling'[x] # None =>
        /\ decided[handling'[x].msg] # None
        /\ handling'[x].step = "ack" => rows'[handling'[x].msg] # "none"
  BY <1>2, <1>3, <1>4, <1>6 DEF RegisterInv, RegisterType, Backed
<1>8. \A j \in Ids : /\ wire'[j] # "none" => wire[j] # "none"
                     /\ wire'[j] = "acked" => wire[j] = "acked"
  BY <1>3, <1>4 DEF RegisterInv, RegisterType
<1>9. \A j \in Ids : age'[j] >= age[j]
  BY <1>4 DEF RegisterInv, RegisterType
<1>10. Careful
  BY <1>4, <1>7, <1>8, <1>9 DEF Careful
<1> QED  BY <1>5, <1>10, CarefulKeeps

(* A message changes hands or is dropped, and nothing else happens.        *)
LEMMA WireKeeps ==
  ASSUME RegisterInv, UNCHANGED <<decided, rows, age, handling>>, wire' \in [Ids -> Wires],
         \A j \in Ids : /\ wire'[j] # "none" => wire[j] # "none"
                        /\ wire'[j] = "acked" => wire[j] = "acked"
  PROVE  RegisterInv'
<1>1. RegisterType'
  BY DEF RegisterInv, RegisterType
<1>2. \A j \in Ids : age'[j] >= age[j]
  BY DEF RegisterInv, RegisterType
<1>3. \A x \in Writers : handling'[x] # None =>
        /\ decided[handling'[x].msg] # None
        /\ handling'[x].step = "ack" => rows'[handling'[x].msg] # "none"
  BY DEF RegisterInv, Backed
<1>4. Careful
  BY <1>2, <1>3 DEF Careful
<1> QED  BY <1>1, <1>4, CarefulKeeps

LEMMA RedeliverKeeps ==
  ASSUME RegisterInv, NEW i \in Ids, Redeliver(i)
  PROVE  RegisterInv'
<1>1. wire \in [Ids -> Wires] /\ wire[i] = "pending" /\ wire' = [wire EXCEPT ![i] = "queued"]
  BY DEF RegisterInv, RegisterType, Redeliver
<1>2. wire' \in [Ids -> Wires]
  BY <1>1 DEF Wires
<1>3. \A j \in Ids : /\ wire'[j] # "none" => wire[j] # "none"
                     /\ wire'[j] = "acked" => wire[j] = "acked"
  BY <1>1
<1> QED  BY <1>2, <1>3, WireKeeps DEF Redeliver

LEMMA ExpireKeeps ==
  ASSUME RegisterInv, NEW i \in Ids, Expire(i)
  PROVE  RegisterInv'
<1>1. /\ wire \in [Ids -> Wires] /\ wire[i] \in {"queued", "pending", "acked", "termed"}
      /\ wire' = [wire EXCEPT ![i] = "expired"]
  BY DEF RegisterInv, RegisterType, Expire
<1>2. wire' \in [Ids -> Wires]
  BY <1>1 DEF Wires
<1>3. \A j \in Ids : /\ wire'[j] # "none" => wire[j] # "none"
                     /\ wire'[j] = "acked" => wire[j] = "acked"
  BY <1>1
<1> QED  BY <1>2, <1>3, WireKeeps DEF Expire

(* A writer settles what it holds and lets go of it.                       *)
LEMMA SettleKeeps ==
  ASSUME RegisterInv, NEW w \in Writers, handling[w] # None, NEW how \in Wires, how # "none",
         Settled(handling[w].msg, how), LetGo(w), UNCHANGED <<decided, rows, age>>,
         how = "acked" => rows[handling[w].msg] # "none"
  PROVE  RegisterInv'
<1>1. handling[w].msg \in Ids
  BY HeldFields
<1>2. /\ wire' \in [Ids -> Wires]
      /\ \A j \in Ids : /\ wire'[j] # "none" => wire[j] # "none"
                        /\ wire'[j] = "acked" => wire[j] = "acked" \/ rows[j] # "none"
  BY <1>1, SettledWire
<1>3. /\ handling' \in [Writers -> Held \cup {None}]
      /\ \A x \in Writers : handling'[x] # None =>
           /\ decided[handling'[x].msg] # None
           /\ handling'[x].step = "ack" => rows'[handling'[x].msg] # "none"
  BY LetGoHandling
<1>4. RegisterType'
  BY <1>2, <1>3 DEF RegisterInv, RegisterType
<1>5. \A j \in Ids : age'[j] >= age[j]
  BY DEF RegisterInv, RegisterType
<1>6. Careful
  BY <1>2, <1>3, <1>5 DEF Careful
<1> QED  BY <1>4, <1>6, CarefulKeeps

LEMMA InsertKeeps ==
  ASSUME RegisterInv, NEW w \in Writers, handling[w] # None, Valid(decided[handling[w].msg]),
         InsertSucceeds(w), UNCHANGED <<decided, age>>
  PROVE  RegisterInv'
<1>1. PICK h : h = handling[w]
  OBVIOUS
<1>2. h \in Held /\ h.msg \in Ids /\ decided[h.msg] # None
  BY <1>1, HeldFields
<1>3. PICK k : k = [h EXCEPT !.step = "ack"]
  OBVIOUS
<1>4. k \in Held /\ k.msg = h.msg
  BY <1>2, <1>3, Zenon DEF Held
<1>5. handling' = [handling EXCEPT ![w] = k]
  <2>1. handling' = [handling EXCEPT ![w] = [handling[w] EXCEPT !.step = "ack"]]
    BY Zenon DEF InsertSucceeds
  <2> QED  BY <1>1, <1>3, <2>1, Zenon
<1>6. /\ rows' \in [Ids -> {"none", "row", "swept"}] /\ rows'[h.msg] = "row"
      /\ \A j \in Ids : j # h.msg => rows'[j] = rows[j]
  BY <1>1, <1>2 DEF InsertSucceeds, InsertAuditRecord, RegisterInv, RegisterType
<1>7. UNCHANGED wire
  BY DEF InsertSucceeds
<1>8. RegisterType'
  BY <1>4, <1>5, <1>6, <1>7 DEF RegisterInv, RegisterType
<1>9. \A x \in Writers : handling'[x] # None =>
        /\ decided[handling'[x].msg] # None
        /\ handling'[x].step = "ack" => rows'[handling'[x].msg] # "none"
  <2> TAKE x \in Writers
  <2>1. CASE x = w
    <3>1. handling'[x] = k
      BY <1>5, <2>1 DEF RegisterInv, RegisterType
    <3>2. rows'[k.msg] # "none" /\ decided[k.msg] # None
      BY <1>2, <1>4, <1>6
    <3> QED  BY <3>1, <3>2
  <2>2. CASE x # w /\ handling[x] # None
    <3>1. handling'[x] = handling[x]
      BY <1>5, <2>2 DEF RegisterInv, RegisterType
    <3>2. handling[x].msg \in Ids /\ decided[handling[x].msg] # None
      BY <2>2, HeldFields
    <3>3. handling[x].step = "ack" => rows[handling[x].msg] # "none"
      BY <2>2 DEF RegisterInv, Backed
    <3> QED  BY <1>6, <3>1, <3>2, <3>3
  <2>3. CASE x # w /\ handling[x] = None
    BY <1>5, <2>3 DEF RegisterInv, RegisterType
  <2> QED  BY <2>1, <2>2, <2>3
<1>10. \A j \in Ids : age'[j] >= age[j]
  BY DEF RegisterInv, RegisterType
<1>11. \A j \in Ids :
         /\ rows[j] # "none" => rows'[j] # "none"
         /\ rows'[j] # "none" => rows[j] # "none" \/ (decided[j] # None /\ Valid(decided[j]))
         /\ rows'[j] = "swept" => rows[j] = "swept"
  BY <1>1, <1>2, <1>6
<1>12. Careful
  BY <1>7, <1>9, <1>10, <1>11 DEF Careful
<1> QED  BY <1>8, <1>12, CarefulKeeps

LEMMA HandleKeeps ==
  ASSUME RegisterInv, NEW w \in Writers, Handle(w)
  PROVE  RegisterInv'
<1>1. handling[w] # None /\ UNCHANGED <<decided, age>>
  BY DEF Handle, HandleRecordMsg, AckRecord, Holds
<1>2. "termed" \in Wires /\ "queued" \in Wires /\ "acked" \in Wires
  BY DEF Wires
<1>3. CASE HandleRecordMsg(w)
  <2>1. CASE Settled(handling[w].msg, "termed") /\ LetGo(w) /\ UNCHANGED rows
    BY <1>1, <1>2, <2>1, SettleKeeps
  <2>2. CASE InsertFails(w)
    BY <1>1, <1>2, <2>2, SettleKeeps DEF InsertFails
  <2>3. CASE Valid(decided[handling[w].msg]) /\ InsertSucceeds(w)
    BY <1>1, <2>3, InsertKeeps
  <2> QED  BY <1>3, <2>1, <2>2, <2>3 DEF HandleRecordMsg
<1>4. CASE AckRecord(w)
  <2>1. rows[handling[w].msg] # "none"
    BY <1>1, <1>4 DEF AckRecord, Holds, RegisterInv, Backed
  <2> QED  BY <1>1, <1>2, <1>4, <2>1, SettleKeeps DEF AckRecord
<1> QED  BY <1>3, <1>4 DEF Handle

LEMMA CrashKeeps ==
  ASSUME RegisterInv, NEW w \in Writers, CrashWriter(w)
  PROVE  RegisterInv'
<1>1. "queued" \in Wires
  BY DEF Wires
<1> QED  BY <1>1, SettleKeeps DEF CrashWriter

LEMMA GrowOlderKeeps ==
  ASSUME RegisterInv, NEW i \in Ids, GrowOlder(i)
  PROVE  RegisterInv'
<1> USE AuditAssumption DEF AuditAssumption
<1>1. age \in [Ids -> 0..MaxAge] /\ age[i] < MaxAge /\ age' = [age EXCEPT ![i] = @ + 1]
  BY DEF RegisterInv, RegisterType, GrowOlder
<1>2. age' \in [Ids -> 0..MaxAge] /\ \A j \in Ids : age'[j] >= age[j]
  BY <1>1
<1>3. UNCHANGED <<decided, wire, rows, handling>>
  BY DEF GrowOlder
<1>4. RegisterType'
  BY <1>2, <1>3 DEF RegisterInv, RegisterType
<1>5. Careful
  BY <1>2, <1>3 DEF RegisterInv, Backed, Careful
<1> QED  BY <1>4, <1>5, CarefulKeeps

LEMMA CleanupKeeps ==
  ASSUME RegisterInv, CleanupCycle
  PROVE  RegisterInv'
<1>1. UNCHANGED <<decided, wire, age, handling>>
  BY DEF CleanupCycle
<1>2. /\ rows' \in [Ids -> {"none", "row", "swept"}]
      /\ \A j \in Ids : \/ rows'[j] = rows[j]
                        \/ rows[j] = "row" /\ rows'[j] = "swept" /\ age[j] > Retention
  BY DEF CleanupCycle, DeleteOlderThan, RegisterInv, RegisterType
<1>3. RegisterType'
  BY <1>1, <1>2 DEF RegisterInv, RegisterType
<1>4. \A j \in Ids : age'[j] >= age[j]
  BY <1>1 DEF RegisterInv, RegisterType
<1>5. \A j \in Ids :
        /\ rows[j] # "none" => rows'[j] # "none"
        /\ rows'[j] # "none" => rows[j] # "none"
        /\ rows'[j] = "swept" => rows[j] = "swept" \/ age[j] > Retention
  BY <1>2
<1>6. \A x \in Writers : handling'[x] # None =>
        /\ decided[handling'[x].msg] # None
        /\ handling'[x].step = "ack" => rows'[handling'[x].msg] # "none"
  <2> TAKE x \in Writers
  <2> HAVE handling'[x] # None
  <2>1. handling'[x] = handling[x] /\ handling[x].msg \in Ids /\ decided[handling[x].msg] # None
    BY <1>1, HeldFields
  <2>2. handling[x].step = "ack" => rows[handling[x].msg] # "none"
    BY <2>1 DEF RegisterInv, Backed
  <2> QED  BY <1>5, <2>1, <2>2
<1>7. Careful
  BY <1>1, <1>4, <1>5, <1>6 DEF Careful
<1> QED  BY <1>3, <1>7, CarefulKeeps

(* Guard: nothing was known of the identifier, so nothing can contradict   *)
(* the decision.                                                           *)
LEMMA GuardKeeps ==
  ASSUME SessionInv, RegisterInv, NEW i \in Ids, NEW act \in allActions, NEW r \in Asked, Guard(i, act, r)
  PROVE  /\ RegisterInv' /\ Truthful(decided'[i])
         /\ \A j \in Ids : j # i => decided'[j] = decided[j]
<1> USE AuditAssumption DEF AuditAssumption
<1>1. PICK p : p = IF issued = Nobody THEN NoPrincipal ELSE who
  OBVIOUS
<1>2. PICK d : d = Record(act, r, Decide(p, act, r))
  OBVIOUS
<1>3. d \in Records /\ Truthful(d)
  BY <1>1, <1>2, Decision
<1>4. decided' = [decided EXCEPT ![i] = d] /\ decided[i] = None
  BY <1>1, <1>2 DEF Guard
<1>5. UNCHANGED <<rows, age, handling>>
  BY DEF Guard
<1>6. /\ decided \in [Ids -> Records \cup {None}] /\ wire \in [Ids -> Wires]
  BY DEF RegisterInv, RegisterType
<1>7. /\ decided' \in [Ids -> Records \cup {None}] /\ decided'[i] = d
      /\ \A j \in Ids : j # i => decided'[j] = decided[j]
  BY <1>3, <1>4, <1>6
<1>8. d # None
  BY <1>3
<1>9. wire[i] = "none" /\ rows[i] = "none"
  BY <1>4 DEF RegisterInv, Backed
<1>10. /\ wire' \in [Ids -> Wires] /\ wire'[i] # "acked"
       /\ \A j \in Ids : j # i => wire'[j] = wire[j]
  <2>1. CASE recorder = "log"
    BY <1>6, <1>9, <2>1 DEF Guard, Publish
  <2>2. ASSUME NEW x \in {"queued", "lost"}, wire' = [wire EXCEPT ![i] = x]
        PROVE  /\ wire' \in [Ids -> Wires] /\ wire'[i] # "acked"
               /\ \A j \in Ids : j # i => wire'[j] = wire[j]
    BY <1>6, <2>2 DEF Wires
  <2> QED  BY <1>6, <1>9, <2>2 DEF Guard, Publish
<1>11. RegisterType'
  BY <1>5, <1>7, <1>10 DEF RegisterInv, RegisterType
<1>12. Backed'
  <2>1. \A x \in Writers : handling'[x] # None =>
          /\ decided'[handling'[x].msg] # None
          /\ handling'[x].step = "ack" => rows'[handling'[x].msg] # "none"
    <3> TAKE x \in Writers
    <3> HAVE handling'[x] # None
    <3>1. handling'[x] = handling[x] /\ handling[x].msg \in Ids /\ decided[handling[x].msg] # None
      BY <1>5, HeldFields
    <3>2. decided'[handling[x].msg] # None
      BY <1>4, <1>7, <3>1
    <3>3. handling[x].step = "ack" => rows[handling[x].msg] # "none"
      BY <3>1 DEF RegisterInv, Backed
    <3> QED  BY <1>5, <3>1, <3>2, <3>3
  <2>2. \A j \in Ids : wire'[j] # "none" \/ rows'[j] # "none" => decided'[j] # None
    BY <1>5, <1>7, <1>8, <1>10 DEF RegisterInv, Backed
  <2>3. \A j \in Ids : rows'[j] = "swept" => age'[j] > Retention
    BY <1>5 DEF RegisterInv, Backed
  <2> QED  BY <2>1, <2>2, <2>3 DEF Backed
<1>13. AckedIsStored'
  <2> SUFFICES ASSUME NEW j \in Ids
               PROVE  /\ wire'[j] = "acked" => rows'[j] # "none"
                      /\ rows'[j] # "none" => Valid(decided'[j])
    BY DEF AckedIsStored, Valid
  <2>1. CASE j = i
    BY <1>5, <1>9, <1>10, <2>1
  <2>2. CASE j # i
    BY <1>5, <1>7, <1>10, <2>2 DEF RegisterInv, AckedIsStored
  <2> QED  BY <2>1, <2>2
<1> QED  BY <1>3, <1>7, <1>11, <1>12, <1>13 DEF RegisterInv

-----------------------------------------------------------------------------
(* The invariant of the whole.                                             *)
AuditInv ==
  /\ SessionInv /\ RegisterInv
  /\ \A i \in Ids : decided[i] # None => Truthful(decided[i])

LEMMA AuditInitially ==
  ASSUME AuditInit
  PROVE  AuditInv
<1> USE AuditAssumption DEF AuditAssumption
<1>1. SessionInv
  BY NobodySession DEF AuditInit
<1>2. RegisterInv
  BY DEF AuditInit, RegisterInv, RegisterType, Backed, AckedIsStored, Wires
<1>3. \A i \in Ids : decided[i] = None
  BY DEF AuditInit
<1> QED  BY <1>1, <1>2, <1>3 DEF AuditInv

LEMMA SessionKept ==
  ASSUME SessionInv, UNCHANGED sessionVars
  PROVE  SessionInv'
BY DEF SessionInv, SessionType, HoldsLawful, sessionVars

LEMMA TruthKept ==
  ASSUME AuditInv, UNCHANGED decided
  PROVE  \A i \in Ids : decided'[i] # None => Truthful(decided'[i])
BY DEF AuditInv

LEMMA AuditStep ==
  ASSUME AuditInv, [AuditNext]_auditVars
  PROVE  AuditInv'
<1> USE DEF AuditInv
<1>1. ASSUME UNCHANGED <<decided, wire, rows, age, handling>>, SessionInv'
      PROVE  AuditInv'
  BY <1>1, QuietIsCareful, TruthKept
<1>2. ASSUME UNCHANGED sessionVars, UNCHANGED decided, RegisterInv'
      PROVE  AuditInv'
  BY <1>2, SessionKept, TruthKept
<1>3. CASE UNCHANGED auditVars
  BY <1>1, <1>3, SessionKept DEF auditVars
<1>4. ASSUME NEW role \in RoleNames, NEW place \in Places, NEW claim \in Claims, Issue(role, place, claim)
      PROVE  AuditInv'
  <2>1. SessionInv'
    BY <1>4, IssueSession
  <2> QED  BY <1>1, <1>4, <2>1 DEF Issue
<1>5. ASSUME NEW asked \in SUBSET Asked, Narrow(asked)
      PROVE  AuditInv'
  <2>1. SessionInv'
    BY <1>5, NarrowSession
  <2> QED  BY <1>1, <1>5, <2>1 DEF Narrow
<1>6. ASSUME NEW i \in Ids, NEW a \in allActions, NEW r \in Asked, Guard(i, a, r)
      PROVE  AuditInv'
  <2>1. /\ RegisterInv' /\ Truthful(decided'[i])
        /\ \A j \in Ids : j # i => decided'[j] = decided[j]
    BY <1>6, GuardKeeps
  <2>2. issued' = Nobody /\ who' = NoPrincipal
    BY <1>6 DEF Guard
  <2>3. SessionInv'
    BY <2>2, NobodyNext
  <2>4. \A j \in Ids : decided'[j] # None => Truthful(decided'[j])
    BY <2>1
  <2> QED  BY <2>1, <2>3, <2>4
<1>7. ASSUME NEW r \in {"log", "publishing"}, StartAuditRecording(r)
      PROVE  AuditInv'
  BY <1>1, <1>7, SessionKept DEF StartAuditRecording
<1>8. ASSUME NEW w \in Writers, NEW i \in Ids, Deliver(w, i)
      PROVE  AuditInv'
  BY <1>2, <1>8, DeliverKeeps DEF Deliver
<1>9. ASSUME NEW w \in Writers, Handle(w)
      PROVE  AuditInv'
  BY <1>2, <1>9, HandleKeeps DEF Handle, HandleRecordMsg, AckRecord
<1>10. ASSUME NEW w \in Writers, CrashWriter(w)
       PROVE  AuditInv'
  BY <1>2, <1>10, CrashKeeps DEF CrashWriter
<1>11. ASSUME NEW i \in Ids, Redeliver(i)
       PROVE  AuditInv'
  BY <1>2, <1>11, RedeliverKeeps DEF Redeliver
<1>12. ASSUME NEW i \in Ids, GrowOlder(i)
       PROVE  AuditInv'
  BY <1>2, <1>12, GrowOlderKeeps DEF GrowOlder
<1>13. ASSUME NEW i \in Ids, Expire(i)
       PROVE  AuditInv'
  BY <1>2, <1>13, ExpireKeeps DEF Expire
<1>14. CASE CleanupCycle
  BY <1>2, <1>14, CleanupKeeps DEF CleanupCycle
<1> QED  BY <1>3, <1>4, <1>5, <1>6, <1>7, <1>8, <1>9, <1>10, <1>11, <1>12, <1>13, <1>14 DEF AuditNext

(* Every behaviour keeps the invariant.                                    *)
THEOREM AuditInvariant == AuditSpec => []AuditInv
<1>1. AuditInit => AuditInv
  BY AuditInitially
<1>2. AuditInv /\ [AuditNext]_auditVars => AuditInv'
  BY AuditStep
<1> QED  BY <1>1, <1>2, PTL DEF AuditSpec

(* Every variable of the register keeps its type, messages are handled for *)
(* decisions only and rows are swept only once they are older than the     *)
(* retention (DeleteOlderThan).                                            *)
THEOREM AuditTypes == AuditSpec => []AuditTypeOK
<1>1. AuditInv => AuditTypeOK
  BY DEF AuditInv, RegisterInv, RegisterType, Backed, Wires, AuditTypeOK
<1> QED  BY <1>1, AuditInvariant, PTL

(* Guard allows what the Role means at the place the credential was issued *)
(* for, never more, and without a narrowing never less.                    *)
THEOREM DecisionsAreTrue == AuditSpec => []AllowedIsTrue
<1>1. AuditInv => AllowedIsTrue
  BY Zenon DEF AuditInv, AllowedIsTrue, Truthful
<1> QED  BY <1>1, AuditInvariant, PTL

(* The writer acknowledges a message only once its row has been stored,    *)
(* and stores only what validate accepts (handleRecordMsg).                *)
THEOREM AcksFollowRows == AuditSpec => []AckedIsStored
<1>1. AuditInv => AckedIsStored
  BY DEF AuditInv, RegisterInv
<1> QED  BY <1>1, AuditInvariant, PTL

=============================================================================
