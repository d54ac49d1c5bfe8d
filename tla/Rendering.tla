------------------------------ MODULE Rendering -------------------------------
(***************************************************************************)
(* The text of an Envelope: what internal/envelope makes of a Batch's HTML, *)
(* headers and unsubscribe endpoint for one Delivery, with the placeholders *)
(* of internal/utils/template.go, the DKIM signature and the wire form.     *)
(*                                                                          *)
(* A text is a sequence of pieces: words, placeholders, opening <a> tags    *)
(* and the end of the body.  The value of a field is one piece.  A Go map   *)
(* is ranged over in any order, so that what depends on it has a set of     *)
(* results.  Whom the tokens name is in Tokens.                             *)
(***************************************************************************)
EXTENDS Naturals, SequencesExt

CONSTANTS
  Pages,       \* bound: the HTML of Templates
  FieldMaps,   \* bound: the fields a Recipient may come with
  Endpoints    \* bound: the URL templates of one-click unsubscribe

VARIABLES
  draft,     \* the Delivery as it was taken in, with what its Batch states
  envelope   \* the Envelope that was last built of it

renderVars == <<draft, envelope>>

-----------------------------------------------------------------------------
Piece(k, of)     == [kind |-> k, of |-> of]
Word(w)          == Piece("word", w)
Hole(name)       == Piece("hole", name)       \* {{ name }}
Expansion        == Piece("dollar", "1")      \* $1
Tag(href, opts)  == [kind |-> "a", of |-> "tag", href |-> href, opts |-> opts]
BodyClose        == Piece("close", "body")
NoHref           == Piece("none", "")
Tracked(href)    == [kind |-> "tracked", of |-> "", url |-> href]   \* a tracking URL for href
Pixel            == Piece("pixel", "")

(* The pattern that a key makes.  One key stands for a pattern that fits   *)
(* every name, another for one that does not compile.                      *)
Matches(key, name) == key # "(" /\ key \in {name, "[a-z]*"}

Filled(p, key, v) == IF p.kind = "hole" /\ Matches(key, p.of) THEN v ELSE p

(* reg.ReplaceAllString, in text and in the attributes of tags.            *)
Substituted(str, key, v) ==
  [i \in DOMAIN str |-> IF str[i].kind = "a" THEN Tag(Filled(str[i].href, key, v), str[i].opts)
                        ELSE Filled(str[i], key, v)]

(* ReplaceAllString expands $ in what it puts in.                          *)
Expand(v) == IF v = Expansion THEN Word("") ELSE v

(* The loop over the fields, in one order.                                 *)
InOrder(str, values, order) ==
  LET after[n \in 0..Len(order)] ==
        IF n = 0 THEN str ELSE Substituted(after[n - 1], order[n], Expand(values[order[n]]))
  IN  after[Len(order)]

(* The values come as escape has left them.                                *)
replaceCustomFields(str, values) ==
  {InOrder(str, values, order) : order \in SetToSeqs(DOMAIN values)}

QueryEscape(v) == [kind |-> "coded", of |-> "", value |-> v]   \* braces and $ are encoded too

ReplaceCustomFields(str, fields) == replaceCustomFields(str, fields)

(* Mutant: the values go into the URL as they are.                         *)
ReplaceUnescaped(str, fields) == replaceCustomFields(str, fields)

ReplaceCustomFieldsInURL(str, fields) ==
  replaceCustomFields(str, [k \in DOMAIN fields |-> QueryEscape(fields[k])])

HasUnresolvedPlaceholders(str) == \E i \in DOMAIN str : str[i].kind = "hole"

(* The address is a default that a field of that name overrides.           *)
EffectiveFields(email, fields) ==
  [k \in DOMAIN fields \cup {"email"} |-> IF k \in DOMAIN fields THEN fields[k] ELSE Word(email)]

(* What authors write: no pixel, and tags with an address and opt-outs.    *)
IsPiece(p) == p.kind # "pixel" /\ (p.kind = "a" => p = Tag(p.href, p.opts) /\ p.opts \in Nat)
IsText(t)  == t \in Seq(ToSet(t)) /\ \A i \in DOMAIN t : IsPiece(t[i])

ASSUME RenderAssumption ==
  /\ \A html \in Pages : IsText(html)
  /\ \A f \in FieldMaps : IsFiniteSet(DOMAIN f) /\ \A key \in DOMAIN f : IsPiece(f[key])
  /\ \A u \in Endpoints : IsText(u) /\ \A i \in DOMAIN u : u[i].kind \in {"word", "hole"}

-----------------------------------------------------------------------------
(* OneClickUnsubscribe.  A Batch without one has the empty template; any   *)
(* other must begin with https and a host.                                 *)
IsZero(u)   == u = <<>>
validate(u) == IsZero(u) \/ u[1] = Word("https://host/")

(* Intake: the answers unresolvedUnsubscribeURL may give.                  *)
unresolvedUnsubscribeURL(u, email, fields) ==
  IF IsZero(u) THEN {FALSE}
  ELSE {HasUnresolvedPlaceholders(s) : s \in ReplaceCustomFieldsInURL(u, EffectiveFields(email, fields))}

(* The Builder, from the row.                                              *)
resolveUnsubscribeURL(u, fields) ==
  IF IsZero(u) THEN {<<>>}
  ELSE {IF HasUnresolvedPlaceholders(s) THEN <<>> ELSE s : s \in ReplaceCustomFieldsInURL(u, fields)}

-----------------------------------------------------------------------------
(* Links and the pixel.                                                    *)
isTrackableLink(href) == ~(href.kind = "word" /\ href.of \in {"mailto:", "tel:", "sms:", "#", ""})

rewriteATag(tag) ==
  IF tag.opts > 0 \/ tag.href = NoHref \/ ~isTrackableLink(tag.href) THEN tag
  ELSE Tag(Tracked(tag.href), tag.opts)

replaceLinks(html) == [i \in DOMAIN html |-> IF html[i].kind = "a" THEN rewriteATag(html[i]) ELSE html[i]]

(* The loop takes one spelling of the attribute after the other.           *)
stripNoTrackAttrs(html) ==
  [i \in DOMAIN html |-> IF html[i].kind = "a" THEN Tag(html[i].href, 0) ELSE html[i]]

(* Before the first end of the body, and nowhere without one.              *)
insertTrackLinkInHTML(html) ==
  LET ends == {i \in DOMAIN html : html[i] = BodyClose}
  IN  IF ends = {} THEN html ELSE InsertAt(html, Min(ends), Pixel)

(* Mutant: the opt-out is gone before it is looked at.                     *)
StripsFirst(html, policy) ==
  LET stripped == stripNoTrackAttrs(html)
      linked   == IF policy.links = "off" THEN stripped ELSE replaceLinks(stripped)
  IN  IF policy.opens = "off" THEN linked ELSE insertTrackLinkInHTML(linked)

(* preparedHTML, of a text whose placeholders are filled.                  *)
preparedHTML(html, policy) ==
  LET linked   == IF policy.links = "off" THEN html ELSE replaceLinks(html)
      stripped == stripNoTrackAttrs(linked)
  IN  IF policy.opens = "off" THEN stripped ELSE insertTrackLinkInHTML(stripped)

-----------------------------------------------------------------------------
(* Headers, each with one value.  The Batch's To stands in for the         *)
(* Recipient's address; a Batch without one, or without a Cc, has <<>>.    *)
(* Those that neither the signature nor a property names are left out.     *)
buildHeaders(subject, d, url) ==
  [name \in {"Subject", "From", "MessageID", "To"}
              \cup (IF d.headers.Cc = <<>> THEN {} ELSE {"Cc"})
              \cup (IF url = <<>> THEN {} ELSE {"ListUnsubscribe", "ListUnsubscribePost"}) |->
     CASE name = "Subject"             -> subject
       [] name = "From"                -> <<d.sender>>
       [] name = "MessageID"           -> <<d.email>>
       [] name = "To"                  -> IF d.headers.To # <<>> THEN d.headers.To ELSE <<d.email>>
       [] name = "Cc"                  -> d.headers.Cc
       [] name = "ListUnsubscribe"     -> url
       [] name = "ListUnsubscribePost" -> <<Word("One-Click")>>]

Header(name, value) == [name |-> name, value |-> value]

(* renderMsg and writeMessage: the headers and then the body.              *)
renderMsg(html, h) ==
  [headers |-> LET names == SetToSeq(DOMAIN h)
               IN [i \in DOMAIN names |-> Header(names[i], h[names[i]])],
   html |-> html]

dkimSignedHeaders ==
  <<"From", "To", "Cc", "Subject", "MessageID", "ListUnsubscribe", "ListUnsubscribe",
    "ListUnsubscribePost", "ListUnsubscribePost">>

(* What a DKIM signature over these names covers: instances of a name are  *)
(* taken from the bottom, and one that is not there is covered as such.    *)
FromBottom(headers, name, nth) ==
  LET here == {i \in DOMAIN headers : headers[i].name = name}
      at   == {i \in here : Cardinality({j \in here : j >= i}) = nth}
  IN  IF at = {} THEN Header(name, <<>>) ELSE headers[CHOOSE i \in at : TRUE]

Covered(headers) ==
  [i \in DOMAIN dkimSignedHeaders |->
     LET name == dkimSignedHeaders[i]
     IN  FromBottom(headers, name, Cardinality({j \in 1..i : dkimSignedHeaders[j] = name}))]

signMessage(msg) == [msg |-> msg, signature |-> Covered(msg.headers)]

Authenticates(signed, headers) == Covered(headers) = signed.signature

(* Build, and the Envelope as the SMTPSender reads it.                     *)
prepareMessage(d) ==
  LET fields == EffectiveFields(d.email, d.fields)
  IN  {renderMsg(preparedHTML(html, d.policy), buildHeaders(subject, d, url)) :
         html \in ReplaceCustomFields(d.html, fields),
         subject \in ReplaceCustomFields(d.subject, fields),
         url \in resolveUnsubscribeURL(d.unsubscribe, fields)}

Built(d) ==
  {[emailId |-> d.email, from |-> d.sender, to |-> d.email, returnPath |-> d.email,
    body |-> signMessage(msg), shouldRetry |-> d.canRetry] : msg \in prepareMessage(d)}

FromEnvelope(env) ==
  [EmailId |-> env.emailId, From |-> env.from, To |-> env.to, ReturnPath |-> env.returnPath,
   Body |-> env.body, ShouldRetry |-> env.shouldRetry]
ToEnvelope(m) ==
  [emailId |-> m.EmailId, from |-> m.From, to |-> m.To, returnPath |-> m.ReturnPath,
   body |-> m.Body, shouldRetry |-> m.ShouldRetry]

Envelopes(d) == {ToEnvelope(FromEnvelope(env)) : env \in Built(d)}

-----------------------------------------------------------------------------
Draft(html, fields, policy, u) ==
  [email |-> "someone", sender |-> "us", subject |-> <<Word("news")>>, html |-> html,
   fields |-> fields, policy |-> policy, unsubscribe |-> u, canRetry |-> TRUE,
   headers |-> [To |-> <<"list">>, Cc |-> <<>>]]

NoDraft == [email |-> "nobody"]
Unbuilt == [emailId |-> "nobody"]

(* What may be sent: any page under any Policy, any endpoint.              *)
Policies == [links : {"off", "full"}, opens : {"off", "full"}]
Drafts ==
  {Draft(html, f, policy, <<>>) : html \in Pages, f \in FieldMaps, policy \in Policies}
    \cup {Draft(<<BodyClose>>, f, [links |-> "off", opens |-> "off"], u) : f \in FieldMaps, u \in Endpoints}

(* The mailer's own check of the endpoint and of each Recipient.           *)
TakenIn(d) ==
  /\ validate(d.unsubscribe)
  /\ FALSE \in unresolvedUnsubscribeURL(d.unsubscribe, d.email, d.fields)

RenderIdle == draft = NoDraft /\ envelope = Unbuilt
RenderInit == draft \in {d \in Drafts : TakenIn(d)} /\ envelope = Unbuilt

(* A Build for each attempt.                                               *)
Render ==
  /\ envelope' \in Envelopes(draft)
  /\ UNCHANGED draft

RenderSpec == RenderInit /\ [][Render]_renderVars

-----------------------------------------------------------------------------
(* A field of that Recipient that the pattern of the hole asks for.        *)
FillsHole(fields, hole, p) ==
  \E key \in DOMAIN fields : Matches(key, hole.of) /\ p = QueryEscape(fields[key])

(* The URL of u: nothing but its placeholders has changed.                 *)
FilledIn(url, u, fields) ==
  /\ Len(url) = Len(u)
  /\ \A i \in DOMAIN u : IF u[i].kind = "hole" THEN FillsHole(fields, u[i], url[i]) ELSE url[i] = u[i]

ValuesOf(headers, name) == {headers[i].value : i \in {j \in DOMAIN headers : headers[j].name = name}}

(* No header of that name can be added without breaking the signature.     *)
Sealed(signed, name) ==
  LET headers == signed.msg.headers
  IN  \A i \in 1..Len(headers) + 1 :
        ~Authenticates(signed, InsertAt(headers, i, Header(name, <<Word("other")>>)))

(* A Recipient that intake has let in with a one-click endpoint gets it:   *)
(* whatever the order its fields are put in, at intake and at every Build, *)
(* each mail carries both headers, with the sender's URL in which only the *)
(* placeholders have changed, each for an encoded value; and no copy of    *)
(* either header that is added on the way is covered by the signature      *)
(* (unresolvedUnsubscribeURL, resolveUnsubscribeURL, buildHeaders,         *)
(* dkimSignedHeaders).                                                     *)
UnsubscribeIsHonoured ==
  envelope # Unbuilt /\ ~IsZero(draft.unsubscribe) =>
    LET headers == envelope.body.msg.headers
    IN /\ ValuesOf(headers, "ListUnsubscribePost") = {<<Word("One-Click")>>}
       /\ \E url \in ValuesOf(headers, "ListUnsubscribe") :
            FilledIn(url, draft.unsubscribe, EffectiveFields(draft.email, draft.fields))
       /\ Sealed(envelope.body, "ListUnsubscribe") /\ Sealed(envelope.body, "ListUnsubscribePost")

(* What a piece of a page is sent as.                                      *)
SentAs(p, policy) ==
  IF p.kind # "a" THEN p
  ELSE Tag(IF policy.links # "off" /\ p.opts = 0 /\ p.href # NoHref /\ isTrackableLink(p.href)
           THEN Tracked(p.href) ELSE p.href, 0)

(* What is sent of a page: its pieces, in their order, and the pixel.     *)
AsStated(sent, page, policy) ==
  LET text == {i \in DOMAIN sent : sent[i] # Pixel}
      ends == {i \in DOMAIN page : page[i] = BodyClose}
  IN /\ \E at \in [DOMAIN page -> text] :
          /\ \A i, j \in DOMAIN page : i < j => at[i] < at[j]
          /\ \A k \in text : \E i \in DOMAIN page : k = at[i]
          /\ \A i \in DOMAIN page : sent[at[i]] = SentAs(page[i], policy)
     /\ DOMAIN sent \ text = IF policy.opens # "off" /\ ends # {} THEN {Min(ends)} ELSE {}

(* The HTML that goes out is the author's, with the fields put in, but for *)
(* what the Policy of each channel adds: a link is a tracking URL exactly  *)
(* if links are tracked, a redirect can serve it and its tag does not opt  *)
(* out, links that a field has brought in included; the opt-out itself is  *)
(* never sent; the pixel stands before the end of the body, once, if opens *)
(* are tracked (preparedHTML).                                             *)
DeliveredAsStated ==
  envelope # Unbuilt =>
    \E page \in ReplaceCustomFields(draft.html, EffectiveFields(draft.email, draft.fields)) :
      AsStated(envelope.body.msg.html, page, draft.policy)

=============================================================================
