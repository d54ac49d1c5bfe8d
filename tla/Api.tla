--------------------------------- MODULE Api ---------------------------------
(***************************************************************************)
(* The API process: the Admin API (pkg/api/adminapi over the guarded        *)
(* services of internal/domains, internal/templates, internal/apikeys)      *)
(* beside the Mailer API, on the same tables.  An operation of a single     *)
(* statement is one action; the others take a slot of req and one step per  *)
(* statement.                                                               *)
(***************************************************************************)
EXTENDS Mailer

CONSTANTS
  Expiries,  \* what expires_at of a new key may be
  Retuned,   \* bound: the Domains whose policy is changed
  Senders    \* bound: the slots that a send may take

ASSUME ApiAssumption ==
  /\ Expiries \subseteq {"never", "ahead", "past"}
  /\ Retuned \subseteq Names
  /\ Senders \subseteq Requests

apiVars == <<tenantVars, mailVars>>

AdminPrincipal == NewPrincipal("admin-token", {Grant("admin", RootAnchor)})

(* adminTokenInterceptor and attributed: whom a request that presents the  *)
(* token acts as.  Any other request is refused at the edge, and so is one *)
(* with a malformed claim.                                                 *)
Authenticated == {AdminPrincipal, WithAttribution(AdminPrincipal, "operator")}

Guarded(a, r) == \E p \in Authenticated : Decide(p, a, r) = "allowed"

-----------------------------------------------------------------------------
(* Operations of one statement that writes.                                *)
AdminCreateDomain(d) ==
  /\ Guarded("create", Domains)
  /\ CreateDomain(d)
  /\ UNCHANGED <<keys, templates, locked, mailVars>>

SetTrackingPolicy(d, m) ==
  /\ Guarded("update", Domain(d))
  /\ SetDomainTracking(d, Normalized(m))
  /\ UNCHANGED <<keys, templates, locked, mailVars>>

AdminCreateAPIKey(k, d, expiry) ==
  /\ Guarded("create", APIKeys(d))
  /\ CreateAPIKey(k, d, expiry)
  /\ UNCHANGED <<domains, templates, locked, mailVars>>

(* The table does not ask for the Domain to be registered.                 *)
AdminCreateTemplate(d) ==
  /\ Guarded("create", Templates(d))
  /\ Cardinality(Made("template")) < MaxTemplates
  /\ CreateTemplate(newTemplateID, d, "template")
  /\ UNCHANGED <<domains, keys, locked, mailVars>>

-----------------------------------------------------------------------------
(* The start of an operation that takes a slot: the edge, then the Guard.  *)
Begin(q, op, a, resource, r) ==
  /\ req[q] = Idle
  /\ Guarded(a, resource)
  /\ Goes(q, IF r.pc = "done" THEN r ELSE [r EXCEPT !.op = op])
  /\ UNCHANGED <<tenantVars, batches, deliveries>>

Unauthenticated(q) == req[q] = Idle /\ Refuse(q)

Found(exists) == Ended(IF exists THEN "ok" ELSE "not_found", NotListed)

GetDomain(q, d) == Begin(q, "GetDomain", "read", Domain(d), Found(Registered(d)))
GetDomains(q)   == Begin(q, "GetDomains", "list", Domains, Found(TRUE))
GetAPIKey(q, k, d) == Begin(q, "GetAPIKey", "read", APIKey(d, k), Found(FoundKey(k, d)))

(* An id nobody made names no Domain and is refused before the Guard.      *)
KnownIds == {t \in TemplateIds : templates[t] # NoTemplate}

AdminGetTemplate(q, t) ==
  Begin(q, "GetTemplate", "read", Template(DomainFromID(t), t),
        Found(FindTemplate(t, DomainFromID(t))))

(* ListKeys and GetTemplates of a Domain: the page, then the total.        *)
ListKeys(q, d, onlyActive) ==
  Begin(q, "ListAPIKeys", "list", APIKeys(d),
        [Idle EXCEPT !.pc = "count", !.read = KeysListed(d, onlyActive)])

ListTemplates(q, d) ==
  Begin(q, "GetTemplates", "list", Templates(d),
        [Idle EXCEPT !.pc = "count", !.read = TemplatesListed(d)])

Count(q) == req[q].pc = "count" /\ Answer(q, "ok")

-----------------------------------------------------------------------------
(* DeactivateKey: Repository.Update in a transaction.                      *)
Deactivating(q, k, d) ==
  Begin(q, "DeactivateAPIKey", "delete", APIKey(d, k),
        [Idle EXCEPT !.dom = d, !.ref = k, !.pc = "lock"])

LockKey(q) ==
  /\ At(q, "DeactivateAPIKey", "lock")
  /\ \/ /\ GetAPIKeyByIDForUpdate(req[q].ref, req[q].dom, q)
        /\ Goes(q, [req[q] EXCEPT !.read = keys[req[q].ref], !.pc = "commit"])
        /\ UNCHANGED <<domains, keys, templates, batches, deliveries>>
     \/ ~FoundKey(req[q].ref, req[q].dom) /\ Answer(q, "not_found")

DeactivateKey(q) ==
  /\ At(q, "DeactivateAPIKey", "commit")
  /\ UpdateAPIKey(req[q].ref, Deactivate(req[q].read, q))
  /\ Goes(q, Ended("ok", NotListed))
  /\ locked' = Released(q)
  /\ UNCHANGED <<domains, templates, batches, deliveries>>

-----------------------------------------------------------------------------
(* UpdateTemplate and DeleteTemplate: the load under the Domain of the id, *)
(* then the statements that address the row by its id alone.               *)
Changes == [UpdateTemplate |-> "update", DeleteTemplate |-> "delete"]

ChangeTemplate(q, op, t) ==
  Begin(q, op, Changes[op], Template(DomainFromID(t), t),
        IF FindTemplate(t, DomainFromID(t))
        THEN [Idle EXCEPT !.dom = DomainFromID(t), !.ref = t,
                          !.pc = IF op = "UpdateTemplate" THEN "get" ELSE "write"]
        ELSE Found(FALSE))

ReloadTemplate(q) ==
  /\ At(q, "UpdateTemplate", "get")
  /\ Goes(q, IF GetTemplate(req[q].ref) THEN [req[q] EXCEPT !.pc = "write"]
             ELSE Found(FALSE))
  /\ UNCHANGED <<tenantVars, batches, deliveries>>

WriteTemplate(q) ==
  /\ req[q].op \in DOMAIN Changes /\ req[q].pc = "write"
  /\ \/ /\ At(q, "UpdateTemplate", "write") /\ UpdateTemplate(req[q].ref, q)
        /\ Goes(q, Ended("ok", NotListed))
     \/ /\ At(q, "DeleteTemplate", "write") /\ DeleteTemplate(req[q].ref)
        /\ Goes(q, Ended("ok", NotListed))
     \/ /\ ~Alive(req[q].ref) /\ UNCHANGED templates
        /\ Goes(q, Found(FALSE))
  /\ UNCHANGED <<domains, keys, locked, batches, deliveries>>

-----------------------------------------------------------------------------
(* What a request does once it has begun.                                  *)
Serve(q) ==
  \/ MailerStep(q)
  \/ Count(q) \/ LockKey(q) \/ DeactivateKey(q) \/ ReloadTemplate(q) \/ WriteTemplate(q)

Accept(q) ==
  \/ \E op \in Sends, k \in KeyIds, d \in Names : q \in Senders /\ Authenticate(q, op, k, d)
  \/ Unauthenticated(q)
  \/ GetDomains(q)
  \/ \E d \in Names : GetDomain(q, d) \/ ListTemplates(q, d)
  \/ \E d \in Names, onlyActive \in BOOLEAN : ListKeys(q, d, onlyActive)
  \/ \E k \in KeyIds, d \in Names : GetAPIKey(q, k, d) \/ Deactivating(q, k, d)
  \/ \E t \in KnownIds : AdminGetTemplate(q, t)
  \/ \E op \in DOMAIN Changes, t \in KnownIds : ChangeTemplate(q, op, t)

ApiInit == TenantInit /\ MailInit

ApiNext ==
  \/ \E d \in Names : AdminCreateDomain(d) \/ AdminCreateTemplate(d)
  \/ \E d \in Retuned, m \in Stated \ {"unreadable"} : SetTrackingPolicy(d, m)
  \/ \E k \in KeyIds, d \in Names, expiry \in Expiries : AdminCreateAPIKey(k, d, expiry)
  \/ \E k \in KeyIds : KeyExpires(k) /\ UNCHANGED mailVars
  \/ \E q \in Requests : Accept(q)
  \/ \E q \in Requests : Serve(q)
  \/ \E q \in Requests : Fails(q)

(* Every handler runs on a goroutine of its own; a statement returns or    *)
(* fails.  That a request arrives, or that a key expires, is up to others. *)
ApiSpec ==
  /\ ApiInit /\ [][ApiNext]_apiVars
  /\ \A q \in Requests : WF_apiVars(Serve(q))

-----------------------------------------------------------------------------
(* Every table and every request holds values of its type.                 *)
ApiTypeOK ==
  /\ TenantTypeOK
  /\ \A q \in Requests :
       /\ req[q].ceiling \in Readable \cup {"unspecified"}
       /\ req[q].pc = "commit" => locked[req[q].ref] = q
       /\ batches[q] # None => batches[q].mode \in WireModes
       /\ \A r \in Recipients : deliveries[q][r] \in Readable \cup {None}

(* Deactivating a key is for good: whatever requests overlap, a key that   *)
(* was deactivated stays so, and keeps the instant of the first one.       *)
(* Deactivate leaves an inactive key alone, but it judges a row that was   *)
(* read before: what holds the two together is the row lock of             *)
(* GetAPIKeyByIDForUpdate, kept until the Commit.                          *)
DeactivationIsFinal ==
  [][\A k \in KeyIds : keys[k].deactivated # None =>
       keys'[k].deactivated = keys[k].deactivated /\ ~keys'[k].active]_apiVars

(* A send reaches one tenant: the Batch it stores is of the Domain its key *)
(* belongs to, in the name of that Domain or of a parent of it, with a     *)
(* Template of that Domain, although Templates are named by the caller and *)
(* several statements lie between the lookup, the Guard and the INSERT.    *)
TenantIsolation ==
  \A q \in Requests : LET b == batches[q] IN
    b # None => /\ keys[b.by].domain = b.domain
                /\ b.from = b.domain \/ isParentDomain(b.from, b.domain)
                /\ templates[b.template].domain = b.domain

(* All Deliveries of a Batch are frozen under the one ceiling the Batch    *)
(* itself was admitted under, although the Domain's policy may be changed  *)
(* between the statements of the send.                                     *)
BatchUnderOneCeiling ==
  \A q \in Requests, r \in Recipients :
    deliveries[q][r] # None =>
      Rank(deliveries[q][r]) \in Permitted(batches[q].ceiling, batches[q].mode, "unspecified")

(* The answer of a send is true: the Recipients it reports as accepted are *)
(* exactly the Deliveries that are stored, the others have a reason, and a *)
(* request that was refused stored no Delivery at all.                     *)
AnswerIsTrue ==
  \A q \in Requests :
    /\ req[q].code = "ok" => \A r \in Recipients :
         (deliveries[q][r] # None) <=> (req[q].fate[r] = "accepted")
    /\ req[q].code = "refused" => batches[q] = None /\ deliveries[q] = NoOne

(* Every request is answered, the one that waits for a row lock too: who   *)
(* holds it gives it back on every way out, by Commit or by Rollback.      *)
RequestsAreAnswered ==
  \A q \in Requests : req[q].pc # "idle" ~> req[q].pc = "done"

=============================================================================
