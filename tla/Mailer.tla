-------------------------------- MODULE Mailer --------------------------------
(***************************************************************************)
(* The Mailer API (pkg/api/mailapi): one send, from the credential to the   *)
(* rows of its Batch and of its Deliveries.  Every step is one statement    *)
(* with the checks that lead up to it; there is no transaction around them, *)
(* so other requests run in between and an error leaves what the earlier    *)
(* steps stored.                                                            *)
(*                                                                          *)
(* What the request states (host of its From, Mode, Recipients) is chosen   *)
(* at the step that reads it.                                               *)
(***************************************************************************)
EXTENDS Tenants, FiniteSets

CONSTANTS
  Hosts,       \* hosts a From address may name; "" cannot be canonicalised
  Parents,     \* the pairs <<parent, child>> of names
  Stated,      \* Modes a Batch or a Recipient may state
  Recipients   \* the entries of a send's recipient list

ASSUME MailerAssumption ==
  /\ Parents \subseteq Hosts \X Names
  /\ Stated \subseteq Modes
  /\ Cardinality(TemplateIds) >= MaxTemplates + 2 * Cardinality(Requests)

VARIABLES
  req,         \* the requests, by slot
  batches,     \* table messages: the Batch a request stored, or None
  deliveries   \* its rows of sending_pool_emails: the frozen Mode, or None

mailVars == <<req, batches, deliveries>>

NoOne      == [r \in Recipients |-> None]
NotListed  == [r \in Recipients |-> "not_listed"]

(* pc is what the request does next.  dom is the Domain it acts on, key    *)
(* the API key it authenticated with, ref the row it names, read the row   *)
(* it holds; code and fate are its answer.                                 *)
Idle == [op |-> "none", pc |-> "idle", dom |-> "", key |-> None, ref |-> None,
         ceiling |-> "unspecified", read |-> None, code |-> "none", fate |-> NotListed]

Goes(q, r) == req' = [req EXCEPT ![q] = r]
At(q, op, pc) == req[q].op = op /\ req[q].pc = pc

(* The end of a request: of what it held only the answer is kept.          *)
Ended(code, fate) == [Idle EXCEPT !.pc = "done", !.code = code, !.fate = fate]

Answer(q, code) ==
  Goes(q, Ended(code, NotListed)) /\ UNCHANGED <<tenantVars, batches, deliveries>>
Refuse(q) == Answer(q, "refused")

-----------------------------------------------------------------------------
(* ValidateForAuth: one answer for a key that is unknown, of another       *)
(* Domain, deactivated or expired.                                         *)
ValidateForAuth(k, d) == FoundKey(k, d) /\ IsValid(keys[k])

(* APIKey.Principal.                                                       *)
KeyPrincipal(d) == NewPrincipal("apikey", {Grant("sender", DomainAnchor(d))})

Sends == {"SendHTML", "SendTemplate"}

(* authenticate, up to the key.                                            *)
Authenticate(q, op, k, d) ==
  /\ req[q] = Idle
  /\ Goes(q, IF ValidateForAuth(k, d)
             THEN [Idle EXCEPT !.op = op, !.pc = "domain", !.dom = d, !.key = k]
             ELSE Ended("refused", NotListed))
  /\ UNCHANGED <<tenantVars, batches, deliveries>>

(* authenticate, the Domain: the request keeps the ceiling it read here.   *)
LoadDomain(q) ==
  /\ req[q].op \in Sends /\ req[q].pc = "domain"
  /\ Registered(req[q].dom)
  /\ Goes(q, [req[q] EXCEPT !.ceiling = CeilingOf(req[q].dom),
                            !.pc = IF req[q].op = "SendHTML" THEN "html" ELSE "find"])
  /\ UNCHANGED <<tenantVars, batches, deliveries>>

createTransientTemplate(q, d, next) ==
  /\ CreateTemplate(newTemplateID, d, "transient")
  /\ Goes(q, [req[q] EXCEPT !.ref = newTemplateID, !.pc = next])
  /\ UNCHANGED <<domains, keys, locked, batches, deliveries>>

(* SendHTML stores its body before anything else is checked.               *)
SendHTML(q) ==
  /\ At(q, "SendHTML", "html")
  /\ createTransientTemplate(q, req[q].dom, "find")

(* sendTemplate: the subject is checked, then the Template is looked up    *)
(* under the caller's Domain.                                              *)
SendTemplate(q) ==
  /\ req[q].op \in Sends /\ req[q].pc = "find"
  /\ \/ Refuse(q)   \* assertHeaderSafe
     \/ \E t \in IF req[q].op = "SendHTML" THEN {req[q].ref} ELSE TemplateIds :
          \/ /\ FindTemplate(t, req[q].dom)
             /\ Goes(q, [req[q] EXCEPT !.ref = t, !.pc = "fields"])
             /\ UNCHANGED <<tenantVars, batches, deliveries>>
          \/ ~FindTemplate(t, req[q].dom) /\ Refuse(q)

(* createTemplateWithGlobalFields; SendHTML passes none.                   *)
WithGlobalFields(q) ==
  /\ req[q].op \in Sends /\ req[q].pc = "fields"
  /\ \/ /\ Goes(q, [req[q] EXCEPT !.pc = "batch"])
        /\ UNCHANGED <<tenantVars, batches, deliveries>>
     \/ /\ req[q].op = "SendTemplate"
        /\ createTransientTemplate(q, req[q].dom, "batch")

isParentDomain(from, tenant) == <<from, tenant>> \in Parents
senderBatches(from, tenant) ==
  IF isParentDomain(from, tenant) THEN Batches(tenant) ELSE Batches(from)

(* The checks of createBatch on the Batch's Mode; those on headers and URL *)
(* may also refuse, whatever the Mode.                                     *)
BatchAdmitted(q, mode) ==
  mode # "unreadable" /\ ~AxisViolation(req[q].ceiling, mode)

(* The row of messages, with the key and the ceiling it was stored under.  *)
Batch(q, from, mode) ==
  [domain |-> req[q].dom, template |-> req[q].ref, from |-> from, mode |-> mode,
   by |-> req[q].key, ceiling |-> req[q].ceiling]

(* senderAddressOf, the Guard and createBatch up to the INSERT.            *)
CreateBatch(q) ==
  /\ req[q].op \in Sends /\ req[q].pc = "batch"
  /\ \/ Refuse(q)   \* senderAddressOf, validateHeaders, batch.New
     \/ \E from \in Hosts, mode \in Stated :
          LET allowed == Decide(KeyPrincipal(req[q].dom), "create", senderBatches(from, req[q].dom))
          IN \/ /\ allowed = "allowed"
                /\ BatchAdmitted(q, mode)
                /\ batches' = [batches EXCEPT ![q] = Batch(q, from, mode)]
                /\ Goes(q, [req[q] EXCEPT !.pc = "pool"])
                /\ UNCHANGED <<tenantVars, deliveries>>
             \/ ~(allowed = "allowed" /\ BatchAdmitted(q, mode)) /\ Refuse(q)

-----------------------------------------------------------------------------
(* What one entry of the list may hold: the Mode it states, or a fault     *)
(* that is found before (no address) or after (unresolved URL, refused by  *)
(* delivery.New) the Modes are resolved.                                   *)
Entries == [mode : Stated, fault : {"none", "no_address", "url", "address"}]

(* Mutant: the ceiling is read again when the Recipients are judged.       *)
CeilingNow(q) == CeilingOf(req[q].dom)

(* The ceiling the Recipients are judged by: that of the Domain that       *)
(* authenticate loaded.                                                    *)
IntakeCeiling(q) == req[q].ceiling

(* scheduleBatch's loop, in the order of its checks.                       *)
Fate(q, e) ==
  IF e.fault = "no_address" THEN "invalid_email"
  ELSE IF e.mode = "unreadable" THEN "unsupported_tracking_mode"
  ELSE IF AxisViolation(IntakeCeiling(q), e.mode) THEN "tracking_above_ceiling"
  ELSE IF e.fault = "url" THEN "unsubscribe_url_unresolved"
  ELSE IF e.fault = "address" THEN "invalid_email"
  ELSE "accepted"

Resolved(q, e) == MostRestrictive(IntakeCeiling(q), batches[q].mode, e.mode)

(* Mutant: a Recipient refused for its tracking is scheduled all the same. *)
RejectsAndGoesOn(q, list) ==
  {r \in DOMAIN list : Fate(q, list[r]) \in {"accepted", "tracking_above_ceiling"}}

Accepted(q, list) == {r \in DOMAIN list : Fate(q, list[r]) = "accepted"}

Scheduled(q, list) ==
  [r \in Recipients |-> IF r \in Accepted(q, list) THEN Resolved(q, list[r]) ELSE None]

Report(q, list) ==
  [r \in Recipients |-> IF r \in DOMAIN list THEN Fate(q, list[r]) ELSE "not_listed"]

(* scheduleBatch after the INSERT: one COPY of all the accepted rows.  It  *)
(* fails as a whole (an address listed twice breaks the unique index); a   *)
(* connection lost at its commit leaves the rows behind an error.          *)
ScheduleBatch(q) ==
  /\ req[q].op \in Sends /\ req[q].pc = "pool"
  /\ \E listed \in SUBSET Recipients : \E list \in [listed -> Entries] :
       /\ deliveries' = [deliveries EXCEPT ![q] = Scheduled(q, list)]
       /\ \/ Goes(q, Ended("ok", Report(q, list)))
          \/ Accepted(q, list) # {} /\ Goes(q, Ended("error", NotListed))
       /\ UNCHANGED <<tenantVars, batches>>

(* An error of a statement, or a caller that is gone, ends any request;    *)
(* what it had stored stays, what it had locked is released.               *)
Fails(q) ==
  /\ req[q].pc \notin {"idle", "done"}
  /\ Goes(q, Ended("error", NotListed))
  /\ locked' = Released(q)
  /\ UNCHANGED <<domains, keys, templates, batches, deliveries>>

MailerStep(q) ==
  \/ LoadDomain(q) \/ SendHTML(q) \/ SendTemplate(q) \/ WithGlobalFields(q)
  \/ CreateBatch(q) \/ ScheduleBatch(q)

MailInit ==
  /\ req = [q \in Requests |-> Idle]
  /\ batches = [q \in Requests |-> None]
  /\ deliveries = [q \in Requests |-> NoOne]

=============================================================================
