------------------------------- MODULE Tenants -------------------------------
(***************************************************************************)
(* The tables that belong to a Domain (domains, api_keys, templates), the   *)
(* statements internal/db runs on them and the conversions of the           *)
(* repositories.  Every statement is atomic; the requests that compose      *)
(* several of them are in Mailer and Api.                                   *)
(*                                                                          *)
(* The Tracking Policy of a Domain is kept for one Axis: the Axes are       *)
(* judged one by one and alike.                                             *)
(***************************************************************************)
EXTENDS Authz, TrackingPolicy

CONSTANTS
  Names,         \* canonical domain names that may be registered (texts)
  KeyIds,        \* ids of API keys
  TemplateIds,   \* ids of Templates (texts)
  MaxTemplates,  \* bound: Templates made through the Admin API
  Requests,      \* bound: the requests the API serves
  None

(* A zero DomainName names no Domain; None is no Mode and no request.      *)
ASSUME TenantAssumption ==
  /\ "" \notin Names
  /\ None \notin Modes \cup Requests

VARIABLES
  domains,    \* table domains: the stored Mode, or None without a row
  keys,       \* table api_keys, by id
  templates,  \* table templates, by template_id
  locked      \* the request that holds the row lock of a key, or None

tenantVars == <<domains, keys, templates, locked>>

NoKey      == [domain |-> "", active |-> FALSE, expiry |-> "never", deactivated |-> None]
NoTemplate == [status |-> "unborn", type |-> "", domain |-> "", html |-> None]

Registered(d) == domains[d] # None
KeyExists(k)  == keys[k] # NoKey
Alive(t)      == templates[t].status = "stored"

-----------------------------------------------------------------------------
(* Table domains.  The INSERT leaves the tracking column to its default; a *)
(* second row of a name is refused by the unique constraint.               *)
CreateDomain(d) ==
  /\ ~Registered(d)
  /\ domains' = [domains EXCEPT ![d] = "identified"]

SetDomainTracking(d, m) ==
  /\ Registered(d)
  /\ domains' = [domains EXCEPT ![d] = m]

(* rowToDomain of what FindDomain or GetAllDomains returned.               *)
CeilingOf(d) == Normalized(domains[d])

-----------------------------------------------------------------------------
(* Table api_keys.  A key belongs to a registered Domain (foreign key).    *)
(* expiry says whether expires_at is NULL, ahead or behind.                *)
NewAPIKey(d, expiry) == [domain |-> d, active |-> TRUE, expiry |-> expiry, deactivated |-> None]

CreateAPIKey(k, d, expiry) ==
  /\ Registered(d)
  /\ ~KeyExists(k)
  /\ keys' = [keys EXCEPT ![k] = NewAPIKey(d, expiry)]

(* GetAPIKeyByHash, GetAPIKeyByID: a key is found under its own Domain.    *)
FoundKey(k, d) == KeyExists(k) /\ keys[k].domain = d
KeysListed(d, onlyActive) ==
  {k \in KeyIds : FoundKey(k, d) /\ (onlyActive => keys[k].active)}

IsValid(key)    == key.active /\ key.expiry # "past"
Deactivate(key, q) ==
  IF key.active THEN [key EXCEPT !.active = FALSE, !.deactivated = q] ELSE key

(* Mutant: SELECT without FOR UPDATE.                                      *)
GetUnlocked(k, d, q) == FoundKey(k, d) /\ UNCHANGED locked

(* SELECT ... FOR UPDATE waits for the row.                                *)
GetAPIKeyByIDForUpdate(k, d, q) ==
  /\ FoundKey(k, d)
  /\ locked[k] = None
  /\ locked' = [locked EXCEPT ![k] = q]

(* Mutant: an error return without Rollback.                               *)
KeepsLocks(q) == locked

(* The end of a transaction, by Commit or by the deferred Rollback.        *)
Released(q) == [k \in KeyIds |-> IF locked[k] = q THEN None ELSE locked[k]]

(* expires_at is written back as it was read; whether it is behind by then *)
(* is a matter of the clock.                                               *)
UpdateAPIKey(k, row) ==
  keys' = [keys EXCEPT ![k] = [row EXCEPT !.expiry = keys[k].expiry]]

(* Time passes an expires_at.                                              *)
KeyExpires(k) ==
  /\ keys[k].expiry = "ahead"
  /\ keys' = [keys EXCEPT ![k].expiry = "past"]
  /\ UNCHANGED <<domains, templates, locked>>

-----------------------------------------------------------------------------
(* Table templates.  newTemplateID: a random id that carries the Domain it *)
(* was made for, so that the Domain of an id is that of its row, even of   *)
(* one deleted since, and that nobody has drawn before; no Template is     *)
(* made once the ids of an instance are used up.                           *)
FreshIds         == {t \in TemplateIds : templates[t] = NoTemplate}
newTemplateID    == CHOOSE t \in FreshIds : TRUE
DomainFromID(t)  == templates[t].domain
Made(type)       == {t \in TemplateIds : templates[t].type = type}

CreateTemplate(t, d, type) ==
  /\ t \in FreshIds
  /\ templates' = [templates EXCEPT
       ![t] = [status |-> "stored", type |-> type, domain |-> d, html |-> None]]

(* Mutant: the lookup by id alone.                                         *)
FindAnywhere(t, d) == Alive(t)

FindTemplate(t, d) == Alive(t) /\ templates[t].domain = d
GetTemplate(t)     == Alive(t)
TemplatesListed(d) == {t \in TemplateIds : FindTemplate(t, d) /\ templates[t].type = "template"}

UpdateTemplate(t, html) ==
  /\ Alive(t)
  /\ templates' = [templates EXCEPT ![t].html = html]

DeleteTemplate(t) ==
  /\ Alive(t)
  /\ templates' = [templates EXCEPT ![t].status = "deleted"]

-----------------------------------------------------------------------------
TenantInit ==
  /\ domains = [d \in Names |-> None]
  /\ keys = [k \in KeyIds |-> NoKey]
  /\ templates = [t \in TemplateIds |-> NoTemplate]
  /\ locked = [k \in KeyIds |-> None]

TenantTypeOK ==
  /\ domains \in [Names -> WireModes \cup {None}]
  /\ keys \in [KeyIds -> {NoKey} \cup
       [domain : Names, active : BOOLEAN, expiry : {"never", "ahead", "past"},
        deactivated : Requests \cup {None}]]
  /\ templates \in [TemplateIds -> {NoTemplate} \cup
       [status : {"stored", "deleted"}, type : {"transient", "template"}, domain : Names,
        html : Requests \cup {None}]]
  /\ locked \in [KeyIds -> Requests \cup {None}]

=============================================================================
