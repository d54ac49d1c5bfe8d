------------------------------- MODULE ApiProofs -------------------------------
(***************************************************************************)
(* The API process for any number of Domains, keys, Templates, requests and *)
(* Recipients: its types, that deactivating a key is final, that a send     *)
(* reaches one tenant, that its Deliveries are frozen under one ceiling and *)
(* that its answer is true.                                                 *)
(*                                                                          *)
(* The argument is the same for all of them.  A request is described by     *)
(* what it has learned so far (RequestOK); other requests can change the    *)
(* tables in between, but what was learned is of the kind that stays true   *)
(* (Kept): a key and a Template keep their Domain, and a locked row is      *)
(* changed by nobody but the holder of the lock.                            *)
(***************************************************************************)
EXTENDS Api, TrackingPolicyProofs

-----------------------------------------------------------------------------
(* Types of the rows and of the requests.                                  *)
KeyRow ==
  [domain : Names, active : BOOLEAN, expiry : {"never", "ahead", "past"},
   deactivated : Requests \cup {None}]
TemplateRow ==
  [status : {"stored", "deleted"}, type : {"transient", "template"}, domain : Names,
   html : Requests \cup {None}]
BatchRow ==
  [domain : Names, template : TemplateIds, from : Hosts, mode : WireModes, by : KeyIds,
   ceiling : WireModes]

SendPcs == {"domain", "html", "find", "fields", "batch", "pool"}
Pcs     == SendPcs \cup {"idle", "done", "count", "lock", "commit", "get", "write"}
Codes   == {"none", "refused", "ok", "error", "not_found"}
Ops     == Sends \cup {"none", "GetDomain", "GetDomains", "GetAPIKey", "GetTemplate", "ListAPIKeys",
                       "GetTemplates", "DeactivateAPIKey", "UpdateTemplate", "DeleteTemplate"}
Fates   == {"not_listed", "invalid_email", "unsupported_tracking_mode", "tracking_above_ceiling",
            "unsubscribe_url_unresolved", "accepted"}

Request ==
  [op : Ops, pc : Pcs, dom : Names \cup {""}, key : KeyIds \cup {None},
   ref : TemplateIds \cup KeyIds \cup {None}, ceiling : WireModes,
   read : {None} \cup KeyRow \cup (SUBSET KeyIds) \cup (SUBSET TemplateIds),
   code : Codes, fate : [Recipients -> Fates]]

-----------------------------------------------------------------------------
(* What a request has learned and what stays true of it.                   *)
KeyOf(k, d)      == k \in KeyIds /\ KeyExists(k) /\ keys[k].domain = d
TemplateOf(t, d) == t \in TemplateIds /\ templates[t] # NoTemplate /\ templates[t].domain = d

(* The transaction of q holds the row of k as it was read; the clock may   *)
(* have passed its expires_at since.                                       *)
Holds(q, k, row) ==
  /\ k \in KeyIds /\ locked[k] = q /\ KeyExists(k)
  /\ row \in KeyRow /\ row.domain = keys[k].domain
  /\ row.active = keys[k].active /\ row.deactivated = keys[k].deactivated

RequestOK(q, s) ==
  /\ s \in Request
  /\ s.pc \in SendPcs => s.op \in Sends /\ KeyOf(s.key, s.dom)
  /\ s.pc \in {"fields", "batch", "pool"} => TemplateOf(s.ref, s.dom)
  /\ s.pc = "find" /\ s.op = "SendHTML" => s.ref \in TemplateIds
  /\ s.pc \in {"lock", "commit"} => s.ref \in KeyIds
  /\ s.pc = "commit" => Holds(q, s.ref, s.read)
  /\ s.pc \in {"get", "write"} => s.ref \in TemplateIds
  /\ s.code # "none" => s.pc = "done"

BatchOK(b) ==
  /\ b \in BatchRow
  /\ KeyOf(b.by, b.domain) /\ TemplateOf(b.template, b.domain)
  /\ b.from = b.domain \/ isParentDomain(b.from, b.domain)

(* The rows a request has stored, by where it is.                          *)
StoredOK(s, b, d) ==
  /\ s.pc \notin {"pool", "done"} => b = None
  /\ s.pc # "done" => d = NoOne
  /\ s.pc = "pool" => BatchOK(b) /\ b.ceiling = s.ceiling
  /\ b # None => BatchOK(b)
  /\ d \in [Recipients -> Readable \cup {None}]
  /\ \A r \in Recipients : d[r] # None => Rank(d[r]) \in Permitted(b.ceiling, b.mode, "unspecified")

TruthOf(s, b, d) ==
  /\ s.code = "ok" => \A r \in Recipients : (d[r] # None) <=> (s.fate[r] = "accepted")
  /\ s.code = "refused" => b = None /\ d = NoOne

(* The inductive invariant.                                                *)
Deactivated == \A k \in KeyIds : keys[k].deactivated # None => keys[k].active = FALSE
ReqInv(q)   == RequestOK(q, req[q]) /\ StoredOK(req[q], batches[q], deliveries[q])
                                    /\ TruthOf(req[q], batches[q], deliveries[q])
MailType    == /\ req \in [Requests -> Request]
               /\ batches \in [Requests -> BatchRow \cup {None}]
               /\ deliveries \in [Requests -> [Recipients -> Readable \cup {None}]]
ApiInv ==
  /\ TenantTypeOK /\ Deactivated /\ MailType
  /\ \A q \in Requests : ReqInv(q)

-----------------------------------------------------------------------------
(* Rows and records.                                                       *)
LEMMA TenantTypes ==
  TenantTypeOK <=>
    /\ domains \in [Names -> WireModes \cup {None}]
    /\ keys \in [KeyIds -> {NoKey} \cup KeyRow]
    /\ templates \in [TemplateIds -> {NoTemplate} \cup TemplateRow]
    /\ locked \in [KeyIds -> Requests \cup {None}]
BY DEF TenantTypeOK, KeyRow, TemplateRow

LEMMA RowsExist ==
  /\ \A row \in KeyRow : row # NoKey
  /\ \A row \in TemplateRow : row # NoTemplate
<1>1. NoKey.domain = "" /\ NoTemplate.domain = ""
  BY DEF NoKey, NoTemplate
<1>2. /\ \A row \in KeyRow : row.domain \in Names
      /\ \A row \in TemplateRow : row.domain \in Names
  BY DEF KeyRow, TemplateRow
<1> HIDE DEF NoKey, NoTemplate
<1> QED  BY <1>1, <1>2, TenantAssumption DEF TenantAssumption

LEMMA ModeTypes ==
  /\ WireModes \subseteq Modes /\ Readable \subseteq WireModes /\ None \notin Readable
  /\ "unspecified" \in WireModes
  /\ \A m \in Modes : Normalized(m) \in Readable
<1>1. WireModes \subseteq Modes /\ Readable \subseteq WireModes /\ None \notin Readable
      /\ "unspecified" \in WireModes /\ "unspecified" \in Modes
  BY TenantAssumption DEF TenantAssumption, WireModes, Modes
<1> QED  BY <1>1, CascadeNarrows DEF Normalized

LEMMA IdleType == Idle \in Request /\ Idle.pc = "idle" /\ Idle.code = "none" /\ NotListed \in [Recipients -> Fates]
<1>1. NotListed \in [Recipients -> Fates]
  BY DEF NotListed, Fates
<1> QED  BY <1>1, ModeTypes DEF Idle, Request, Ops, Pcs, Codes

LEMMA EndedType ==
  ASSUME NEW code \in Codes, NEW fate \in [Recipients -> Fates]
  PROVE  /\ Ended(code, fate) \in Request /\ Ended(code, fate).pc = "done"
         /\ Ended(code, fate).code = code /\ Ended(code, fate).fate = fate
<1>1. "done" \in Pcs
  BY DEF Pcs
<1> QED  BY <1>1, IdleType, Zenon DEF Ended, Request

(* The end of a request asks for nothing.                                  *)
LEMMA EndedOK ==
  ASSUME NEW q, NEW code \in Codes, NEW fate \in [Recipients -> Fates]
  PROVE  RequestOK(q, Ended(code, fate))
BY EndedType DEF RequestOK, SendPcs

LEMMA UnboundOK ==
  ASSUME MailType
  PROVE  NoOne \in [Recipients -> Readable \cup {None}] /\ \A r \in Recipients : NoOne[r] = None
BY DEF NoOne

-----------------------------------------------------------------------------
(* What the other requests leave true.                                     *)
KeptKeys ==
  \A k \in KeyIds : KeyExists(k) => keys'[k] # NoKey /\ keys'[k].domain = keys[k].domain
KeptTemplates ==
  \A t \in TemplateIds : templates[t] # NoTemplate =>
    templates'[t] # NoTemplate /\ templates'[t].domain = templates[t].domain
KeptLocks(p) ==
  \A k \in KeyIds : locked[k] = p /\ KeyExists(k) =>
    locked'[k] = p /\ keys'[k].active = keys[k].active /\ keys'[k].deactivated = keys[k].deactivated

LEMMA LearnedStays ==
  ASSUME KeptKeys, KeptTemplates
  PROVE  /\ \A k, d : KeyOf(k, d) => KeyOf(k, d)'
         /\ \A t, d : TemplateOf(t, d) => TemplateOf(t, d)'
         /\ \A b : BatchOK(b) => BatchOK(b)'
<1>1. \A k, d : KeyOf(k, d) => KeyOf(k, d)'
  BY DEF KeptKeys, KeyOf, KeyExists
<1>2. \A t, d : TemplateOf(t, d) => TemplateOf(t, d)'
  BY DEF KeptTemplates, TemplateOf
<1> QED  BY <1>1, <1>2 DEF BatchOK

LEMMA HoldsStays ==
  ASSUME KeptKeys, NEW p, KeptLocks(p), NEW k, NEW row, Holds(p, k, row)
  PROVE  Holds(p, k, row)'
BY DEF KeptKeys, KeptLocks, Holds, KeyExists

(* A request that takes no step keeps all that it has learned.             *)
LEMMA RequestStays ==
  ASSUME NEW p, NEW s, NEW b, NEW d, KeptKeys, KeptTemplates, KeptLocks(p),
         RequestOK(p, s), StoredOK(s, b, d)
  PROVE  RequestOK(p, s)' /\ StoredOK(s, b, d)'
<1>1. RequestOK(p, s)'
  BY LearnedStays, HoldsStays DEF RequestOK
<1>2. StoredOK(s, b, d)'
  BY LearnedStays DEF StoredOK
<1> QED  BY <1>1, <1>2

LEMMA OthersStay ==
  ASSUME ApiInv, NEW p \in Requests, KeptKeys, KeptTemplates, KeptLocks(p),
         req'[p] = req[p], batches'[p] = batches[p], deliveries'[p] = deliveries[p]
  PROVE  ReqInv(p)'
<1>1. RequestOK(p, req[p]) /\ StoredOK(req[p], batches[p], deliveries[p])
      /\ TruthOf(req[p], batches[p], deliveries[p])
  BY DEF ApiInv, ReqInv
<1> DEFINE s == req[p]
           b == batches[p]
           d == deliveries[p]
<1>2. \A u, v, w : RequestOK(p, u) /\ StoredOK(u, v, w) => RequestOK(p, u)' /\ StoredOK(u, v, w)'
  BY RequestStays
<1> QED  BY <1>1, <1>2 DEF ReqInv, TruthOf

(* A step on the tables alone, and a step of one request, keep the         *)
(* invariant when what they leave true is enough for the others.           *)
LEMMA TableStep ==
  ASSUME ApiInv, TenantTypeOK', Deactivated', KeptKeys, KeptTemplates,
         \A p \in Requests : KeptLocks(p), UNCHANGED mailVars
  PROVE  ApiInv'
<1>1. req' = req /\ batches' = batches /\ deliveries' = deliveries
  BY DEF mailVars
<1>2. \A p \in Requests : ReqInv(p)'
  BY <1>1, OthersStay
<1> QED  BY <1>1, <1>2 DEF ApiInv, MailType

LEMMA RequestStep ==
  ASSUME ApiInv, NEW q \in Requests, TenantTypeOK', Deactivated', KeptKeys, KeptTemplates,
         \A p \in Requests \ {q} : /\ KeptLocks(p)
                                   /\ req'[p] = req[p] /\ batches'[p] = batches[p]
                                   /\ deliveries'[p] = deliveries[p],
         MailType', ReqInv(q)'
  PROVE  ApiInv'
<1>1. \A p \in Requests \ {q} : ReqInv(p)'
  BY OthersStay
<1> QED  BY <1>1 DEF ApiInv

(* Tables that do not change.                                              *)
LEMMA TablesUnchanged ==
  ASSUME ApiInv, UNCHANGED tenantVars
  PROVE  TenantTypeOK' /\ Deactivated' /\ KeptKeys /\ KeptTemplates /\ \A p : KeptLocks(p)
BY DEF ApiInv, TenantTypeOK, Deactivated, KeptKeys, KeptTemplates, KeptLocks, tenantVars, KeyExists

-----------------------------------------------------------------------------
(* The statements on the tables.                                           *)
LEMMA CreateTemplateKeeps ==
  ASSUME ApiInv, NEW t, NEW d \in Names, NEW type \in {"transient", "template"},
         CreateTemplate(t, d, type), UNCHANGED <<domains, keys, locked>>
  PROVE  /\ TenantTypeOK' /\ Deactivated' /\ KeptKeys /\ KeptTemplates /\ \A p : KeptLocks(p)
         /\ t \in TemplateIds /\ templates'[t] # NoTemplate /\ templates'[t].domain = d
<1> DEFINE row == [status |-> "stored", type |-> type, domain |-> d, html |-> None]
<1>1. row \in TemplateRow /\ row.domain = d
  BY DEF TemplateRow
<1>2. t \in TemplateIds /\ templates[t] = NoTemplate /\ templates' = [templates EXCEPT ![t] = row]
  BY DEF CreateTemplate, FreshIds
<1>3. templates \in [TemplateIds -> {NoTemplate} \cup TemplateRow] /\ row # NoTemplate
  BY <1>1, TenantTypes, RowsExist DEF ApiInv
<1> HIDE DEF row
<1>4. /\ templates' \in [TemplateIds -> {NoTemplate} \cup TemplateRow] /\ templates'[t] = row
      /\ \A u \in TemplateIds : u # t => templates'[u] = templates[u]
  BY <1>1, <1>2, <1>3
<1>5. KeptTemplates /\ t \in TemplateIds /\ templates'[t] # NoTemplate /\ templates'[t].domain = d
  BY <1>1, <1>2, <1>3, <1>4 DEF KeptTemplates
<1>6. domains' = domains /\ keys' = keys /\ locked' = locked
  OBVIOUS
<1>7. TenantTypeOK'
  BY <1>4, <1>6 DEF ApiInv, TenantTypeOK, TemplateRow
<1>8. Deactivated' /\ KeptKeys /\ \A p : KeptLocks(p)
  BY <1>6 DEF ApiInv, Deactivated, KeptKeys, KeptLocks, KeyExists
<1> QED  BY <1>5, <1>7, <1>8

(* The columns of a key that may change: all but its Domain.               *)
LEMMA KeyWritten ==
  ASSUME ApiInv, NEW k \in KeyIds, NEW row \in KeyRow, keys' = [keys EXCEPT ![k] = row],
         KeyExists(k) => row.domain = keys[k].domain,
         row.deactivated # None => row.active = FALSE,
         locked' \in [KeyIds -> Requests \cup {None}], UNCHANGED <<domains, templates>>
  PROVE  TenantTypeOK' /\ Deactivated' /\ KeptKeys /\ KeptTemplates
<1>1. keys \in [KeyIds -> {NoKey} \cup KeyRow] /\ row # NoKey
  BY TenantTypes, RowsExist DEF ApiInv
<1>2. /\ keys' \in [KeyIds -> {NoKey} \cup KeyRow] /\ keys'[k] = row
      /\ \A j \in KeyIds : j # k => keys'[j] = keys[j]
  BY <1>1
<1>3. KeptKeys /\ KeptTemplates
  BY <1>1, <1>2 DEF KeptKeys, KeptTemplates, KeyExists
<1>4. Deactivated'
  BY <1>2 DEF ApiInv, Deactivated
<1>5. TenantTypeOK'
  BY <1>2 DEF ApiInv, TenantTypeOK, KeyRow
<1> QED  BY <1>3, <1>4, <1>5

LEMMA DomainsStep ==
  ASSUME ApiInv, NEW d \in Names, NEW m \in WireModes, domains' = [domains EXCEPT ![d] = m],
         UNCHANGED <<keys, templates, locked, mailVars>>
  PROVE  ApiInv'
<1>1. TenantTypeOK'
  BY DEF ApiInv, TenantTypeOK
<1>2. Deactivated' /\ KeptKeys /\ KeptTemplates /\ \A p \in Requests : KeptLocks(p)
  BY DEF ApiInv, Deactivated, KeptKeys, KeptTemplates, KeptLocks, KeyExists
<1> QED  BY <1>1, <1>2, TableStep

LEMMA AdminCreateAPIKeyStep ==
  ASSUME ApiInv, NEW k \in KeyIds, NEW d \in Names, NEW expiry \in Expiries,
         AdminCreateAPIKey(k, d, expiry)
  PROVE  ApiInv'
<1>1. NewAPIKey(d, expiry) \in KeyRow /\ NewAPIKey(d, expiry).deactivated = None
  BY ApiAssumption DEF ApiAssumption, NewAPIKey, KeyRow
<1>2. ~KeyExists(k) /\ keys' = [keys EXCEPT ![k] = NewAPIKey(d, expiry)]
      /\ locked' = locked /\ domains' = domains /\ templates' = templates /\ UNCHANGED mailVars
  BY DEF AdminCreateAPIKey, CreateAPIKey
<1>3. locked' \in [KeyIds -> Requests \cup {None}]
  BY <1>2 DEF ApiInv, TenantTypeOK
<1>4. TenantTypeOK' /\ Deactivated' /\ KeptKeys /\ KeptTemplates
  BY <1>1, <1>2, <1>3, KeyWritten
<1>5. \A p \in Requests : KeptLocks(p)
  BY <1>2 DEF KeptLocks, ApiInv, TenantTypeOK
<1> QED  BY <1>2, <1>4, <1>5, TableStep

LEMMA KeyExpiresStep ==
  ASSUME ApiInv, NEW k \in KeyIds, KeyExpires(k), UNCHANGED mailVars
  PROVE  ApiInv'
<1>1. keys \in [KeyIds -> {NoKey} \cup KeyRow]
  BY TenantTypes DEF ApiInv
<1>2. keys[k] \in KeyRow
  <2>1. NoKey.expiry # "ahead"
    BY DEF NoKey
  <2>2. keys[k].expiry = "ahead"
    BY DEF KeyExpires
  <2> QED  BY <1>1, <2>1, <2>2
<1> DEFINE row == [keys[k] EXCEPT !.expiry = "past"]
<1>3. /\ row \in KeyRow /\ row.domain = keys[k].domain /\ row.active = keys[k].active
      /\ row.deactivated = keys[k].deactivated
  BY <1>2, Zenon DEF KeyRow
<1>4. keys' = [keys EXCEPT ![k] = row] /\ locked' = locked /\ domains' = domains /\ templates' = templates
  BY DEF KeyExpires
<1> HIDE DEF row
<1>5. locked' \in [KeyIds -> Requests \cup {None}] /\ (row.deactivated # None => row.active = FALSE)
  BY <1>3, <1>4 DEF ApiInv, TenantTypeOK, Deactivated
<1>6. TenantTypeOK' /\ Deactivated' /\ KeptKeys /\ KeptTemplates
  BY <1>3, <1>4, <1>5, KeyWritten
<1>7. \A p \in Requests : KeptLocks(p)
  BY <1>1, <1>3, <1>4 DEF KeptLocks
<1> QED  BY <1>6, <1>7, TableStep

LEMMA AdminStep ==
  ASSUME ApiInv, NEW d \in Names, AdminCreateDomain(d) \/ AdminCreateTemplate(d)
  PROVE  ApiInv'
<1>1. CASE AdminCreateDomain(d)
  <2>1. "identified" \in WireModes
    BY DEF WireModes, Readable
  <2> QED  BY <1>1, <2>1, DomainsStep DEF AdminCreateDomain, CreateDomain
<1>2. CASE AdminCreateTemplate(d)
  <2>1. CreateTemplate(newTemplateID, d, "template") /\ UNCHANGED <<domains, keys, locked>> /\ UNCHANGED mailVars
    BY <1>2 DEF AdminCreateTemplate
  <2> QED  BY <2>1, CreateTemplateKeeps, TableStep
<1> QED  BY <1>1, <1>2

LEMMA SetTrackingPolicyStep ==
  ASSUME ApiInv, NEW d \in Retuned, NEW m \in Stated \ {"unreadable"}, SetTrackingPolicy(d, m)
  PROVE  ApiInv'
<1>1. d \in Names /\ m \in Modes
  BY ApiAssumption, MailerAssumption DEF ApiAssumption, MailerAssumption
<1>2. Normalized(m) \in WireModes
  BY <1>1, ModeTypes
<1> QED  BY <1>1, <1>2, DomainsStep DEF SetTrackingPolicy, SetDomainTracking

-----------------------------------------------------------------------------
(* Steps of a request that leave the tables alone.                         *)
LEMMA ReqOf ==
  ASSUME ApiInv, NEW q \in Requests
  PROVE  /\ req[q] \in Request /\ RequestOK(q, req[q])
         /\ StoredOK(req[q], batches[q], deliveries[q]) /\ TruthOf(req[q], batches[q], deliveries[q])
         /\ req \in [Requests -> Request] /\ batches \in [Requests -> BatchRow \cup {None}]
         /\ deliveries \in [Requests -> [Recipients -> Readable \cup {None}]]
BY DEF ApiInv, MailType, ReqInv

LEMMA Moves ==
  ASSUME ApiInv, NEW q \in Requests, NEW s, RequestOK(q, s), req' = [req EXCEPT ![q] = s],
         UNCHANGED <<tenantVars, batches, deliveries>>,
         StoredOK(s, batches[q], deliveries[q]), TruthOf(s, batches[q], deliveries[q])
  PROVE  ApiInv'
<1>1. TenantTypeOK' /\ Deactivated' /\ KeptKeys /\ KeptTemplates /\ \A p : KeptLocks(p)
  BY TablesUnchanged
<1>2. s \in Request
  BY DEF RequestOK
<1>3. /\ req' \in [Requests -> Request] /\ req'[q] = s
      /\ \A p \in Requests \ {q} : req'[p] = req[p]
  BY <1>2, ReqOf
<1>4. batches' = batches /\ deliveries' = deliveries
  OBVIOUS
<1>5. MailType'
  BY <1>3, <1>4 DEF ApiInv, MailType
<1>6. \A u, v, w : RequestOK(q, u) /\ StoredOK(u, v, w) => RequestOK(q, u)' /\ StoredOK(u, v, w)'
  BY <1>1, RequestStays
<1>7. ReqInv(q)'
  BY <1>3, <1>4, <1>6 DEF ReqInv, TruthOf
<1> QED  BY <1>1, <1>3, <1>4, <1>5, <1>7, RequestStep

(* Before it has a Batch, a request has stored nothing of its own.         *)
LEMMA Early ==
  ASSUME ApiInv, NEW q \in Requests, req[q].pc \notin {"pool", "done"}
  PROVE  batches[q] = None /\ deliveries[q] = NoOne
BY ReqOf DEF StoredOK

LEMMA NothingStored ==
  ASSUME NEW s, s.pc # "pool", s.code = "ok" => s.fate = NotListed
  PROVE  StoredOK(s, None, NoOne) /\ TruthOf(s, None, NoOne)
<1>1. /\ NoOne \in [Recipients -> Readable \cup {None}]
      /\ \A r \in Recipients : NoOne[r] = None /\ NotListed[r] = "not_listed"
  BY DEF NoOne, NotListed
<1>2. StoredOK(s, None, NoOne)
  BY <1>1 DEF StoredOK
<1>3. TruthOf(s, None, NoOne)
  BY <1>1 DEF TruthOf
<1> QED  BY <1>2, <1>3

LEMMA EarlyMove ==
  ASSUME ApiInv, NEW q \in Requests, req[q].pc \notin {"pool", "done"},
         NEW s, RequestOK(q, s), s.pc # "pool", s.code = "ok" => s.fate = NotListed,
         Goes(q, s), UNCHANGED <<tenantVars, batches, deliveries>>
  PROVE  ApiInv'
<1>1. batches[q] = None /\ deliveries[q] = NoOne
  BY Early
<1>2. StoredOK(s, batches[q], deliveries[q]) /\ TruthOf(s, batches[q], deliveries[q])
  BY <1>1, NothingStored
<1> QED  BY <1>2, Moves DEF Goes

LEMMA EarlyEnd ==
  ASSUME ApiInv, NEW q \in Requests, req[q].pc \notin {"pool", "done"}, NEW code \in Codes,
         Goes(q, Ended(code, NotListed)), UNCHANGED <<tenantVars, batches, deliveries>>
  PROVE  ApiInv'
<1>1. RequestOK(q, Ended(code, NotListed)) /\ Ended(code, NotListed).pc = "done"
      /\ Ended(code, NotListed).fate = NotListed
  BY IdleType, EndedOK, EndedType
<1> QED  BY <1>1, EarlyMove

LEMMA AnswerStep ==
  ASSUME ApiInv, NEW q \in Requests, req[q].pc \notin {"pool", "done"}, NEW code \in Codes, Answer(q, code)
  PROVE  ApiInv'
BY EarlyEnd DEF Answer

(* A fact learned from the row of a key.                                   *)
LEMMA FoundKeyIs ==
  ASSUME NEW k \in KeyIds, NEW d, FoundKey(k, d)
  PROVE  KeyOf(k, d)
BY DEF FoundKey, KeyOf

LEMMA AuthenticateStep ==
  ASSUME ApiInv, NEW q \in Requests, NEW op \in Sends, NEW k \in KeyIds, NEW d \in Names,
         Authenticate(q, op, k, d)
  PROVE  ApiInv'
<1>1. req[q].pc \notin {"pool", "done"}
  BY IdleType DEF Authenticate
<1>2. UNCHANGED <<tenantVars, batches, deliveries>>
  BY DEF Authenticate
<1>3. CASE ValidateForAuth(k, d)
  <2> DEFINE s == [Idle EXCEPT !.op = op, !.pc = "domain", !.dom = d, !.key = k]
  <2>1. op \in Ops /\ "domain" \in Pcs
    BY DEF Ops, Pcs, SendPcs
  <2>2. /\ s \in Request /\ s.pc = "domain" /\ s.op = op /\ s.dom = d /\ s.key = k /\ s.code = "none"
    BY <2>1, IdleType, Zenon DEF Request
  <2>3. Goes(q, s)
    BY <1>3 DEF Authenticate
  <2>4. KeyOf(k, d)
    BY <1>3, FoundKeyIs DEF ValidateForAuth
  <2> HIDE DEF s
  <2>5. RequestOK(q, s)
    BY <2>2, <2>4 DEF RequestOK
  <2> QED  BY <1>1, <1>2, <2>2, <2>3, <2>5, EarlyMove
<1>4. CASE ~ValidateForAuth(k, d)
  BY <1>1, <1>2, <1>4, EarlyEnd DEF Authenticate, Codes
<1> QED  BY <1>3, <1>4

LEMMA LoadDomainStep ==
  ASSUME ApiInv, NEW q \in Requests, LoadDomain(q)
  PROVE  ApiInv'
<1> DEFINE next == IF req[q].op = "SendHTML" THEN "html" ELSE "find"
           s == [req[q] EXCEPT !.ceiling = CeilingOf(req[q].dom), !.pc = next]
<1>1. req[q] \in Request /\ RequestOK(q, req[q]) /\ req[q].pc = "domain" /\ req[q].op \in Sends
  BY ReqOf DEF LoadDomain
<1>2. KeyOf(req[q].key, req[q].dom) /\ req[q].code = "none"
  BY <1>1 DEF RequestOK, SendPcs, Request, Codes
<1>3. req[q].dom \in Names
  BY <1>2, TenantTypes, RowsExist DEF ApiInv, KeyOf, KeyExists, KeyRow
<1>4. CeilingOf(req[q].dom) \in WireModes
  <2>1. domains[req[q].dom] \in WireModes
    BY <1>3 DEF LoadDomain, Registered, ApiInv, TenantTypeOK
  <2> QED  BY <2>1, ModeTypes DEF CeilingOf
<1>5. next \in Pcs /\ next \in {"html", "find"} /\ (next = "find" => req[q].op # "SendHTML")
  BY DEF Pcs, SendPcs
<1>6. Goes(q, s) /\ UNCHANGED <<tenantVars, batches, deliveries>>
  BY DEF LoadDomain
<1> HIDE DEF next
<1>7. /\ s \in Request /\ s.pc = next /\ s.op = req[q].op /\ s.dom = req[q].dom /\ s.key = req[q].key
      /\ s.code = "none"
  BY <1>1, <1>2, <1>4, <1>5, Zenon DEF Request
<1> HIDE DEF s
<1>8. RequestOK(q, s)
  BY <1>1, <1>2, <1>5, <1>7 DEF RequestOK
<1>9. s.pc # "pool" /\ s.code # "ok"
  BY <1>5, <1>7
<1> QED  BY <1>1, <1>6, <1>8, <1>9, EarlyMove

-----------------------------------------------------------------------------
(* The steps of a send.  Where one is at, what it knows.                   *)
LEMMA AtSend ==
  ASSUME ApiInv, NEW q \in Requests, req[q].pc \in SendPcs
  PROVE  /\ req[q] \in Request /\ RequestOK(q, req[q]) /\ req[q].op \in Sends
         /\ KeyOf(req[q].key, req[q].dom) /\ req[q].dom \in Names /\ req[q].key \in KeyIds
         /\ req[q].code = "none"
<1>1. req[q] \in Request /\ RequestOK(q, req[q])
  BY ReqOf
<1>2. KeyOf(req[q].key, req[q].dom) /\ req[q].code = "none" /\ req[q].op \in Sends
  BY <1>1 DEF RequestOK, SendPcs, Request, Codes
<1>3. req[q].dom \in Names /\ req[q].key \in KeyIds
  BY <1>2, TenantTypes, RowsExist DEF ApiInv, KeyOf, KeyExists, KeyRow
<1> QED  BY <1>1, <1>2, <1>3

(* The Template is there, of the Domain of the send.                       *)
LEMMA TemplateStep ==
  ASSUME ApiInv, NEW q \in Requests, req[q].pc \in SendPcs \ {"pool"}, NEW next \in {"find", "batch"},
         createTransientTemplate(q, req[q].dom, next)
  PROVE  ApiInv'
<1>0. PICK t, s : t = newTemplateID /\ s = [req[q] EXCEPT !.ref = t, !.pc = next]
  OBVIOUS
<1>1. /\ CreateTemplate(t, req[q].dom, "transient") /\ req' = [req EXCEPT ![q] = s]
      /\ UNCHANGED <<domains, keys, locked>> /\ batches' = batches /\ deliveries' = deliveries
  BY <1>0 DEF createTransientTemplate, Goes
<1>2. req[q].pc \in SendPcs /\ next \in SendPcs /\ req[q].pc \notin {"pool", "done"}
  BY DEF SendPcs
<1>3. req[q].dom \in Names /\ KeyOf(req[q].key, req[q].dom)
  BY <1>2, AtSend
<1>4. /\ TenantTypeOK' /\ Deactivated' /\ KeptKeys /\ KeptTemplates /\ \A p : KeptLocks(p)
      /\ t \in TemplateIds /\ templates'[t] # NoTemplate /\ templates'[t].domain = req[q].dom
  BY <1>1, <1>3, CreateTemplateKeeps
<1>6. /\ s \in Request /\ s.pc = next /\ s.op = req[q].op /\ s.dom = req[q].dom /\ s.key = req[q].key
      /\ s.ref = t /\ s.code = "none" /\ s.op \in Sends
  <2>1. req[q] \in Request /\ req[q].op \in Sends /\ req[q].code = "none" /\ next \in Pcs
    BY <1>2, AtSend DEF Pcs
  <2> QED  BY <1>0, <1>4, <2>1, Zenon DEF Request
<1>7. KeyOf(s.key, s.dom)' /\ TemplateOf(s.ref, s.dom)'
  <2>1. s.key \in KeyIds /\ keys'[s.key] # NoKey /\ keys'[s.key].domain = s.dom
    BY <1>3, <1>4, <1>6 DEF KeptKeys, KeyOf
  <2> QED  BY <1>4, <1>6, <2>1 DEF KeyOf, KeyExists, TemplateOf
<1>8. /\ req' \in [Requests -> Request] /\ req'[q] = s
      /\ \A p \in Requests \ {q} : req'[p] = req[p]
  BY <1>1, <1>6, ReqOf
<1>9. MailType'
  BY <1>1, <1>8 DEF ApiInv, MailType
<1>10. RequestOK(q, req[q])'
  BY <1>4, <1>6, <1>7, <1>8 DEF RequestOK
<1>11. batches[q] = None /\ deliveries[q] = NoOne
  BY <1>2, Early
<1>12. StoredOK(req[q], batches[q], deliveries[q])' /\ TruthOf(req[q], batches[q], deliveries[q])'
  BY <1>1, <1>6, <1>8, <1>11, UnboundOK DEF ApiInv, StoredOK, TruthOf
<1>13. ReqInv(q)'
  BY <1>10, <1>12 DEF ReqInv
<1> QED  BY <1>1, <1>4, <1>8, <1>9, <1>13, RequestStep

LEMMA SendTemplateStep ==
  ASSUME ApiInv, NEW q \in Requests, SendTemplate(q)
  PROVE  ApiInv'
<1>1. req[q].pc = "find" /\ req[q].pc \in SendPcs /\ req[q].pc \notin {"pool", "done"}
  BY DEF SendTemplate, SendPcs
<1>2. RequestOK(q, req[q]) /\ KeyOf(req[q].key, req[q].dom)
  BY <1>1, AtSend
<1>3. CASE Refuse(q)
  BY <1>1, <1>3, AnswerStep DEF Refuse, Codes
<1>4. ASSUME NEW t \in IF req[q].op = "SendHTML" THEN {req[q].ref} ELSE TemplateIds,
             FindTemplate(t, req[q].dom),
             Goes(q, [req[q] EXCEPT !.ref = t, !.pc = "fields"]),
             UNCHANGED <<tenantVars, batches, deliveries>>
      PROVE  ApiInv'
  <2>0. PICK s : s = [req[q] EXCEPT !.ref = t, !.pc = "fields"]
    OBVIOUS
  <2>1. t \in TemplateIds /\ "fields" \in SendPcs
    BY <1>1, <1>2, <1>4 DEF RequestOK, SendPcs
  <2>2. TemplateOf(t, req[q].dom)
    <3>1. NoTemplate.status # "stored"
      BY DEF NoTemplate
    <3> QED  BY <1>4, <2>1, <3>1 DEF FindTemplate, Alive, TemplateOf
  <2>3. /\ s \in Request /\ s.pc = "fields" /\ s.op = req[q].op /\ s.dom = req[q].dom /\ s.key = req[q].key
        /\ s.ref = t /\ s.code = "none" /\ s.op \in Sends
    <3>1. req[q] \in Request /\ req[q].op \in Sends /\ req[q].code = "none" /\ "fields" \in Pcs
      BY <1>1, <2>1, AtSend DEF Pcs
    <3> QED  BY <2>0, <2>1, <3>1, Zenon DEF Request
  <2>4. RequestOK(q, s)
    BY <1>2, <2>2, <2>3 DEF RequestOK
  <2>5. Goes(q, s)
    BY <1>4, <2>0
  <2> QED  BY <1>1, <1>4, <2>3, <2>4, <2>5, EarlyMove
<1> QED  BY <1>3, <1>4 DEF SendTemplate

LEMMA WithGlobalFieldsStep ==
  ASSUME ApiInv, NEW q \in Requests, WithGlobalFields(q)
  PROVE  ApiInv'
<1>1. req[q].pc = "fields" /\ req[q].pc \in SendPcs \ {"pool"} /\ req[q].pc \notin {"pool", "done"}
  BY DEF WithGlobalFields, SendPcs
<1>2. RequestOK(q, req[q]) /\ KeyOf(req[q].key, req[q].dom) /\ req[q] \in Request /\ req[q].op \in Sends
      /\ req[q].code = "none"
  BY <1>1, AtSend
<1>3. CASE createTransientTemplate(q, req[q].dom, "batch")
  BY <1>1, <1>3, TemplateStep
<1>4. CASE Goes(q, [req[q] EXCEPT !.pc = "batch"]) /\ UNCHANGED <<tenantVars, batches, deliveries>>
  <2> DEFINE s == [req[q] EXCEPT !.pc = "batch"]
  <2>1. "batch" \in Pcs
    BY DEF Pcs, SendPcs
  <2>2. /\ s \in Request /\ s.pc = "batch" /\ s.op = req[q].op /\ s.dom = req[q].dom /\ s.key = req[q].key
        /\ s.ref = req[q].ref /\ s.code = "none"
    BY <1>2, <2>1, Zenon DEF Request
  <2>3. TemplateOf(req[q].ref, req[q].dom)
    BY <1>1, <1>2 DEF RequestOK
  <2> HIDE DEF s
  <2>4. RequestOK(q, s)
    BY <1>2, <2>2, <2>3 DEF RequestOK
  <2>5. Goes(q, s)
    BY <1>4 DEF s
  <2> QED  BY <1>1, <1>4, <2>2, <2>4, <2>5, EarlyMove
<1> QED  BY <1>3, <1>4 DEF WithGlobalFields

-----------------------------------------------------------------------------
(* The Guard of a send: the one Grant of a key reaches the Batches of its  *)
(* own Domain and of no other.                                             *)
LEMMA SecondOf ==
  ASSUME NEW S, NEW a \in S, NEW b \in S, NEW tail \in Seq(S)
  PROVE  2 \in DOMAIN (<<a, b>> \o tail) /\ (<<a, b>> \o tail)[2] = b
<1>1. <<a, b>> \in Seq(S) /\ Len(<<a, b>>) = 2 /\ <<a, b>>[2] = b
  OBVIOUS
<1> QED  BY <1>1

LEMMA SenderPattern ==
  ASSUME NEW d, NEW r, patternCovers(extend(DomainAnchor(d), <<"batches">>), r)
  PROVE  r[2] = d
<1> DEFINE head == <<literalSegment("domains"), literalSegment(d)>>
           tail == [i \in DOMAIN <<"batches">> |-> literalSegment(<<"batches">>[i])]
           S == {literalSegment("domains"), literalSegment(d), literalSegment("batches")}
<1>1. tail \in Seq(S)
  <2>1. DOMAIN <<"batches">> = 1..1 /\ <<"batches">>[1] = "batches"
    OBVIOUS
  <2>2. tail \in [1..1 -> S]
    BY <2>1
  <2> QED  BY <2>2
<1>2. extend(DomainAnchor(d), <<"batches">>) \in {EmptyPattern, [everything |-> FALSE, segments |-> head \o tail]}
  BY DEF extend, DomainAnchor, Anchor
<1>3. ~patternCovers(EmptyPattern, r)
  BY DEF patternCovers, EmptyPattern
<1> HIDE DEF tail
<1>4. 2 \in DOMAIN (head \o tail) /\ (head \o tail)[2] = literalSegment(d)
  BY <1>1, SecondOf
<1> HIDE DEF head
<1>5. patternCovers([everything |-> FALSE, segments |-> head \o tail], r)
  BY <1>2, <1>3
<1>6. (head \o tail)[2].wildcard \/ (head \o tail)[2].literal = r[2]
  BY <1>4, <1>5 DEF patternCovers
<1> QED  BY <1>4, <1>6 DEF literalSegment

LEMMA SenderGuard ==
  ASSUME NEW d, NEW r, Decide(KeyPrincipal(d), "create", r) = "allowed"
  PROVE  r[2] = d
<1>1. Can(KeyPrincipal(d), "create", r)
  BY DEF Decide
<1>2. KeyPrincipal(d).grants = {Grant("sender", DomainAnchor(d))}
  BY DEF KeyPrincipal, NewPrincipal
<1>3. PICK g \in {Grant("sender", DomainAnchor(d))} :
        patternCovers(extend(g.anchor, catalogue[g.role].suffix), r)
  BY <1>1, <1>2 DEF Can
<1>4. g.anchor = DomainAnchor(d) /\ catalogue[g.role].suffix = <<"batches">>
  BY <1>3 DEF Grant, catalogue
<1> QED  BY <1>3, <1>4, SenderPattern

LEMMA SenderIsOwn ==
  ASSUME NEW from, NEW d, Decide(KeyPrincipal(d), "create", senderBatches(from, d)) = "allowed"
  PROVE  from = d \/ isParentDomain(from, d)
<1>1. Batches(from)[2] = from
  <2>1. <<"batches">> \in Seq({"domains", from, "batches"})
    OBVIOUS
  <2> QED  BY <2>1, SecondOf DEF Batches, under
<1> QED  BY <1>1, SenderGuard DEF senderBatches

(* A request whose own rows change too.                                    *)
LEMMA Stores ==
  ASSUME ApiInv, NEW q \in Requests, NEW s, NEW b, NEW d, UNCHANGED tenantVars,
         req' = [req EXCEPT ![q] = s], batches' = [batches EXCEPT ![q] = b],
         deliveries' = [deliveries EXCEPT ![q] = d], b \in BatchRow \cup {None},
         RequestOK(q, s), StoredOK(s, b, d), TruthOf(s, b, d)
  PROVE  ApiInv'
<1>1. TenantTypeOK' /\ Deactivated' /\ KeptKeys /\ KeptTemplates /\ \A p : KeptLocks(p)
  BY TablesUnchanged
<1>2. s \in Request /\ d \in [Recipients -> Readable \cup {None}]
  BY DEF RequestOK, StoredOK
<1>3. /\ req' \in [Requests -> Request] /\ req'[q] = s
      /\ batches' \in [Requests -> BatchRow \cup {None}] /\ batches'[q] = b
      /\ deliveries' \in [Requests -> [Recipients -> Readable \cup {None}]] /\ deliveries'[q] = d
      /\ \A p \in Requests \ {q} : req'[p] = req[p] /\ batches'[p] = batches[p] /\ deliveries'[p] = deliveries[p]
  BY <1>2, ReqOf
<1>4. MailType'
  BY <1>3 DEF MailType
<1>5. \A u, v, w : RequestOK(q, u) /\ StoredOK(u, v, w) => RequestOK(q, u)' /\ StoredOK(u, v, w)'
  BY <1>1, RequestStays
<1>6. ReqInv(q)'
  BY <1>3, <1>5 DEF ReqInv, TruthOf
<1> QED  BY <1>1, <1>3, <1>4, <1>6, RequestStep

LEMMA CreateBatchStep ==
  ASSUME ApiInv, NEW q \in Requests, CreateBatch(q)
  PROVE  ApiInv'
<1>1. req[q].pc = "batch" /\ req[q].pc \in SendPcs /\ req[q].pc \notin {"pool", "done"}
  BY DEF CreateBatch, SendPcs
<1>2. /\ req[q] \in Request /\ RequestOK(q, req[q]) /\ req[q].op \in Sends
      /\ KeyOf(req[q].key, req[q].dom) /\ req[q].dom \in Names /\ req[q].key \in KeyIds
      /\ req[q].code = "none"
  BY <1>1, AtSend
<1>3. TemplateOf(req[q].ref, req[q].dom) /\ req[q].ref \in TemplateIds
  BY <1>1, <1>2 DEF RequestOK, TemplateOf
<1>4. CASE Refuse(q)
  BY <1>1, <1>4, AnswerStep DEF Refuse, Codes
<1>5. ASSUME NEW from \in Hosts, NEW mode \in Stated,
             Decide(KeyPrincipal(req[q].dom), "create", senderBatches(from, req[q].dom)) = "allowed",
             BatchAdmitted(q, mode), batches' = [batches EXCEPT ![q] = Batch(q, from, mode)],
             Goes(q, [req[q] EXCEPT !.pc = "pool"]), UNCHANGED <<tenantVars, deliveries>>
      PROVE  ApiInv'
  <2>0. PICK s, b : s = [req[q] EXCEPT !.pc = "pool"] /\ b = Batch(q, from, mode)
    OBVIOUS
  <2>1. "pool" \in Pcs
    BY DEF Pcs, SendPcs
  <2>2. /\ s \in Request /\ s.pc = "pool" /\ s.op = req[q].op /\ s.dom = req[q].dom /\ s.key = req[q].key
        /\ s.ref = req[q].ref /\ s.code = "none" /\ s.ceiling = req[q].ceiling
    BY <1>2, <2>0, <2>1, Zenon DEF Request
  <2>3. RequestOK(q, s)
    BY <1>2, <1>3, <2>2 DEF RequestOK
  <2>4. mode \in WireModes
    BY <1>5, MailerAssumption DEF MailerAssumption, BatchAdmitted, Modes, WireModes
  <2>5. from = req[q].dom \/ isParentDomain(from, req[q].dom)
    BY <1>5, SenderIsOwn
  <2>6. /\ b \in BatchRow /\ b.domain = req[q].dom /\ b.template = req[q].ref /\ b.from = from
        /\ b.by = req[q].key /\ b.ceiling = req[q].ceiling
    BY <1>2, <1>3, <2>0, <2>4 DEF Batch, BatchRow, Request
  <2>7. BatchOK(b)
    BY <1>2, <1>3, <2>5, <2>6 DEF BatchOK
  <2>8. deliveries[q] = NoOne /\ deliveries' = [deliveries EXCEPT ![q] = NoOne]
    BY <1>1, <1>5, Early, ReqOf
  <2>9. StoredOK(s, b, NoOne) /\ TruthOf(s, b, NoOne)
    BY <2>2, <2>6, <2>7, UnboundOK DEF ApiInv, StoredOK, TruthOf
  <2>10. batches' = [batches EXCEPT ![q] = b] /\ req' = [req EXCEPT ![q] = s] /\ UNCHANGED tenantVars
    BY <1>5, <2>0 DEF Goes
  <2> QED  BY <2>3, <2>6, <2>8, <2>9, <2>10, Stores
<1>6. ASSUME NEW from \in Hosts, NEW mode \in Stated, Refuse(q)
      PROVE  ApiInv'
  BY <1>4, <1>6
<1> QED  BY <1>4, <1>5, <1>6 DEF CreateBatch

-----------------------------------------------------------------------------
(* The Recipients.                                                         *)
LEMMA FateType ==
  ASSUME NEW q, NEW e
  PROVE  Fate(q, e) \in Fates \ {"not_listed"}
BY DEF Fate, Fates

LEMMA ScheduleBatchStep ==
  ASSUME ApiInv, NEW q \in Requests, ScheduleBatch(q)
  PROVE  ApiInv'
<1>1. req[q].pc = "pool" /\ req[q].pc \in SendPcs
  BY DEF ScheduleBatch, SendPcs
<1>2. /\ req[q] \in Request /\ BatchOK(batches[q]) /\ batches[q].ceiling = req[q].ceiling
      /\ batches[q] \in BatchRow /\ batches \in [Requests -> BatchRow \cup {None}]
  BY <1>1, ReqOf DEF StoredOK, BatchOK
<1>3. req[q].ceiling \in Modes /\ batches[q].mode \in Modes
  BY <1>2, ModeTypes DEF Request, BatchRow
<1>4. PICK listed \in SUBSET Recipients : \E list \in [listed -> Entries] :
        /\ deliveries' = [deliveries EXCEPT ![q] = Scheduled(q, list)]
        /\ \/ Goes(q, Ended("ok", Report(q, list)))
           \/ Accepted(q, list) # {} /\ Goes(q, Ended("error", NotListed))
        /\ UNCHANGED <<tenantVars, batches>>
  BY DEF ScheduleBatch
<1>5. PICK list \in [listed -> Entries] :
        /\ deliveries' = [deliveries EXCEPT ![q] = Scheduled(q, list)]
        /\ \/ Goes(q, Ended("ok", Report(q, list)))
           \/ Accepted(q, list) # {} /\ Goes(q, Ended("error", NotListed))
        /\ UNCHANGED <<tenantVars, batches>>
  BY <1>4
<1>6. PICK d : d = Scheduled(q, list)
  OBVIOUS
<1>7. ASSUME NEW r \in Recipients
      PROVE  IF r \in Accepted(q, list)
             THEN /\ d[r] \in Readable
                  /\ Rank(d[r]) \in Permitted(batches[q].ceiling, batches[q].mode, "unspecified")
             ELSE d[r] = None
  <2>1. CASE r \in Accepted(q, list)
    <3>1. d[r] = Resolved(q, list[r]) /\ r \in listed
      BY <1>6, <2>1 DEF Scheduled, Accepted
    <3>2. list[r].mode \in Modes
      BY <1>5, <3>1, MailerAssumption DEF MailerAssumption, Entries
    <3>3. d[r] = MostRestrictive(batches[q].ceiling, batches[q].mode, list[r].mode)
      BY <1>2, <3>1 DEF Resolved, IntakeCeiling
    <3>4. /\ d[r] \in Readable
          /\ \A n \in 0..Rank(d[r]) : n \in Permitted(batches[q].ceiling, batches[q].mode, list[r].mode)
      BY <1>2, <1>3, <3>2, <3>3, CascadeNarrows
    <3>5. Rank(d[r]) \in 0..4 /\ Rank(d[r]) \in 0..Rank(d[r])
      BY RankType
    <3>6. Rank(d[r]) \in Permitted(batches[q].ceiling, batches[q].mode, list[r].mode)
      BY <3>4, <3>5
    <3>7. Rank(d[r]) \in Permitted(batches[q].ceiling, batches[q].mode, "unspecified")
      BY <3>6 DEF Permitted, States
    <3> QED  BY <2>1, <3>4, <3>7
  <2>2. CASE r \notin Accepted(q, list)
    BY <1>6, <2>2 DEF Scheduled
  <2> QED  BY <2>1, <2>2
<1>8. d \in [Recipients -> Readable \cup {None}]
  <2>1. d = [r \in Recipients |-> d[r]]
    BY <1>6 DEF Scheduled
  <2>2. \A r \in Recipients : d[r] \in Readable \cup {None}
    BY <1>7
  <2> QED  BY <2>1, <2>2
<1>9. /\ Report(q, list) \in [Recipients -> Fates]
      /\ \A r \in Recipients : (Report(q, list)[r] = "accepted") <=> (r \in Accepted(q, list))
  <2>1. "not_listed" \in Fates
    BY DEF Fates
  <2>2. DOMAIN list = listed
    BY <1>5
  <2> QED  BY <2>1, <2>2, FateType DEF Report, Accepted
<1>10. \A r \in Recipients : (d[r] # None) <=> (r \in Accepted(q, list))
  BY <1>7, ModeTypes
<1>11. ASSUME NEW s, RequestOK(q, s), s.pc = "done", s.code \in {"ok", "error"},
              s.code = "ok" => s.fate = Report(q, list), Goes(q, s)
       PROVE  ApiInv'
  <2>1. StoredOK(s, batches[q], d)
    BY <1>2, <1>7, <1>8, <1>11 DEF StoredOK
  <2>2. TruthOf(s, batches[q], d)
    BY <1>9, <1>10, <1>11 DEF TruthOf
  <2>3. batches' = [batches EXCEPT ![q] = batches[q]] /\ deliveries' = [deliveries EXCEPT ![q] = d]
        /\ UNCHANGED tenantVars
    BY <1>2, <1>5, <1>6
  <2> QED  BY <1>2, <1>11, <2>1, <2>2, <2>3, Stores DEF Goes
<1>12. CASE Goes(q, Ended("ok", Report(q, list)))
  <2>1. "ok" \in Codes
    BY DEF Codes
  <2> QED  BY <1>9, <1>11, <1>12, <2>1, EndedOK, EndedType
<1>13. CASE Goes(q, Ended("error", NotListed))
  <2>1. "error" \in Codes
    BY DEF Codes
  <2> QED  BY <1>11, <1>13, <2>1, IdleType, EndedOK, EndedType
<1> QED  BY <1>5, <1>12, <1>13

-----------------------------------------------------------------------------
(* The Admin API: the start of an operation.                               *)
LEMMA BeginStep ==
  ASSUME ApiInv, NEW q \in Requests, NEW op \in Ops, NEW a, NEW resource, NEW r,
         RequestOK(q, r), r.pc \in {"done", "count", "lock", "get", "write"},
         r.code = "ok" => r.fate = NotListed, Begin(q, op, a, resource, r)
  PROVE  ApiInv'
<1>1. req[q].pc \notin {"pool", "done"} /\ UNCHANGED <<tenantVars, batches, deliveries>>
  BY IdleType DEF Begin
<1>2. PICK s : s = IF r.pc = "done" THEN r ELSE [r EXCEPT !.op = op]
  OBVIOUS
<1>3. r \in Request
  BY DEF RequestOK
<1>4. /\ s \in Request /\ s.pc = r.pc /\ s.code = r.code /\ s.fate = r.fate /\ s.ref = r.ref
  <2>1. CASE r.pc = "done"
    BY <1>2, <1>3, <2>1
  <2>2. CASE r.pc # "done"
    <3>1. s = [r EXCEPT !.op = op]
      BY <1>2, <2>2
    <3> QED  BY <1>3, <3>1, Zenon DEF Request
  <2> QED  BY <2>1, <2>2
<1>5. RequestOK(q, s)
  BY <1>4 DEF RequestOK, SendPcs
<1>6. Goes(q, s)
  BY <1>2 DEF Begin
<1> QED  BY <1>1, <1>4, <1>5, <1>6, EarlyMove

LEMMA FoundOK ==
  ASSUME NEW q, NEW exists \in BOOLEAN
  PROVE  RequestOK(q, Found(exists)) /\ Found(exists).pc = "done" /\ Found(exists).fate = NotListed
<1>1. "ok" \in Codes /\ "not_found" \in Codes
  BY DEF Codes
<1>2. CASE exists
  BY <1>1, <1>2, IdleType, EndedOK, EndedType DEF Found
<1>3. CASE ~exists
  BY <1>1, <1>3, IdleType, EndedOK, EndedType DEF Found
<1> QED  BY <1>2, <1>3

LEMMA CountOK ==
  ASSUME NEW q, NEW page \in (SUBSET KeyIds) \cup (SUBSET TemplateIds),
         NEW r, r = [Idle EXCEPT !.pc = "count", !.read = page]
  PROVE  RequestOK(q, r) /\ r.pc = "count" /\ r.code # "ok"
<1>1. "count" \in Pcs
  BY DEF Pcs
<1>2. r \in Request /\ r.pc = "count" /\ r.code = "none"
  BY <1>1, IdleType, Zenon DEF Request
<1> QED  BY <1>2 DEF RequestOK, SendPcs

LEMMA ListsStep ==
  ASSUME ApiInv, NEW q \in Requests, NEW d \in Names, NEW onlyActive \in BOOLEAN,
         ListKeys(q, d, onlyActive) \/ ListTemplates(q, d)
  PROVE  ApiInv'
<1>1. KeysListed(d, onlyActive) \in SUBSET KeyIds /\ TemplatesListed(d) \in SUBSET TemplateIds
  BY DEF KeysListed, TemplatesListed
<1>2. "ListAPIKeys" \in Ops /\ "GetTemplates" \in Ops
  BY DEF Ops
<1>3. CASE ListKeys(q, d, onlyActive)
  <2>1. PICK r : r = [Idle EXCEPT !.pc = "count", !.read = KeysListed(d, onlyActive)]
    OBVIOUS
  <2>2. RequestOK(q, r) /\ r.pc = "count" /\ r.code # "ok"
    BY <1>1, <2>1, CountOK
  <2>3. Begin(q, "ListAPIKeys", "list", APIKeys(d), r)
    BY <1>3, <2>1 DEF ListKeys
  <2> QED  BY <1>2, <2>2, <2>3, BeginStep
<1>4. CASE ListTemplates(q, d)
  <2>1. PICK r : r = [Idle EXCEPT !.pc = "count", !.read = TemplatesListed(d)]
    OBVIOUS
  <2>2. RequestOK(q, r) /\ r.pc = "count" /\ r.code # "ok"
    BY <1>1, <2>1, CountOK
  <2>3. Begin(q, "GetTemplates", "list", Templates(d), r)
    BY <1>4, <2>1 DEF ListTemplates
  <2> QED  BY <1>2, <2>2, <2>3, BeginStep
<1> QED  BY <1>3, <1>4

LEMMA DeactivatingStep ==
  ASSUME ApiInv, NEW q \in Requests, NEW k \in KeyIds, NEW d \in Names, Deactivating(q, k, d)
  PROVE  ApiInv'
<1>1. PICK r : r = [Idle EXCEPT !.dom = d, !.ref = k, !.pc = "lock"]
  OBVIOUS
<1>2. "lock" \in Pcs /\ "DeactivateAPIKey" \in Ops
  BY DEF Pcs, Ops
<1>3. r \in Request /\ r.pc = "lock" /\ r.code = "none" /\ r.ref = k
  BY <1>1, <1>2, IdleType, Zenon DEF Request
<1>4. RequestOK(q, r)
  BY <1>3 DEF RequestOK, SendPcs
<1> QED  BY <1>1, <1>2, <1>3, <1>4, BeginStep DEF Deactivating

LEMMA ChangeTemplateStep ==
  ASSUME ApiInv, NEW q \in Requests, NEW op \in DOMAIN Changes, NEW t \in KnownIds,
         ChangeTemplate(q, op, t)
  PROVE  ApiInv'
<1>1. op \in {"UpdateTemplate", "DeleteTemplate"} /\ op \in Ops
  BY DEF Changes, Ops
<1>2. t \in TemplateIds /\ DomainFromID(t) \in Names
  <2>1. t \in TemplateIds /\ templates[t] \in TemplateRow
    BY TenantTypes DEF KnownIds, ApiInv
  <2> QED  BY <2>1 DEF DomainFromID, TemplateRow
<1>3. PICK r : r = IF FindTemplate(t, DomainFromID(t))
                   THEN [Idle EXCEPT !.dom = DomainFromID(t), !.ref = t,
                                     !.pc = IF op = "UpdateTemplate" THEN "get" ELSE "write"]
                   ELSE Found(FALSE)
  OBVIOUS
<1>4. RequestOK(q, r) /\ r.pc \in {"done", "get", "write"} /\ (r.code = "ok" => r.fate = NotListed)
  <2>1. CASE ~FindTemplate(t, DomainFromID(t))
    BY <1>3, <2>1, FoundOK
  <2>2. CASE FindTemplate(t, DomainFromID(t))
    <3>1. PICK next \in {"get", "write"} : r = [Idle EXCEPT !.dom = DomainFromID(t), !.ref = t, !.pc = next]
      BY <1>3, <2>2
    <3>2. next \in Pcs
      BY DEF Pcs
    <3>3. r \in Request /\ r.pc = next /\ r.code = "none" /\ r.ref = t
      BY <1>2, <3>1, <3>2, IdleType, Zenon DEF Request
    <3> QED  BY <1>2, <3>3 DEF RequestOK, SendPcs
  <2> QED  BY <2>1, <2>2
<1>5. Begin(q, op, Changes[op], Template(DomainFromID(t), t), r)
  BY <1>3 DEF ChangeTemplate
<1> QED  BY <1>1, <1>4, <1>5, BeginStep

(* Everything that takes a free slot.                                      *)
LEMMA AcceptStep ==
  ASSUME ApiInv, NEW q \in Requests, Accept(q)
  PROVE  ApiInv'
<1>1. CASE Unauthenticated(q)
  BY <1>1, AnswerStep, IdleType DEF Unauthenticated, Refuse, Codes
<1>2. CASE GetDomains(q)
  <2>1. Begin(q, "GetDomains", "list", Domains, Found(TRUE)) /\ "GetDomains" \in Ops
    BY <1>2 DEF GetDomains, Ops
  <2> QED  BY <2>1, FoundOK, BeginStep
<1>3. ASSUME NEW d \in Names, GetDomain(q, d)
      PROVE  ApiInv'
  <2>1. Begin(q, "GetDomain", "read", Domain(d), Found(Registered(d))) /\ "GetDomain" \in Ops
        /\ Registered(d) \in BOOLEAN
    BY <1>3 DEF GetDomain, Ops, Registered
  <2> QED  BY <2>1, FoundOK, BeginStep
<1>4. ASSUME NEW t \in KnownIds, AdminGetTemplate(q, t)
      PROVE  ApiInv'
  <2>1. /\ Begin(q, "GetTemplate", "read", Template(DomainFromID(t), t), Found(FindTemplate(t, DomainFromID(t))))
        /\ "GetTemplate" \in Ops /\ FindTemplate(t, DomainFromID(t)) \in BOOLEAN
    BY <1>4 DEF AdminGetTemplate, Ops, FindTemplate, Alive
  <2> QED  BY <2>1, FoundOK, BeginStep
<1>5. ASSUME NEW k \in KeyIds, NEW d \in Names, GetAPIKey(q, k, d)
      PROVE  ApiInv'
  <2>1. Begin(q, "GetAPIKey", "read", APIKey(d, k), Found(FoundKey(k, d))) /\ "GetAPIKey" \in Ops
        /\ FoundKey(k, d) \in BOOLEAN
    BY <1>5 DEF GetAPIKey, Ops, FoundKey, KeyExists
  <2> QED  BY <2>1, FoundOK, BeginStep
<1>6. ASSUME NEW d \in Names, ListTemplates(q, d)
      PROVE  ApiInv'
  BY <1>6, ListsStep
<1> QED  BY <1>1, <1>2, <1>3, <1>4, <1>5, <1>6, AuthenticateStep, ListsStep, DeactivatingStep,
            ChangeTemplateStep DEF Accept

-----------------------------------------------------------------------------
(* The transaction that deactivates a key.                                 *)
LEMMA LockKeyStep ==
  ASSUME ApiInv, NEW q \in Requests, LockKey(q)
  PROVE  ApiInv'
<1>1. req[q].pc = "lock" /\ req[q].pc \notin {"pool", "done"}
  BY DEF LockKey, At
<1>2. req[q] \in Request /\ RequestOK(q, req[q]) /\ req[q].ref \in KeyIds /\ req[q].code = "none"
  BY <1>1, ReqOf DEF RequestOK, Request, Codes
<1>3. CASE Answer(q, "not_found")
  BY <1>1, <1>3, AnswerStep DEF Codes
<1>4. CASE /\ GetAPIKeyByIDForUpdate(req[q].ref, req[q].dom, q)
           /\ Goes(q, [req[q] EXCEPT !.read = keys[req[q].ref], !.pc = "commit"])
           /\ UNCHANGED <<domains, keys, templates, batches, deliveries>>
  <2>0. PICK k, row, s : k = req[q].ref /\ row = keys[k] /\ s = [req[q] EXCEPT !.read = row, !.pc = "commit"]
    OBVIOUS
  <2>1. /\ k \in KeyIds /\ KeyExists(k) /\ locked[k] = None /\ locked' = [locked EXCEPT ![k] = q]
        /\ req' = [req EXCEPT ![q] = s] /\ keys' = keys /\ domains' = domains /\ templates' = templates
        /\ batches' = batches /\ deliveries' = deliveries
    BY <1>2, <1>4, <2>0 DEF GetAPIKeyByIDForUpdate, FoundKey, Goes
  <2>2. row \in KeyRow /\ "commit" \in Pcs
    BY <2>0, <2>1, TenantTypes DEF ApiInv, KeyExists, Pcs
  <2>3. s \in Request /\ s.pc = "commit" /\ s.ref = k /\ s.read = row /\ s.code = "none"
    BY <1>2, <2>0, <2>2, Zenon DEF Request
  <2>4. locked \in [KeyIds -> Requests \cup {None}]
    BY DEF ApiInv, TenantTypeOK
  <2>5. /\ locked' \in [KeyIds -> Requests \cup {None}] /\ locked'[k] = q
        /\ \A j \in KeyIds : j # k => locked'[j] = locked[j]
    BY <2>1, <2>4
  <2>6. TenantTypeOK' /\ Deactivated'
    BY <2>1, <2>5 DEF ApiInv, TenantTypeOK, Deactivated
  <2>7. KeptKeys /\ KeptTemplates
    BY <2>1 DEF KeptKeys, KeptTemplates, KeyExists
  <2>8. \A p \in Requests \ {q} : KeptLocks(p)
    BY <2>1, <2>5, TenantAssumption DEF KeptLocks, TenantAssumption
  <2>9. Holds(q, k, row)'
    BY <2>0, <2>1, <2>2, <2>5 DEF Holds, KeyExists
  <2>10. /\ req' \in [Requests -> Request] /\ req'[q] = s
         /\ \A p \in Requests \ {q} : req'[p] = req[p]
    BY <2>1, <2>3, ReqOf
  <2>11. RequestOK(q, req[q])'
    BY <2>1, <2>3, <2>9, <2>10 DEF RequestOK, SendPcs
  <2>12. batches[q] = None /\ deliveries[q] = NoOne
    BY <1>1, Early
  <2>13. StoredOK(req[q], batches[q], deliveries[q])' /\ TruthOf(req[q], batches[q], deliveries[q])'
    BY <2>1, <2>3, <2>10, <2>12, UnboundOK DEF ApiInv, StoredOK, TruthOf
  <2>14. MailType' /\ ReqInv(q)'
    BY <2>1, <2>10, <2>11, <2>13 DEF ApiInv, MailType, ReqInv
  <2> QED  BY <2>1, <2>6, <2>7, <2>8, <2>10, <2>14, RequestStep
<1> QED  BY <1>3, <1>4 DEF LockKey

(* The locks of the others survive the end of a transaction.               *)
LEMMA ReleasedKeeps ==
  ASSUME ApiInv, NEW q, locked' = Released(q)
  PROVE  /\ locked' \in [KeyIds -> Requests \cup {None}]
         /\ \A p \in Requests \ {q}, k \in KeyIds : locked[k] = p => locked'[k] = p
BY DEF ApiInv, TenantTypeOK, Released

(* A request that ends and gives back its locks, with rows of others       *)
(* untouched.                                                              *)
LEMMA EndStep ==
  ASSUME ApiInv, NEW q \in Requests, NEW code \in Codes \ {"refused"},
         code = "ok" => req[q].pc \notin {"pool", "done"},
         Goes(q, Ended(code, NotListed)), UNCHANGED <<batches, deliveries>>,
         TenantTypeOK', Deactivated', KeptKeys, KeptTemplates, \A p \in Requests \ {q} : KeptLocks(p)
  PROVE  ApiInv'
<1>0. PICK s : s = Ended(code, NotListed)
  OBVIOUS
<1>1. /\ s \in Request /\ s.pc = "done" /\ s.code = code /\ s.fate = NotListed
  BY <1>0, IdleType, EndedType
<1>2. /\ req' \in [Requests -> Request] /\ req'[q] = s /\ batches' = batches /\ deliveries' = deliveries
      /\ \A p \in Requests \ {q} : req'[p] = req[p]
  BY <1>0, <1>1, ReqOf DEF Goes
<1>3. RequestOK(q, req[q])'
  BY <1>1, <1>2 DEF RequestOK, SendPcs
<1>4. StoredOK(req[q], batches[q], deliveries[q])
  BY ReqOf
<1>5. StoredOK(req[q], batches[q], deliveries[q])'
  <2>1. batches[q] # None => BatchOK(batches[q])
    BY <1>4 DEF StoredOK
  <2>2. batches'[q] # None => BatchOK(batches[q])'
    <3>1. PICK b : b = batches[q]
      OBVIOUS
    <3>2. BatchOK(b) => BatchOK(b)'
      BY LearnedStays
    <3>3. batches'[q] = b
      BY <1>2, <3>1
    <3> QED  BY <2>1, <3>1, <3>2, <3>3
  <2> QED  BY <1>1, <1>2, <1>4, <2>2 DEF StoredOK
<1>6. TruthOf(req[q], batches[q], deliveries[q])'
  <2>1. CASE code = "ok"
    <3>1. deliveries[q] = NoOne
      BY <2>1, Early
    <3>2. \A r \in Recipients : NoOne[r] = None /\ NotListed[r] = "not_listed"
      BY DEF NoOne, NotListed
    <3> QED  BY <1>1, <1>2, <2>1, <3>1, <3>2 DEF TruthOf
  <2>2. CASE code # "ok"
    BY <1>1, <1>2, <2>2 DEF TruthOf
  <2> QED  BY <2>1, <2>2
<1>7. MailType' /\ ReqInv(q)'
  BY <1>2, <1>3, <1>5, <1>6 DEF ApiInv, MailType, ReqInv
<1> QED  BY <1>2, <1>7, RequestStep

(* The row that the transaction writes.                                    *)
LEMMA DeactivatedRow ==
  ASSUME ApiInv, NEW q \in Requests, DeactivateKey(q)
  PROVE  \E k \in KeyIds, row \in KeyRow :
           /\ keys' = [keys EXCEPT ![k] = row] /\ locked[k] = q /\ KeyExists(k)
           /\ row.domain = keys[k].domain /\ row.active = FALSE
           /\ keys[k].deactivated # None => row.deactivated = keys[k].deactivated
<1>1. req[q].pc = "commit"
  BY DEF DeactivateKey, At
<1>2. PICK k, old : k = req[q].ref /\ old = req[q].read
  OBVIOUS
<1>3. Holds(q, k, old)
  BY <1>1, <1>2, ReqOf DEF RequestOK
<1>4. k \in KeyIds /\ locked[k] = q /\ KeyExists(k) /\ old \in KeyRow /\ old.domain = keys[k].domain
      /\ old.active = keys[k].active /\ old.deactivated = keys[k].deactivated
  BY <1>3 DEF Holds
<1>5. keys[k] \in KeyRow
  BY <1>4, TenantTypes DEF ApiInv, KeyExists
<1>6. PICK new : new = Deactivate(old, q)
  OBVIOUS
<1>7. /\ new \in KeyRow /\ new.domain = old.domain /\ new.active = FALSE
      /\ keys[k].deactivated # None => new.deactivated = keys[k].deactivated
  <2>1. CASE old.active
    <3>1. new = [old EXCEPT !.active = FALSE, !.deactivated = q]
      BY <1>6, <2>1 DEF Deactivate
    <3>2. new \in KeyRow /\ new.domain = old.domain /\ new.active = FALSE
      BY <1>4, <3>1, Zenon DEF KeyRow
    <3>3. keys[k].deactivated = None
      BY <1>4, <2>1 DEF ApiInv, Deactivated
    <3> QED  BY <3>2, <3>3
  <2>2. CASE ~old.active
    <3>1. new = old
      BY <1>6, <2>2 DEF Deactivate
    <3>2. old.active = FALSE
      BY <1>4, <2>2 DEF KeyRow
    <3> QED  BY <1>4, <3>1, <3>2
  <2> QED  BY <2>1, <2>2
<1>8. PICK row : row = [new EXCEPT !.expiry = keys[k].expiry]
  OBVIOUS
<1>9. /\ row \in KeyRow /\ row.domain = new.domain /\ row.active = FALSE /\ row.deactivated = new.deactivated
  <2>1. keys[k].expiry \in {"never", "ahead", "past"}
    BY <1>5 DEF KeyRow
  <2> QED  BY <1>7, <1>8, <2>1, Zenon DEF KeyRow
<1>10. keys' = [keys EXCEPT ![k] = row]
  BY <1>2, <1>6, <1>8 DEF DeactivateKey, UpdateAPIKey
<1> QED  BY <1>4, <1>7, <1>9, <1>10

LEMMA DeactivateKeyStep ==
  ASSUME ApiInv, NEW q \in Requests, DeactivateKey(q)
  PROVE  ApiInv'
<1>1. PICK k \in KeyIds, row \in KeyRow :
           /\ keys' = [keys EXCEPT ![k] = row] /\ locked[k] = q /\ KeyExists(k)
           /\ row.domain = keys[k].domain /\ row.active = FALSE
  BY DeactivatedRow
<1>2. /\ locked' = Released(q) /\ domains' = domains /\ templates' = templates
      /\ Goes(q, Ended("ok", NotListed)) /\ UNCHANGED <<batches, deliveries>>
      /\ req[q].pc = "commit" /\ "ok" \in Codes \ {"refused"}
  BY DEF DeactivateKey, At, Codes
<1>3. /\ locked' \in [KeyIds -> Requests \cup {None}]
      /\ \A p \in Requests \ {q}, j \in KeyIds : locked[j] = p => locked'[j] = p
  BY <1>2, ReleasedKeeps
<1>4. TenantTypeOK' /\ Deactivated' /\ KeptKeys /\ KeptTemplates
  BY <1>1, <1>2, <1>3, KeyWritten
<1>5. \A p \in Requests \ {q} : KeptLocks(p)
  <2>1. \A j \in KeyIds : j # k => keys'[j] = keys[j]
    BY <1>1, TenantTypes DEF ApiInv
  <2> QED  BY <1>1, <1>3, <2>1 DEF KeptLocks
<1> QED  BY <1>2, <1>4, <1>5, EndStep

-----------------------------------------------------------------------------
(* Templates of the Admin API, and the error path of every request.        *)
LEMMA TemplateWritten ==
  ASSUME ApiInv, NEW t \in TemplateIds, NEW row \in TemplateRow, row.domain = templates[t].domain,
         templates' = [templates EXCEPT ![t] = row], UNCHANGED <<domains, keys, locked>>
  PROVE  TenantTypeOK' /\ Deactivated' /\ KeptKeys /\ KeptTemplates /\ \A p : KeptLocks(p)
<1>1. templates \in [TemplateIds -> {NoTemplate} \cup TemplateRow] /\ row # NoTemplate
  BY TenantTypes, RowsExist DEF ApiInv
<1>2. /\ templates' \in [TemplateIds -> {NoTemplate} \cup TemplateRow] /\ templates'[t] = row
      /\ \A u \in TemplateIds : u # t => templates'[u] = templates[u]
  BY <1>1
<1>3. domains' = domains /\ keys' = keys /\ locked' = locked
  OBVIOUS
<1>4. KeptTemplates
  BY <1>1, <1>2 DEF KeptTemplates
<1>5. TenantTypeOK'
  BY <1>2, <1>3 DEF ApiInv, TenantTypeOK, TemplateRow
<1>6. Deactivated' /\ KeptKeys /\ \A p : KeptLocks(p)
  BY <1>3 DEF ApiInv, Deactivated, KeptKeys, KeptLocks, KeyExists
<1> QED  BY <1>4, <1>5, <1>6

LEMMA WriteTemplateStep ==
  ASSUME ApiInv, NEW q \in Requests, WriteTemplate(q)
  PROVE  ApiInv'
<1>1. req[q].pc = "write" /\ UNCHANGED <<batches, deliveries>> /\ UNCHANGED <<domains, keys, locked>>
  BY DEF WriteTemplate
<1>2. PICK t : t = req[q].ref
  OBVIOUS
<1>3. t \in TemplateIds
  BY <1>1, <1>2, ReqOf DEF RequestOK
<1>4. CASE UNCHANGED templates /\ Goes(q, Found(FALSE))
  <2>1. "not_found" \in Codes
    BY DEF Codes
  <2>2. Goes(q, Ended("not_found", NotListed)) /\ UNCHANGED <<tenantVars, batches, deliveries>>
    BY <1>1, <1>4 DEF Found, tenantVars
  <2> QED  BY <1>1, <2>1, <2>2, EarlyEnd
<1>5. CASE Goes(q, Ended("ok", NotListed)) /\ (UpdateTemplate(t, q) \/ DeleteTemplate(t))
  <2>1. templates[t] \in TemplateRow
    <3>1. NoTemplate.status # "stored"
      BY DEF NoTemplate
    <3>2. templates[t].status = "stored"
      BY <1>5 DEF UpdateTemplate, DeleteTemplate, Alive
    <3> QED  BY <1>3, <3>1, <3>2, TenantTypes DEF ApiInv
  <2>2. PICK row : /\ row \in {[templates[t] EXCEPT !.html = q], [templates[t] EXCEPT !.status = "deleted"]}
                   /\ templates' = [templates EXCEPT ![t] = row]
    BY <1>5 DEF UpdateTemplate, DeleteTemplate
  <2>3. row \in TemplateRow /\ row.domain = templates[t].domain
    <3>1. CASE row = [templates[t] EXCEPT !.html = q]
      BY <2>1, <3>1, Zenon DEF TemplateRow
    <3>2. CASE row = [templates[t] EXCEPT !.status = "deleted"]
      BY <2>1, <3>2, Zenon DEF TemplateRow
    <3> QED  BY <2>2, <3>1, <3>2
  <2>4. TenantTypeOK' /\ Deactivated' /\ KeptKeys /\ KeptTemplates /\ \A p : KeptLocks(p)
    BY <1>1, <1>3, <2>2, <2>3, TemplateWritten
  <2>5. "ok" \in Codes \ {"refused"}
    BY DEF Codes
  <2> QED  BY <1>1, <1>5, <2>4, <2>5, EndStep
<1> QED  BY <1>2, <1>4, <1>5 DEF WriteTemplate

LEMMA ReloadTemplateStep ==
  ASSUME ApiInv, NEW q \in Requests, ReloadTemplate(q)
  PROVE  ApiInv'
<1>1. req[q].pc = "get" /\ req[q].pc \notin {"pool", "done"} /\ UNCHANGED <<tenantVars, batches, deliveries>>
  BY DEF ReloadTemplate, At
<1>2. CASE Goes(q, Found(FALSE))
  BY <1>1, <1>2, EarlyEnd DEF Found, Codes
<1>3. CASE Goes(q, [req[q] EXCEPT !.pc = "write"])
  <2>1. PICK s : s = [req[q] EXCEPT !.pc = "write"]
    OBVIOUS
  <2>2. req[q] \in Request /\ req[q].ref \in TemplateIds /\ req[q].code = "none" /\ "write" \in Pcs
    BY <1>1, ReqOf DEF RequestOK, Request, Codes, Pcs
  <2>3. s \in Request /\ s.pc = "write" /\ s.ref = req[q].ref /\ s.code = "none"
    BY <2>1, <2>2, Zenon DEF Request
  <2>4. RequestOK(q, s)
    BY <2>2, <2>3 DEF RequestOK, SendPcs
  <2> QED  BY <1>1, <1>3, <2>1, <2>3, <2>4, EarlyMove
<1> QED  BY <1>2, <1>3 DEF ReloadTemplate

LEMMA FailsStep ==
  ASSUME ApiInv, NEW q \in Requests, Fails(q)
  PROVE  ApiInv'
<1>1. /\ Goes(q, Ended("error", NotListed)) /\ locked' = Released(q) /\ domains' = domains
      /\ keys' = keys /\ templates' = templates /\ UNCHANGED <<batches, deliveries>>
      /\ "error" \in Codes \ {"refused"}
  BY DEF Fails, Codes
<1>2. /\ locked' \in [KeyIds -> Requests \cup {None}]
      /\ \A p \in Requests \ {q}, j \in KeyIds : locked[j] = p => locked'[j] = p
  BY <1>1, ReleasedKeeps
<1>3. TenantTypeOK' /\ Deactivated' /\ KeptKeys /\ KeptTemplates
  BY <1>1, <1>2 DEF ApiInv, TenantTypeOK, Deactivated, KeptKeys, KeptTemplates, KeyExists
<1>4. \A p \in Requests \ {q} : KeptLocks(p)
  BY <1>1, <1>2 DEF KeptLocks
<1> QED  BY <1>1, <1>3, <1>4, EndStep

LEMMA SendHTMLStep ==
  ASSUME ApiInv, NEW q \in Requests, SendHTML(q)
  PROVE  ApiInv'
<1>1. req[q].pc \in SendPcs \ {"pool"} /\ createTransientTemplate(q, req[q].dom, "find")
  BY DEF SendHTML, At, SendPcs
<1> QED  BY <1>1, TemplateStep

LEMMA ServeStep ==
  ASSUME ApiInv, NEW q \in Requests, Serve(q)
  PROVE  ApiInv'
<1>1. CASE Count(q)
  BY <1>1, AnswerStep DEF Count, Codes
<1> QED  BY <1>1, LoadDomainStep, SendHTMLStep, SendTemplateStep, WithGlobalFieldsStep, CreateBatchStep,
            ScheduleBatchStep, LockKeyStep, DeactivateKeyStep, ReloadTemplateStep, WriteTemplateStep
         DEF Serve, MailerStep

-----------------------------------------------------------------------------
LEMMA ApiInitially == ApiInit => ApiInv
<1> SUFFICES ASSUME ApiInit PROVE ApiInv
  OBVIOUS
<1>1. TenantTypeOK
  BY DEF ApiInit, TenantInit, TenantTypeOK
<1>2. Deactivated
  BY DEF ApiInit, TenantInit, Deactivated, NoKey
<1>3. /\ req = [q \in Requests |-> Idle] /\ batches = [q \in Requests |-> None]
      /\ deliveries = [q \in Requests |-> NoOne]
  BY DEF ApiInit, MailInit
<1>4. NoOne \in [Recipients -> Readable \cup {None}]
  BY DEF NoOne
<1>5. MailType
  BY <1>3, <1>4, IdleType DEF MailType
<1>6. ASSUME NEW q \in Requests PROVE ReqInv(q)
  <2>1. RequestOK(q, Idle)
    BY IdleType DEF RequestOK, SendPcs
  <2>2. StoredOK(Idle, None, NoOne) /\ TruthOf(Idle, None, NoOne)
    BY IdleType, NothingStored
  <2> QED  BY <1>3, <2>1, <2>2 DEF ReqInv
<1> QED  BY <1>1, <1>2, <1>5, <1>6 DEF ApiInv

LEMMA ApiStep ==
  ASSUME ApiInv, [ApiNext]_apiVars
  PROVE  ApiInv'
<1>1. CASE UNCHANGED apiVars
  <2>1. UNCHANGED tenantVars /\ UNCHANGED mailVars
    BY <1>1 DEF apiVars
  <2> QED  BY <2>1, TablesUnchanged, TableStep
<1> QED  BY <1>1, AdminStep, SetTrackingPolicyStep, AdminCreateAPIKeyStep, KeyExpiresStep, AcceptStep,
            ServeStep, FailsStep DEF ApiNext

(* In every state of the API process each request knows what its steps     *)
(* have established, whatever the others did in between.                   *)
THEOREM ApiInvariant == ApiSpec => []ApiInv
<1>1. ApiInv /\ [ApiNext]_apiVars => ApiInv'
  BY ApiStep
<1> QED  BY <1>1, ApiInitially, PTL DEF ApiSpec

(* Tables and requests hold values of their types, and a request that is   *)
(* about to commit holds the lock of its row.                              *)
THEOREM ApiTypes == ApiSpec => []ApiTypeOK
<1>1. ASSUME ApiInv PROVE ApiTypeOK
  <2>1. TenantTypeOK
    BY <1>1 DEF ApiInv
  <2>2. ASSUME NEW q \in Requests
        PROVE  /\ req[q].ceiling \in Readable \cup {"unspecified"}
               /\ req[q].pc = "commit" => locked[req[q].ref] = q
               /\ batches[q] # None => batches[q].mode \in WireModes
               /\ \A r \in Recipients : deliveries[q][r] \in Readable \cup {None}
    <3>1. req[q].ceiling \in WireModes /\ deliveries[q] \in [Recipients -> Readable \cup {None}]
      BY <1>1, ReqOf DEF Request
    <3>2. req[q].pc = "commit" => locked[req[q].ref] = q
      BY <1>1, ReqOf DEF RequestOK, Holds
    <3>3. batches[q] # None => batches[q].mode \in WireModes
      BY <1>1, ReqOf DEF BatchRow
    <3> QED  BY <3>1, <3>2, <3>3 DEF WireModes
  <2> QED  BY <2>1, <2>2 DEF ApiTypeOK
<1> QED  BY <1>1, ApiInvariant, PTL

(* Deactivating a key is final, whatever requests overlap: the row lock    *)
(* holds together what the transaction read and what it writes.            *)
THEOREM DeactivationsAreFinal == ApiSpec => DeactivationIsFinal
<1> DEFINE Final == \A k \in KeyIds : keys[k].deactivated # None =>
                      keys'[k].deactivated = keys[k].deactivated /\ ~keys'[k].active
<1>1. ASSUME ApiInv, [ApiNext]_apiVars PROVE [Final]_apiVars
  <2>1. keys \in [KeyIds -> {NoKey} \cup KeyRow] /\ NoKey.deactivated = None
        /\ \A k \in KeyIds : keys[k].deactivated # None => keys[k].active = FALSE
    BY <1>1, TenantTypes DEF ApiInv, NoKey, Deactivated
  <2>2. CASE keys' = keys
    BY <2>1, <2>2
  <2>3. ASSUME NEW k \in KeyIds, NEW d \in Names, NEW expiry \in Expiries, AdminCreateAPIKey(k, d, expiry)
        PROVE  Final
    <3>1. keys[k] = NoKey /\ keys' = [keys EXCEPT ![k] = NewAPIKey(d, expiry)]
      BY <2>3 DEF AdminCreateAPIKey, CreateAPIKey, KeyExists
    <3> HIDE DEF NoKey
    <3> QED  BY <2>1, <3>1
  <2>4. ASSUME NEW k \in KeyIds, KeyExpires(k)
        PROVE  Final
    <3>1. PICK row : row = [keys[k] EXCEPT !.expiry = "past"]
      OBVIOUS
    <3>2. NoKey.expiry # "ahead" /\ keys[k].expiry = "ahead" /\ keys' = [keys EXCEPT ![k] = row]
      BY <2>4, <3>1 DEF NoKey, KeyExpires
    <3>3. keys[k] \in KeyRow
      BY <2>1, <3>2
    <3>4. row.active = keys[k].active /\ row.deactivated = keys[k].deactivated
      BY <3>1, <3>3, Zenon DEF KeyRow
    <3> QED  BY <2>1, <3>2, <3>4
  <2>5. ASSUME NEW q \in Requests, DeactivateKey(q)
        PROVE  Final
    <3>1. PICK k \in KeyIds, row \in KeyRow :
             /\ keys' = [keys EXCEPT ![k] = row] /\ row.active = FALSE
             /\ keys[k].deactivated # None => row.deactivated = keys[k].deactivated
      BY <1>1, <2>5, DeactivatedRow
    <3> QED  BY <2>1, <3>1
  <2>6. CASE UNCHANGED apiVars
    BY <2>6
  <2>7. ASSUME NEW q \in Requests, Accept(q) \/ Fails(q) \/ (Serve(q) /\ ~DeactivateKey(q))
        PROVE  keys' = keys
    BY <2>7 DEF Accept, Fails, Serve, MailerStep, Authenticate, Unauthenticated, Refuse, Answer, GetDomains,
                GetDomain, ListTemplates, ListKeys, GetAPIKey, Deactivating, AdminGetTemplate, ChangeTemplate,
                Begin, LoadDomain, SendHTML, createTransientTemplate, SendTemplate, WithGlobalFields,
                CreateBatch, ScheduleBatch, Count, LockKey, ReloadTemplate, WriteTemplate, tenantVars
  <2>8. ASSUME NEW d \in Names, AdminCreateDomain(d) \/ AdminCreateTemplate(d)
        PROVE  keys' = keys
    BY <2>8 DEF AdminCreateDomain, AdminCreateTemplate
  <2>9. ASSUME NEW d, NEW m, SetTrackingPolicy(d, m)
        PROVE  keys' = keys
    BY <2>9 DEF SetTrackingPolicy
  <2> HIDE DEF Final
  <2> QED  BY <1>1, <2>2, <2>3, <2>4, <2>5, <2>6, <2>7, <2>8, <2>9 DEF ApiNext
<1> QED  BY <1>1, ApiInvariant, PTL DEF ApiSpec, DeactivationIsFinal

(* A send reaches the tenant of its key and no other.                      *)
THEOREM TenantsAreIsolated == ApiSpec => []TenantIsolation
<1>1. ApiInv => TenantIsolation
  BY ReqOf DEF TenantIsolation, StoredOK, BatchOK, KeyOf, TemplateOf
<1> QED  BY <1>1, ApiInvariant, PTL

(* All Deliveries of a Batch are frozen under the ceiling of the Batch,    *)
(* although the Domain's policy may change while the send is under way.    *)
THEOREM BatchesUnderOneCeiling == ApiSpec => []BatchUnderOneCeiling
<1>1. ApiInv => BatchUnderOneCeiling
  BY ReqOf DEF BatchUnderOneCeiling, StoredOK
<1> QED  BY <1>1, ApiInvariant, PTL

(* The answer of a send tells its Recipients apart as the pool does.       *)
THEOREM AnswersAreTrue == ApiSpec => []AnswerIsTrue
<1>1. ApiInv => AnswerIsTrue
  BY ReqOf DEF AnswerIsTrue, TruthOf
<1> QED  BY <1>1, ApiInvariant, PTL

=============================================================================
