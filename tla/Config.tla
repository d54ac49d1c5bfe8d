-------------------------------- MODULE Config --------------------------------
(***************************************************************************)
(* The configuration of a process (x/config, x/config/envref): one file     *)
(* describes a whole installation, and each pod differs in the environment  *)
(* that the file's env:// references name.                                  *)
(*                                                                          *)
(* A leaf of the file is a plain value, an escaped one, a reference with or *)
(* without a default, or a misspelt reference; a section maps the fields    *)
(* that are written to leaves.  Values are words: what they stand for is    *)
(* left to whoever reads the field.                                         *)
(***************************************************************************)
EXTENDS Naturals, Sequences

CONSTANTS
  Files,   \* the files there are: [name -> [section -> [field -> leaf]]]
  Pods     \* where a process may run: [env, file, command]

VARIABLE pod   \* the pod that this process is

-----------------------------------------------------------------------------
Unset == "(unset)"
Error == "(error)"

Plain(v)          == [form |-> "plain", value |-> v]
Escaped(v)        == [form |-> "escaped", value |-> v]
Ref(name, or)     == [form |-> "ref", name |-> name, default |-> or]
Malformed         == [form |-> "malformed"]

(* An empty variable counts as unset (kannonOptions).                      *)
Lookup(name) == IF pod.env[name] = "" THEN Unset ELSE pod.env[name]

resolve(leaf) ==
  CASE leaf.form = "plain"     -> leaf.value
    [] leaf.form = "escaped"   -> leaf.value
    [] leaf.form = "malformed" -> Error
    [] leaf.form = "ref"       -> IF Lookup(leaf.name) # Unset THEN Lookup(leaf.name)
                                  ELSE IF leaf.default # Unset THEN leaf.default ELSE Error

(* What a process sees of its file: a missing one says nothing.            *)
Sections == IF pod.file \in DOMAIN Files THEN DOMAIN Files[pod.file] ELSE {}
Written(section) ==
  IF section \in Sections THEN Files[pod.file][section] ELSE [f \in {} |-> Plain("")]

(* Decoder: a field nobody wrote keeps its zero value, a reference is      *)
(* resolved, and a switch must then read as one.                           *)
Switches == {"enabled", "use_embedded_nats", "debug", "demo_sender"}
Decode(section, field) ==
  LET v == IF field \in DOMAIN Written(section) THEN resolve(Written(section)[field]) ELSE ""
  IN  IF field \in Switches /\ v \notin {"", "true", "false"} THEN Error ELSE v

(* TryLoadSection: only the fields of the struct that is read are decoded, *)
(* and one that cannot be fails the section.                               *)
TryLoadSection(section, fields) == \A f \in fields : Decode(section, f) # Error

On(section, field) == Decode(section, field) = "true"

-----------------------------------------------------------------------------
RootConfig == {"database_url", "nats_url", "use_embedded_nats", "debug"}

Read == pod.file # "unreadable" /\ TryLoadSection("root", RootConfig)

(* each: the runnables.                                                    *)
Services == {"sender", "dispatcher", "validator", "stats", "tracker", "api", "smtp", "audit"}

(* The section of a runnable's switch; a name that is no runnable's makes  *)
(* LoadServices fail.                                                      *)
Switch(s) == "services." \o s
Unknown   == "services.unknown"

LoadServices ==
  /\ Unknown \notin Sections
  /\ \A s \in Services : TryLoadSection(Switch(s), {"enabled"})

AllServices == Services
Chosen == IF pod.command = "standalone" THEN AllServices
          ELSE {s \in Services : On(Switch(s), "enabled")}
Enabled(s) == s \in Chosen

(* readConfigAndServices, and readConfig alone for standalone.             *)
readConfigAndServices == Read /\ (pod.command = "standalone" \/ LoadServices)

UseEmbeddedNats == pod.command = "standalone" \/ On("root", "use_embedded_nats")

(* The operator's credential: it resolves, and it is not blank.            *)
APIAdminToken == Decode("api", "admin_token")
AdminToken == APIAdminToken \notin {Error, ""}
requireAdminToken == "api" \in Chosen => AdminToken

(* audit.TryLoadConfig: whether the section can be read, and whether the   *)
(* feature is on.                                                          *)
AuditFields == {"enabled", "retention"}
AuditEnabled == TryLoadSection("audit", AuditFields) /\ On("audit", "enabled")
=============================================================================
