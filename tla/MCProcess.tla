------------------------------ MODULE MCProcess -------------------------------
(***************************************************************************)
(* One file for an installation, and the pods that share it: each enables   *)
(* its own runnables through its environment, and sets only the variables   *)
(* that these need.                                                         *)
(***************************************************************************)
EXTENDS Process, TLC

Installation ==
  [s \in {Switch(x) : x \in Services} |->
     [enabled |-> CHOOSE l \in {Ref(x, "false") : x \in Services} : Switch(l.name) = s]]
  @@ [x \in {"root"}    |-> [database_url |-> Plain("db"), nats_url |-> Plain("nats"),
                             use_embedded_nats |-> Ref("EMBEDDED", "false")]]
  @@ [x \in {"api"}     |-> [admin_token |-> Ref("TOKEN", Unset)]]
  @@ [x \in {"sender"}  |-> [hostname |-> Ref("HOST", Unset)]]
  @@ [x \in {"audit"}   |-> [enabled |-> Ref("AUDIT", "false"), retention |-> Ref("RETENTION", Unset)]]
  @@ [x \in {"smtp"}    |-> [address |-> Escaped("env://")]]

Installations ==
  [ good    |-> Installation,
    typo    |-> Installation @@ [x \in {"tracker"} |-> [port |-> Malformed]],
    unknown |-> Installation @@ [x \in {Unknown} |-> [enabled |-> Plain("true")]] ]

Names == Services \cup {"EMBEDDED", "TOKEN", "HOST", "AUDIT", "RETENTION"}
Env(set) == [n \in Names |-> IF n = "HOST" /\ "NOHOST" \in set THEN ""
                             ELSE IF n \in set THEN "true" ELSE Unset]
Pod(set) == [env |-> Env(set), file |-> "good", command |-> "kannon"]

ThePods ==
  { Pod({"api", "TOKEN"}), Pod({"api", "TOKEN", "AUDIT", "RETENTION"}),
    Pod({"api", "audit", "TOKEN", "AUDIT", "RETENTION", "EMBEDDED"}),
    Pod({"api", "audit", "TOKEN", "RETENTION"}),
    Pod({"api", "audit", "TOKEN"}), Pod({"api"}), Pod({}),
    Pod({"sender", "HOST"}), Pod({"sender"}), Pod({"sender", "NOHOST"}),
    Pod({"sender", "dispatcher", "HOST"}), Pod({"sender", "smtp", "HOST"}),
    Pod({"validator", "stats"}), Pod({"tracker"}),
    Pod({"sender", "dispatcher", "validator", "api", "audit", "HOST", "TOKEN", "AUDIT", "RETENTION", "EMBEDDED"}),
    [Pod({"TOKEN", "HOST"}) EXCEPT !.command = "standalone"],
    [Pod({"tracker"}) EXCEPT !.file = "typo"],
    [Pod({"api", "TOKEN"}) EXCEPT !.file = "typo"], [Pod({"api", "TOKEN"}) EXCEPT !.file = "unknown"],
    [Pod({"api"}) EXCEPT !.file = "missing"], [Pod({"api"}) EXCEPT !.file = "unreadable"] }
=============================================================================
