------------------------------- MODULE Outbound -------------------------------
(***************************************************************************)
(* Mail that leaves: the SMTP client (internal/smtp) with the report that   *)
(* the SMTPSender makes of what it returns.                                 *)
(*                                                                          *)
(* Time is counted in units of smtpDialTimeout.  How long a Send may take   *)
(* follows from its dials; resolving names is not in it, since the code     *)
(* sets no limit to that.                                                   *)
(***************************************************************************)
EXTENDS Integers

CONSTANTS
  Deliveries,    \* what is sent, each under a return path of its own
  Hosts,         \* how many hosts the MX records of a domain may name
  MaxAttempts,   \* bound: Envelopes of one Delivery
  DialTimeout, TotalTimeout,
  GuardTTL       \* sendGuardTTL, for which a claimed Envelope is remembered

ASSUME OutboundAssumption ==
  /\ Hosts \subseteq Nat
  /\ MaxAttempts \in Nat
  /\ DialTimeout \in Nat /\ TotalTimeout \in Nat /\ GuardTTL \in Nat

(* The guard outlasts two connections with each of five hosts: 15 s and     *)
(* 120 s for one of them, an hour for the guard.                            *)
ASSUME GuardAssumption == 10 * (DialTimeout + TotalTimeout) <= GuardTTL

VARIABLES
  send,      \* the Send that is under way, or Idle
  attempts,  \* Envelopes of a Delivery so far
  outcome    \* the last stat of a Delivery

outboundVars == <<send, attempts, outcome>>

-----------------------------------------------------------------------------
(* Errors of the client.                                                   *)
Permanent(code) == code >= 500 /\ code < 600
newSMTPError(permanent, code) == [permanent |-> permanent, code |-> code]
NoError == [permanent |-> FALSE, code |-> -1]

NoReply == 0     \* the code of a conversation that broke off
NoHost  == 111   \* the code of a host that could not be greeted

newSMTPErrorFromSTMP(reply) == newSMTPError(Permanent(reply), reply)

Stat(type, err) == [type |-> type, permanent |-> err.permanent]

(* A Send: the host it is at of how many, whether certificates are checked, *)
(* the step of the conversation, the last error; history: the reply that   *)
(* the remote side gave, how often a host was dialled, and whether one has *)
(* taken the mail.                                                         *)
Idle == [step |-> "idle"]
Sending(k) ==
  [step |-> "resolve", key |-> k, host |-> 0, hosts |-> 0, insecure |-> FALSE,
   err |-> NoError, reply |-> NoReply, resolved |-> TRUE, dials |-> 0, accepted |-> FALSE]

Goes(s) == send' = s /\ UNCHANGED <<attempts, outcome>>

(* Mutant of the loop over the hosts: one error is like another.           *)
TriesOn(err) ==
  IF send.host < send.hosts
  THEN [send EXCEPT !.step = "dial", !.host = @ + 1, !.insecure = FALSE, !.err = err]
  ELSE [send EXCEPT !.step = "done", !.err = newSMTPError(FALSE, err.code)]

(* The loop over the hosts after deliver has failed.  An error with a code *)
(* above 200 ends it, and so does the last host.                           *)
NextHost(err) ==
  IF err.code > 200
  THEN [send EXCEPT !.step = "done", !.err = err]
  ELSE IF send.host < send.hosts
  THEN [send EXCEPT !.step = "dial", !.host = @ + 1, !.insecure = FALSE, !.err = err]
  ELSE [send EXCEPT !.step = "done", !.err = newSMTPError(FALSE, err.code)]

-----------------------------------------------------------------------------
(* handleMessage: the Envelope has been claimed.                           *)
Begin(k) ==
  /\ send = Idle
  /\ attempts[k] < MaxAttempts
  /\ outcome[k].type \in {"none", "error"}
  /\ send' = Sending(k)
  /\ attempts' = [attempts EXCEPT ![k] = @ + 1]
  /\ UNCHANGED outcome

(* A verdict without asking any host.                                      *)
Verdict(permanent, code) ==
  Goes([send EXCEPT !.step = "done", !.err = newSMTPError(permanent, code), !.resolved = FALSE])

(* GetEmailDomain: an address that Validate refuses.                       *)
BadAddress == send.step = "resolve" /\ Verdict(TRUE, 510)

(* Mutant: the list of hosts is not cut.                                   *)
AllHosts(n) == n

(* At most five of the hosts that the records name.                        *)
Capped(n) == IF n > 5 THEN 5 ELSE n

(* lookupMXs: a name that is none, a lookup that fails for now or for      *)
(* good, no records (the domain itself is the host), or records.           *)
LookupFails == send.step = "resolve" /\ \E permanent \in BOOLEAN : Verdict(permanent, 512)
NullMX      == send.step = "resolve" /\ 0 \in Hosts /\ Verdict(TRUE, 550)

LookupMXs ==
  /\ send.step = "resolve"
  /\ \E n \in (Hosts \ {0}) \cup {1} :
       Goes([send EXCEPT !.step = "dial", !.host = 1, !.hosts = Capped(n)])

(* deliver, up to the greeting: the host does not answer, its greeting or  *)
(* its answer to EHLO is a refusal.                                        *)
DialFails == send.step = "dial" /\ Goes([NextHost(newSMTPError(FALSE, NoHost)) EXCEPT !.dials = @ + 1])

Dial ==
  /\ send.step = "dial"
  /\ \E next \in {"tls", "mail"} : Goes([send EXCEPT !.step = next, !.dials = @ + 1])

(* Mutant: every failure of STARTTLS is tried again.                       *)
RetriesTLS ==
  /\ send.step = "tls"
  /\ Goes([send EXCEPT !.step = "dial", !.insecure = TRUE, !.dials = 0])

(* STARTTLS where it is offered; one that fails is tried once more, on a   *)
(* new connection, without checking certificates.                          *)
TLSFails ==
  /\ send.step = "tls"
  /\ IF send.insecure THEN Goes(NextHost(newSMTPError(FALSE, NoHost)))
     ELSE Goes([send EXCEPT !.step = "dial", !.insecure = TRUE])

StartTLS == send.step = "tls" /\ Goes([send EXCEPT !.step = "mail"])

(* The commands of the conversation, each with the one that follows.       *)
After == [mail |-> "rcpt", rcpt |-> "data", data |-> "write", write |-> "close", close |-> "quit"]

Command ==
  /\ send.step \in DOMAIN After \ {"close"}
  /\ Goes([send EXCEPT !.step = After[send.step]])

(* The message has ended and the host has taken it.                        *)
CloseAccepted ==
  /\ send.step = "close"
  /\ Goes([send EXCEPT !.step = "quit", !.accepted = TRUE])

(* A command is refused, or the connection or the deadline ends; nothing   *)
(* is answered to a Write.                                                 *)
CommandRefused ==
  /\ send.step \in (DOMAIN After \cup {"quit"}) \ {"write"}
  /\ \E reply \in {450, 550} :
       Goes([NextHost(newSMTPErrorFromSTMP(reply)) EXCEPT !.reply = reply])

CommandBreaksOff ==
  /\ send.step \in DOMAIN After \cup {"quit"}
  /\ Goes(NextHost(newSMTPErrorFromSTMP(NoReply)))

Quit ==
  /\ send.step = "quit"
  /\ Goes([send EXCEPT !.step = "done", !.err = NoError])

(* handleSendSuccess, handleSendError: the stat.                           *)
ReportOf(err, shouldRetry) ==
  IF err = NoError THEN Stat("delivered", err)
  ELSE IF ~shouldRetry \/ err.permanent THEN Stat("bounced", err) ELSE Stat("error", err)

Report ==
  /\ send.step = "done"
  /\ send' = Idle
  /\ outcome' = [outcome EXCEPT ![send.key] = ReportOf(send.err, attempts[send.key] < MaxAttempts)]
  /\ UNCHANGED attempts

-----------------------------------------------------------------------------
OutboundInit ==
  /\ send = Idle
  /\ attempts = [k \in Deliveries |-> 0]
  /\ outcome = [k \in Deliveries |-> Stat("none", NoError)]

SendStep ==
  \/ BadAddress \/ LookupFails \/ NullMX \/ LookupMXs
  \/ DialFails \/ Dial \/ TLSFails \/ StartTLS
  \/ Command \/ CloseAccepted \/ CommandRefused \/ CommandBreaksOff \/ Quit
  \/ Report

OutboundNext ==
  \/ \E k \in Deliveries : Begin(k)
  \/ SendStep

(* A Send goes on: every step of it has a deadline.                        *)
OutboundSpec == OutboundInit /\ [][OutboundNext]_outboundVars /\ WF_outboundVars(SendStep)

-----------------------------------------------------------------------------
(* What a Send makes of the remote side.  It is permanent only if the host *)
(* it ended with said so with a 5xx, or if the address or its domain was   *)
(* refused before any host was asked; a 4xx or a silence is never          *)
(* permanent.  Without any reply it gives up only after the last host, and *)
(* a reply is never followed by another host.                              *)
VerdictIsEarned ==
  send.step = "done" =>
    /\ send.err.permanent => ~send.resolved \/ Permanent(send.reply)
    /\ send.resolved /\ Permanent(send.reply) => send.err.permanent
    /\ send.resolved /\ send.reply = NoReply /\ send.err # NoError => send.host = send.hosts
    /\ send.reply # NoReply => send.err.code = send.reply

(* A Send is over before the guard forgets the Envelope's claim, so that   *)
(* what is redelivered meanwhile is turned away, although the time of one  *)
(* connection is limited and that of a Send is not.                        *)
SendWithinGuard == send # Idle => send.dials * (DialTimeout + TotalTimeout) <= GuardTTL

(* A Send ends and is reported.                                            *)
SendEnds == send # Idle ~> send = Idle

(* CONTEXT.md: "The remote MX accepted the SMTP handoff" is Delivered.     *)
AcceptedIsDelivered ==
  send.step = "done" /\ send.accepted => send.err = NoError

=============================================================================
