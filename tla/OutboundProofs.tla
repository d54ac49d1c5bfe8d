---------------------------- MODULE OutboundProofs ----------------------------
(***************************************************************************)
(* The SMTP client and the SMTPServer for any number of Deliveries, of MX   *)
(* hosts, of attempts and of sessions: what a Send concludes is what the    *)
(* remote side said, it is over before the send guard forgets the claim,    *)
(* and a bounce is about the recipient of the mail it was made of.          *)
(***************************************************************************)
EXTENDS Inbound, TLAPS

-----------------------------------------------------------------------------
(* The types of a Send.                                                    *)
Conversation == {"tls", "mail", "rcpt", "data", "write", "close", "quit"}
SendError    == [permanent : BOOLEAN, code : Int]
SendType ==
  [step : {"resolve", "dial", "done"} \cup Conversation, key : Deliveries,
   host : Nat, hosts : Nat, insecure : BOOLEAN, err : SendError, reply : Nat,
   resolved : BOOLEAN, dials : Nat, accepted : BOOLEAN]

(* How often a Send has dialled: before a dial at most twice for each of   *)
(* the hosts before this one, and once for this one if the certificate was *)
(* refused there.                                                          *)
Dialled(s) == IF s.insecure THEN 2 * s.host - 1 ELSE 2 * s.host - 2

(* Where a Send can be.  Until it is over no host has answered with an     *)
(* error, and it is at one of at most five hosts.                          *)
SendOK(s) ==
  /\ s \in SendType
  /\ s.step # "done" => s.reply = NoReply /\ s.resolved
  /\ s.step = "resolve" => s.dials = 0 /\ s.host = 0 /\ s.hosts = 0
  /\ s.step = "dial" => s.dials <= Dialled(s)
  /\ s.step \in Conversation => s.dials <= Dialled(s) + 1
  /\ s.step \notin {"resolve", "done"} => 1 <= s.host
  /\ s.host <= s.hosts /\ s.hosts <= 5
  /\ s.step = "done" => s.dials <= 10

(* The verdict of a Send that is over.                                     *)
Earned(s) ==
  s.step = "done" =>
    /\ s.err.permanent => ~s.resolved \/ Permanent(s.reply)
    /\ s.resolved /\ Permanent(s.reply) => s.err.permanent
    /\ s.resolved /\ s.reply = NoReply /\ s.err # NoError => s.host = s.hosts
    /\ s.reply # NoReply => s.err.code = s.reply

Sound(s) == s = Idle \/ (SendOK(s) /\ Earned(s))

(* The inductive invariant of a Send.                                      *)
SendInv == Sound(send) /\ attempts \in [Deliveries -> Nat]

-----------------------------------------------------------------------------
(* The conversation's commands, and what follows each of them.             *)
LEMMA Commands ==
  /\ DOMAIN After = {"mail", "rcpt", "data", "write", "close"}
  /\ After["mail"] = "rcpt" /\ After["rcpt"] = "data" /\ After["data"] = "write"
  /\ After["write"] = "close" /\ After["close"] = "quit"
BY DEF After

(* A Send that is not idle is one of the records above.                    *)
LEMMA UnderWay ==
  ASSUME Sound(send), NEW S, send.step \in S, "idle" \notin S
  PROVE  SendOK(send) /\ Earned(send)
BY DEF Sound, Idle

(* The loop over the hosts, after an error that does not end it, goes on   *)
(* with the next host or is over after the last one.                       *)
LEMMA NextHostOn ==
  ASSUME send \in SendType, send.resolved = TRUE, NEW err \in SendError, ~(err.code > 200), send.host < send.hosts,
         NEW r, r = NextHost(err)
  PROVE  /\ r \in SendType /\ r.step = "dial" /\ r.host = send.host + 1 /\ r.hosts = send.hosts
         /\ r.insecure = FALSE /\ r.reply = send.reply /\ r.resolved = TRUE
         /\ r.dials = send.dials
<1>1. r = [send EXCEPT !.step = "dial", !.host = @ + 1, !.insecure = FALSE, !.err = err]
  BY DEF NextHost
<1>2. send.host + 1 \in Nat
  BY DEF SendType
<1> QED  BY <1>1, <1>2, Zenon DEF SendType

LEMMA NextHostOver ==
  ASSUME send \in SendType, send.resolved = TRUE, NEW err \in SendError, ~(err.code > 200), ~(send.host < send.hosts),
         NEW r, r = NextHost(err)
  PROVE  /\ r \in SendType /\ r.step = "done" /\ r.host = send.host /\ r.hosts = send.hosts
         /\ r.err.permanent = FALSE /\ r.reply = send.reply /\ r.resolved = TRUE
         /\ r.dials = send.dials
<1>1. r = [send EXCEPT !.step = "done", !.err = newSMTPError(FALSE, err.code)]
  BY DEF NextHost
<1>2. newSMTPError(FALSE, err.code) \in SendError /\ newSMTPError(FALSE, err.code).permanent = FALSE
  BY DEF SendError, newSMTPError
<1> QED  BY <1>1, <1>2, Zenon DEF SendType

LEMMA SetDials ==
  ASSUME NEW r \in SendType, NEW n \in Nat, NEW s, s = [r EXCEPT !.dials = n]
  PROVE  /\ s \in SendType /\ s.step = r.step /\ s.host = r.host /\ s.hosts = r.hosts /\ s.dials = n
         /\ s.insecure = r.insecure /\ s.reply = r.reply /\ s.resolved = r.resolved /\ s.err = r.err
BY DEF SendType

(* The loop keeps the bound on the dials and gives up only after the last  *)
(* host, when no host has answered.                                        *)
LEMMA NextHostSound ==
  ASSUME SendOK(send), send.step \in {"dial"} \cup Conversation,
         NEW err \in SendError, ~(err.code > 200),
         NEW s \in SendType, NEW r, r = NextHost(err),
         s.dials \in Nat, s.dials <= 2 * send.host,
         r \in SendType =>
           /\ s.step = r.step /\ s.host = r.host /\ s.hosts = r.hosts /\ s.insecure = r.insecure
           /\ s.reply = r.reply /\ s.resolved = r.resolved /\ s.err = r.err
  PROVE  SendOK(s) /\ Earned(s)
<1>1. /\ send \in SendType /\ send.reply = 0 /\ send.resolved = TRUE /\ 1 <= send.host
      /\ send.host <= send.hosts /\ send.hosts <= 5 /\ send.host \in Nat /\ send.hosts \in Nat
  BY DEF SendOK, SendType, Conversation, NoReply
<1>2. CASE send.host < send.hosts
  <2>1. /\ s.step = "dial" /\ s.host = send.host + 1 /\ s.insecure = FALSE
        /\ s.hosts = send.hosts /\ s.reply = 0 /\ s.resolved = TRUE
    BY <1>1, <1>2, NextHostOn, ZenonT(60)
  <2>2. s.dials <= Dialled(s)
    BY <1>1, <2>1 DEF Dialled
  <2>3. s.host <= s.hosts /\ s.hosts <= 5 /\ 1 <= s.host
    BY <1>1, <1>2, <2>1
  <2> QED  BY <2>1, <2>2, <2>3 DEF SendOK, Earned, Conversation, NoReply
<1>3. CASE ~(send.host < send.hosts)
  <2>1. /\ s.step = "done" /\ s.host = send.host /\ s.hosts = send.hosts
        /\ s.reply = 0 /\ s.resolved = TRUE /\ s.err.permanent = FALSE
    BY <1>1, <1>3, NextHostOver
  <2>2. s.host = s.hosts /\ s.hosts <= 5 /\ s.dials <= 10
    BY <1>1, <1>3, <2>1
  <2>3. ~Permanent(0)
    BY DEF Permanent
  <2> QED  BY <2>1, <2>2, <2>3 DEF SendOK, Earned, Conversation, NoReply
<1> QED  BY <1>2, <1>3

-----------------------------------------------------------------------------
(* The steps of a Send, one lemma each: it stays where it can be, and what *)
(* it concludes is earned.                                                 *)
LEMMA VerdictSound ==
  ASSUME Sound(send), send.step = "resolve", NEW permanent \in BOOLEAN, NEW code \in Int,
         Verdict(permanent, code)
  PROVE  Sound(send')
<1>1. SendOK(send)
  BY DEF Sound, Idle
<1>2. newSMTPError(permanent, code) \in SendError
  BY DEF newSMTPError, SendError
<1>3. send' = [send EXCEPT !.step = "done", !.err = newSMTPError(permanent, code), !.resolved = FALSE]
  BY DEF Verdict, Goes
<1>4. send \in SendType
  BY <1>1 DEF SendOK
<1>5. /\ send' \in SendType /\ send'.step = "done" /\ send'.resolved = FALSE /\ send'.reply = send.reply
      /\ send'.host = send.host /\ send'.hosts = send.hosts /\ send'.dials = send.dials
  BY <1>2, <1>3, <1>4, Zenon DEF SendType
<1>6. send.reply = NoReply /\ send.dials = 0 /\ send.host = 0 /\ send.hosts = 0
  BY <1>1 DEF SendOK
<1> QED  BY <1>5, <1>6 DEF Sound, SendOK, Earned, Conversation

LEMMA BeginSound ==
  ASSUME NEW k \in Deliveries, Begin(k)
  PROVE  Sound(send')
<1>1. send' = Sending(k)
  BY DEF Begin
<1>2. NoError \in SendError
  BY DEF NoError, SendError
<1> QED  BY <1>1, <1>2 DEF Sending, Sound, SendOK, Earned, SendType, NoReply, Conversation

LEMMA LookupMXsSound ==
  ASSUME Sound(send), LookupMXs
  PROVE  Sound(send')
<1>1. SendOK(send)
  BY DEF Sound, Idle, LookupMXs
<1>2. send \in SendType /\ send.reply = NoReply /\ send.dials = 0 /\ send.resolved = TRUE
  BY <1>1 DEF SendOK, LookupMXs, SendType
<1>3. PICK n \in (Hosts \ {0}) \cup {1} :
        send' = [send EXCEPT !.step = "dial", !.host = 1, !.hosts = Capped(n)]
  BY DEF LookupMXs, Goes
<1>4. Capped(n) \in Nat /\ 1 <= Capped(n) /\ Capped(n) <= 5
  BY OutboundAssumption DEF OutboundAssumption, Capped
<1>5. 1 \in Nat
  OBVIOUS
<1>6. /\ send' \in SendType /\ send'.step = "dial" /\ send'.host = 1 /\ send'.hosts = Capped(n)
      /\ send'.insecure = send.insecure /\ send'.reply = NoReply /\ send'.dials = 0 /\ send'.resolved = TRUE
  BY <1>2, <1>3, <1>4, <1>5, Zenon DEF SendType
<1>7. 0 <= Dialled(send')
  BY <1>6 DEF Dialled, SendType
<1> QED  BY <1>4, <1>6, <1>7 DEF Sound, SendOK, Earned, Conversation

(* What a Send that is at a host has and may do.                           *)
LEMMA AtHost ==
  ASSUME Sound(send), send.step \in {"dial"} \cup Conversation
  PROVE  /\ SendOK(send) /\ send \in SendType /\ send.reply = NoReply /\ send.resolved = TRUE
         /\ send.dials \in Nat /\ send.host \in Nat /\ 1 <= send.host
         /\ send.host <= send.hosts /\ send.hosts <= 5
         /\ send.step = "dial" => send.dials + 1 <= 2 * send.host
         /\ send.step # "dial" => send.dials <= 2 * send.host
<1>1. SendOK(send)
  BY DEF Sound, Idle, Conversation
<1> QED  BY <1>1 DEF SendOK, SendType, Dialled, Conversation

LEMMA DialFailsSound ==
  ASSUME Sound(send), DialFails
  PROVE  Sound(send')
<1> DEFINE err == newSMTPError(FALSE, NoHost)
           r   == NextHost(err)
<1>1. SendOK(send) /\ send \in SendType /\ send.dials \in Nat /\ send.dials + 1 <= 2 * send.host /\ send.resolved = TRUE
  BY AtHost DEF DialFails
<1>2. send' = [r EXCEPT !.dials = @ + 1] /\ send.step = "dial"
  BY DEF DialFails, Goes
<1>3. err \in SendError /\ ~(err.code > 200)
  BY DEF newSMTPError, SendError, NoHost
<1>4. r \in SendType /\ r.dials = send.dials
  BY <1>1, <1>3, NextHostOn, NextHostOver
<1>5. send.dials + 1 \in Nat
  BY <1>1
<1> HIDE DEF err, r
<1>6. send' = [r EXCEPT !.dials = send.dials + 1]
  BY <1>2, <1>4
<1>7. /\ send' \in SendType /\ send'.step = r.step /\ send'.host = r.host /\ send'.hosts = r.hosts
      /\ send'.dials = send.dials + 1 /\ send'.insecure = r.insecure /\ send'.reply = r.reply
      /\ send'.resolved = r.resolved /\ send'.err = r.err
  BY <1>4, <1>5, <1>6, SetDials
<1>8. SendOK(send') /\ Earned(send')
  BY <1>1, <1>2, <1>3, <1>5, <1>7, NextHostSound DEF r
<1> QED  BY <1>8 DEF Sound

LEMMA ConversationDials ==
  ASSUME Sound(send), send.step \in Conversation
  PROVE  SendOK(send) /\ send \in SendType /\ send.resolved = TRUE /\ send.reply = NoReply /\ send.dials <= 10
<1>1. SendOK(send) /\ send \in SendType /\ send.resolved = TRUE /\ send.reply = NoReply
  BY AtHost
<1>2. send.dials \in Nat /\ send.host \in Nat /\ send.hosts \in Nat
  BY <1>1 DEF SendType
<1>3. send.step # "dial"
  BY DEF Conversation
<1>4. send.dials <= 2 * send.host /\ send.host <= send.hosts /\ send.hosts <= 5
  BY <1>3, AtHost
<1> QED  BY <1>1, <1>2, <1>4

(* A conversation that breaks off goes to the next host.                   *)
LEMMA NextHostLeaves ==
  ASSUME Sound(send), send.step \in Conversation, NEW err \in SendError, ~(err.code > 200),
         send' = NextHost(err)
  PROVE  Sound(send')
<1>1. /\ SendOK(send) /\ send \in SendType /\ send.resolved = TRUE /\ send.dials \in Nat
      /\ send.dials <= 2 * send.host
  BY AtHost DEF Conversation
<1>2. send' \in SendType /\ send'.dials = send.dials
  BY <1>1, NextHostOn, NextHostOver
<1>3. SendOK(send') /\ Earned(send')
  BY <1>1, <1>2, NextHostSound
<1> QED  BY <1>3 DEF Sound

(* A step of the conversation that succeeds.                               *)
LEMMA StepSound ==
  ASSUME Sound(send), send.step \in Conversation, NEW next \in Conversation,
         NEW taken \in BOOLEAN, send' = [send EXCEPT !.step = next, !.accepted = taken]
  PROVE  Sound(send')
<1>1. SendOK(send) /\ send \in SendType
  BY AtHost
<1>2. /\ send' \in SendType /\ send'.step = next /\ send'.host = send.host /\ send'.hosts = send.hosts
      /\ send'.dials = send.dials /\ send'.reply = send.reply /\ send'.insecure = send.insecure
      /\ send'.resolved = send.resolved
  BY <1>1, Zenon DEF SendType
<1>3. Dialled(send') = Dialled(send)
  BY <1>2 DEF Dialled
<1> QED  BY <1>1, <1>2, <1>3 DEF Sound, SendOK, Earned, Conversation

LEMMA DialSound ==
  ASSUME Sound(send), Dial
  PROVE  Sound(send')
<1>1. SendOK(send) /\ send \in SendType /\ send.dials \in Nat
  BY AtHost DEF Dial
<1>2. send.dials <= Dialled(send) /\ send.step = "dial"
  BY <1>1 DEF SendOK, Dial
<1>3. PICK next \in {"tls", "mail"} : send' = [send EXCEPT !.step = next, !.dials = @ + 1]
  BY DEF Dial, Goes
<1>4. send.dials + 1 \in Nat
  BY <1>1
<1>5. /\ send' \in SendType /\ send'.step = next /\ send'.host = send.host /\ send'.hosts = send.hosts
      /\ send'.dials = send.dials + 1 /\ send'.reply = send.reply /\ send'.insecure = send.insecure
      /\ send'.resolved = send.resolved
  BY <1>1, <1>3, <1>4, Zenon DEF SendType, Conversation
<1>6. send'.dials <= Dialled(send') + 1
  BY <1>1, <1>2, <1>5 DEF Dialled, SendType
<1> QED  BY <1>1, <1>2, <1>5, <1>6 DEF Sound, SendOK, Earned, Conversation

LEMMA TLSFailsSound ==
  ASSUME Sound(send), TLSFails
  PROVE  Sound(send')
<1>1. SendOK(send) /\ send \in SendType /\ send.step = "tls"
  BY AtHost DEF TLSFails, Conversation
<1>2. CASE send.insecure
  <2>1. newSMTPError(FALSE, NoHost) \in SendError /\ ~(newSMTPError(FALSE, NoHost).code > 200)
    BY DEF newSMTPError, SendError, NoHost
  <2> QED  BY <1>1, <1>2, <2>1, NextHostLeaves DEF TLSFails, Goes, Conversation
<1>3. CASE ~send.insecure
  <2>1. send' = [send EXCEPT !.step = "dial", !.insecure = TRUE]
    BY <1>3 DEF TLSFails, Goes
  <2>2. /\ send' \in SendType /\ send'.step = "dial" /\ send'.host = send.host /\ send'.hosts = send.hosts
        /\ send'.dials = send.dials /\ send'.reply = send.reply /\ send'.insecure = TRUE
        /\ send'.resolved = send.resolved
    BY <1>1, <2>1, Zenon DEF SendType
  <2>3. send.dials <= (2 * send.host - 2) + 1
    BY <1>1, <1>3 DEF SendOK, Dialled, Conversation
  <2>4. send'.dials <= Dialled(send')
    BY <1>1, <2>2, <2>3 DEF Dialled, SendType
  <2> QED  BY <1>1, <2>2, <2>4 DEF Sound, SendOK, Earned, Conversation
<1> QED  BY <1>2, <1>3

LEMMA ConversationSound ==
  ASSUME Sound(send), StartTLS \/ Command \/ CloseAccepted
  PROVE  Sound(send')
<1>1. send.step \in Conversation
  BY Commands DEF StartTLS, Command, CloseAccepted, Conversation
<1>2. send \in SendType
  BY <1>1, AtHost
<1>3. CASE CloseAccepted
  BY <1>1, <1>3, StepSound DEF CloseAccepted, Goes, Conversation
<1>4. CASE StartTLS \/ Command
  <2>1. PICK next \in Conversation : send' = [send EXCEPT !.step = next]
    BY <1>4, Commands DEF StartTLS, Command, Goes, Conversation
  <2>2. send.accepted \in BOOLEAN /\ send' = [send EXCEPT !.step = next, !.accepted = send.accepted]
    BY <1>2, <2>1, Zenon DEF SendType
  <2> QED  BY <1>1, <2>2, StepSound
<1> QED  BY <1>3, <1>4

LEMMA CommandRefusedSound ==
  ASSUME Sound(send), CommandRefused
  PROVE  Sound(send')
<1>1. PICK reply \in {450, 550} : send' = [NextHost(newSMTPErrorFromSTMP(reply)) EXCEPT !.reply = reply]
  BY DEF CommandRefused, Goes
<1>2. send.step \in Conversation
  BY Commands DEF CommandRefused, Conversation
<1>3. SendOK(send) /\ send \in SendType /\ send.resolved = TRUE /\ send.dials <= 10
  BY <1>2, ConversationDials
<1> DEFINE err == newSMTPErrorFromSTMP(reply)
           r   == NextHost(err)
<1>4. err \in SendError /\ err.code > 200 /\ err.code = reply /\ err.permanent = Permanent(reply)
  <2>1. reply \in Int /\ reply > 200 /\ Permanent(reply) \in BOOLEAN
    BY DEF Permanent
  <2> QED  BY <2>1 DEF newSMTPErrorFromSTMP, newSMTPError, SendError
<1> HIDE DEF err
<1>5. /\ r \in SendType /\ r.step = "done" /\ r.err = err /\ r.host = send.host /\ r.hosts = send.hosts
      /\ r.reply = send.reply /\ r.resolved = TRUE /\ r.dials = send.dials
  <2>1. err \in SendError /\ err.code > 200
    BY <1>4
  <2>2. r = [send EXCEPT !.step = "done", !.err = err]
    BY <2>1 DEF NextHost
  <2> HIDE DEF r
  <2> QED  BY <1>3, <2>1, <2>2, Zenon DEF SendType
<1>6. reply \in Nat /\ reply # NoReply
  BY DEF NoReply
<1> HIDE DEF r
<1>7. /\ send' \in SendType /\ send'.step = "done" /\ send'.err = err /\ send'.reply = reply
      /\ send'.host = send.host /\ send'.hosts = send.hosts /\ send'.resolved = TRUE
      /\ send'.dials = send.dials
  <2>1. send' = [r EXCEPT !.reply = reply]
    BY <1>1 DEF r, err
  <2> QED  BY <1>5, <1>6, <2>1, Zenon DEF SendType
<1>8. SendOK(send')
  BY <1>3, <1>7 DEF SendOK, Conversation
<1>9. Earned(send')
  BY <1>4, <1>6, <1>7 DEF Earned
<1> QED  BY <1>8, <1>9 DEF Sound

LEMMA CommandBreaksOffSound ==
  ASSUME Sound(send), CommandBreaksOff
  PROVE  Sound(send')
<1>1. newSMTPErrorFromSTMP(NoReply) \in SendError /\ ~(newSMTPErrorFromSTMP(NoReply).code > 200)
  BY DEF newSMTPErrorFromSTMP, newSMTPError, SendError, NoReply, Permanent
<1> QED  BY <1>1, NextHostLeaves, Commands DEF CommandBreaksOff, Goes, Conversation

LEMMA QuitSound ==
  ASSUME Sound(send), Quit
  PROVE  Sound(send')
<1>1. SendOK(send) /\ send \in SendType /\ send.resolved = TRUE /\ send.dials <= 10 /\ send.reply = NoReply
  BY ConversationDials DEF Quit, Conversation
<1>2. NoError \in SendError /\ NoError.permanent = FALSE /\ ~Permanent(NoReply)
  BY DEF NoError, SendError, NoReply, Permanent
<1>3. /\ send' \in SendType /\ send'.step = "done" /\ send'.err = NoError /\ send'.reply = NoReply
      /\ send'.host = send.host /\ send'.hosts = send.hosts /\ send'.resolved = TRUE
      /\ send'.dials = send.dials
  BY <1>1, <1>2, Zenon DEF Quit, Goes, SendType
<1> QED  BY <1>1, <1>2, <1>3 DEF Sound, SendOK, Earned, Conversation

(* Every step of a Send.                                                   *)
LEMMA SendStepSound ==
  ASSUME Sound(send), SendStep
  PROVE  Sound(send')
<1> 510 \in Int /\ 512 \in Int /\ 550 \in Int
  OBVIOUS
<1>1. CASE BadAddress
  BY <1>1, VerdictSound, ZenonT(60) DEF BadAddress
<1>2. CASE LookupFails
  <2>1. PICK permanent \in BOOLEAN : Verdict(permanent, 512)
    BY <1>2 DEF LookupFails
  <2> QED  BY <1>2, <2>1, VerdictSound DEF LookupFails
<1>3. CASE NullMX
  BY <1>3, VerdictSound, ZenonT(60) DEF NullMX
<1>4. CASE Report
  BY <1>4 DEF Report, Sound
<1> QED  BY <1>1, <1>2, <1>3, <1>4, LookupMXsSound, DialFailsSound, DialSound, TLSFailsSound,
            ConversationSound, CommandRefusedSound, CommandBreaksOffSound, QuitSound DEF SendStep

-----------------------------------------------------------------------------
(* A step of a Send counts no attempt, its start counts one.               *)
LEMMA SendCounts ==
  ASSUME SendInv, SendStep \/ \E k \in Deliveries : Begin(k)
  PROVE  attempts' \in [Deliveries -> Nat]
<1>1. CASE \E k \in Deliveries : Begin(k)
  BY <1>1 DEF Begin, SendInv
<1>2. CASE SendStep
  <2>1. UNCHANGED attempts
    BY <1>2, ZenonT(60) DEF SendStep, BadAddress, LookupFails, NullMX, Verdict, LookupMXs, DialFails, Dial, TLSFails,
                StartTLS, Command, CloseAccepted, CommandRefused, CommandBreaksOff, Quit, Report, Goes
  <2> QED  BY <2>1 DEF SendInv
<1> QED  BY <1>1, <1>2

(* The inductive invariant holds in every state: a Send is where its       *)
(* conversation can have led it, with what it concluded and how often it   *)
(* dialled.                                                                *)
THEOREM OutboundInvariant == OutboundSpec => []SendInv
<1>1. OutboundInit => SendInv
  BY DEF OutboundInit, SendInv, Sound
<1>2. ASSUME SendInv, [OutboundNext]_outboundVars
      PROVE  SendInv'
  <2>1. CASE UNCHANGED outboundVars
    BY <1>2, <2>1 DEF SendInv, outboundVars
  <2>2. CASE SendStep \/ \E k \in Deliveries : Begin(k)
    BY <1>2, <2>2, SendStepSound, BeginSound, SendCounts DEF SendInv
  <2> QED  BY <1>2, <2>1, <2>2 DEF OutboundNext
<1> QED  BY <1>1, <1>2, PTL DEF OutboundSpec

(* For any number of hosts, replies and retries without certificates: what *)
(* a Send reports as permanent was refused with a 5xx or never left, a 4xx *)
(* or a silence is not permanent, and a Send without an answer ends only   *)
(* after the last host.                                                    *)
THEOREM VerdictsAreEarned == OutboundSpec => []VerdictIsEarned
<1>1. SendInv => VerdictIsEarned
  BY DEF SendInv, Sound, Idle, Earned, VerdictIsEarned
<1> QED  BY <1>1, OutboundInvariant, PTL

(* At most ten connections, each within its two timeouts, fit into the     *)
(* time for which the send guard remembers the claim.                      *)
THEOREM SendsAreGuarded == OutboundSpec => []SendWithinGuard
<1>1. ASSUME SendInv, send # Idle
      PROVE  send.dials * (DialTimeout + TotalTimeout) <= GuardTTL
  <2>1. SendOK(send)
    BY <1>1 DEF SendInv, Sound
  <2>2. send.dials \in Nat /\ send.dials <= 10
    BY <2>1 DEF SendOK, SendType, Dialled, Conversation
  <2>3. DialTimeout + TotalTimeout \in Nat
    BY OutboundAssumption DEF OutboundAssumption
  <2>4. \A d \in Nat, t \in Nat : d <= 10 => d * t <= 10 * t
    OBVIOUS
  <2> QED  BY <2>2, <2>3, <2>4, GuardAssumption, OutboundAssumption DEF OutboundAssumption
<1> QED  BY <1>1, OutboundInvariant, PTL DEF SendWithinGuard

-----------------------------------------------------------------------------
(* The sessions of the SMTPServer.                                         *)
Sessions == {NoSession} \cup {Session(to) : to \in Addresses}

(* While go-smtp holds recipients of a mail, the Session holds the last of *)
(* them, whatever it held before.                                          *)
SessionInv ==
  /\ session \in [Conns -> Sessions]
  /\ rcpts \in [Conns -> Seq(Addresses)]
  /\ \A c \in Conns :
       rcpts[c] # <<>> => session[c].open /\ session[c].to = rcpts[c][Len(rcpts[c])]
  /\ NoticeIsAttributed

(* An open Session has an address.                                         *)
LEMMA OpenSession ==
  ASSUME NEW s \in Sessions, s.open
  PROVE  s.to \in Addresses
BY DEF Sessions, Session, NoSession

(* An address that is parsed is the return path of the Delivery it names.  *)
LEMMA ParsedAddress ==
  ASSUME NEW to \in Addresses, ParseBounceReturnPath(to)
  PROVE  to = returnPath(to.key)
BY DEF Addresses, ParseBounceReturnPath, returnPath, Undecodable, Elsewhere

(* The code of a bounce is 550 or stated by the message.                   *)
LEMMA CodeIsStated ==
  ASSUME NEW msg
  PROVE  parseCode(msg) = 550 \/ \E i \in DOMAIN msg : msg[i].code = parseCode(msg)
<1>1. CASE Matched(msg) = {}
  BY <1>1 DEF parseCode
<1>2. CASE Matched(msg) # {}
  <2> DEFINE i == CHOOSE i \in Matched(msg) : TRUE
  <2>1. i \in Matched(msg)
    BY <1>2
  <2>2. i \in DOMAIN msg
    BY <2>1 DEF Matched
  <2>3. parseCode(msg) = msg[i].code
    BY <1>2 DEF parseCode
  <2> QED  BY <2>2, <2>3
<1> QED  BY <1>1, <1>2

(* A mail whose last recipient the Session holds gives an attributed       *)
(* bounce.                                                                 *)
LEMMA BouncedIsAttributed ==
  ASSUME NEW to \in Addresses, NEW msg, ParseBounceReturnPath(to), bounce' = Bounced(to, to, msg)
  PROVE  NoticeIsAttributed'
<1>1. /\ bounce'.key = to.key /\ bounce'.last = to /\ bounce'.msg = msg
      /\ bounce'.code = parseCode(msg) /\ bounce'.permanent = isPermanentCode(parseCode(msg))
  BY DEF Bounced
<1>2. to = returnPath(to.key)
  BY ParsedAddress
<1>3. bounce'.permanent = newSMTPErrorFromSTMP(bounce'.code).permanent
  BY <1>1 DEF newSMTPErrorFromSTMP, newSMTPError, Permanent, isPermanentCode
<1>4. PICK b : b = bounce'
  OBVIOUS
<1>5. b.code = 550 \/ \E i \in DOMAIN b.msg : b.msg[i].code = b.code
  BY <1>1, <1>4, CodeIsStated
<1> QED  BY <1>1, <1>2, <1>3, <1>4, <1>5 DEF NoticeIsAttributed

-----------------------------------------------------------------------------
(* The commands.                                                           *)
LEMMA RcptKeeps ==
  ASSUME SessionInv, NEW c \in Conns, NEW to \in Addresses, Rcpt(c, to)
  PROVE  SessionInv'
<1>1. session' = [session EXCEPT ![c] = Session(to)]
  BY DEF Rcpt
<1>2. session' \in [Conns -> Sessions] /\ Session(to).open /\ Session(to).to = to
  BY <1>1 DEF SessionInv, Sessions, Session
<1>3. rcpts' = [rcpts EXCEPT ![c] = Append(@, to)] /\ bounce' = bounce
  BY DEF Rcpt
<1>4. rcpts[c] \in Seq(Addresses) /\ Append(rcpts[c], to)[Len(Append(rcpts[c], to))] = to
  BY DEF SessionInv
<1> QED  BY <1>1, <1>2, <1>3, <1>4 DEF SessionInv, NoticeIsAttributed

LEMMA DataKeeps ==
  ASSUME SessionInv, NEW c \in Conns, NEW msg \in Notices, Data(c, msg)
  PROVE  SessionInv'
<1>1. /\ session' = session /\ rcpts' = [rcpts EXCEPT ![c] = <<>>]
      /\ session[c].to = rcpts[c][Len(rcpts[c])]
  BY DEF Data, SessionInv
<1>2. /\ rcpts' \in [Conns -> Seq(Addresses)]
      /\ \A d \in Conns : rcpts'[d] # <<>> => rcpts'[d] = rcpts[d]
  BY <1>1 DEF SessionInv
<1>3. NoticeIsAttributed'
  <2>1. CASE UNCHANGED bounce
    BY <2>1 DEF SessionInv, NoticeIsAttributed
  <2>2. CASE /\ ParseBounceReturnPath(session[c].to)
             /\ bounce' = Bounced(session[c].to, rcpts[c][Len(rcpts[c])], msg)
    <3>1. session[c].to \in Addresses
      BY OpenSession DEF SessionInv, Data
    <3> QED  BY <1>1, <2>2, <3>1, BouncedIsAttributed
  <2> QED  BY <2>1, <2>2 DEF Data
<1> QED  BY <1>1, <1>2, <1>3 DEF SessionInv

LEMMA SessionKeeps ==
  ASSUME SessionInv, NEW c \in Conns, NewSession(c) \/ Reset(c) \/ Logout(c)
  PROVE  SessionInv'
<1>1. NoSession \in Sessions /\ Session(Elsewhere) \in Sessions /\ ~NoSession.open
  BY DEF Sessions, Addresses, NoSession
<1>2. bounce' = bounce
  BY DEF NewSession, Reset, Logout
<1>3. CASE NewSession(c)
  <2>1. rcpts[c] = <<>>
    BY <1>1, <1>3 DEF NewSession, SessionInv
  <2> QED  BY <1>1, <1>2, <1>3, <2>1 DEF NewSession, SessionInv, NoticeIsAttributed
<1>4. CASE Reset(c)
  BY <1>2, <1>4 DEF Reset, SessionInv, NoticeIsAttributed
<1>5. CASE Logout(c)
  BY <1>1, <1>2, <1>5 DEF Logout, SessionInv, NoticeIsAttributed
<1> QED  BY <1>3, <1>4, <1>5

(* Whatever commands arrive on whichever connections, in any order and     *)
(* again, a bounce is about the last recipient of the mail it was made of, *)
(* with a code that this mail states or, where none was found, with 550,   *)
(* in the class that the synchronous path gives this code.                 *)
THEOREM NoticesAreAttributed == InboundSpec => []NoticeIsAttributed
<1>1. InboundInit => SessionInv
  BY DEF InboundInit, SessionInv, Sessions, NoticeIsAttributed
<1>2. ASSUME SessionInv, [InboundNext]_inboundVars
      PROVE  SessionInv'
  <2>1. CASE UNCHANGED inboundVars
    BY <1>2, <2>1 DEF SessionInv, NoticeIsAttributed, inboundVars
  <2>2. CASE InboundNext
    BY <1>2, <2>2, RcptKeeps, DataKeeps, SessionKeeps, ZenonT(60) DEF InboundNext
  <2> QED  BY <1>2, <2>1, <2>2
<1>3. SessionInv => NoticeIsAttributed
  BY DEF SessionInv
<1> QED  BY <1>1, <1>2, <1>3, PTL DEF InboundSpec

=============================================================================
