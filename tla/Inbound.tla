------------------------------- MODULE Inbound --------------------------------
(***************************************************************************)
(* Mail that comes back: the SMTPServer (pkg/smtp), which makes a bounce of *)
(* whatever message reaches the return path of a Delivery.                  *)
(*                                                                          *)
(* The sessions run side by side, and a remote system may send any mail to  *)
(* any address: a notification, the answer of somebody on holiday, several  *)
(* mails on one connection.  go-smtp keeps the order of the commands; what  *)
(* a Session remembers of them is the SMTPServer's own.                     *)
(***************************************************************************)
EXTENDS Outbound, Sequences

CONSTANTS
  Conns,          \* connections of remote mail systems
  Notices,        \* messages, each the sequence of its diagnostics as far as it came
  MaxRecipients   \* smtp.max_recipients, of one mail

(* A diagnostic has a code, and is written the way parseMessageReg wants it *)
(* ("SMTP; 450 text", on one line) or in another ("smtp; 450 text").        *)
Diagnostics == [plain : BOOLEAN, code : Nat]

ASSUME InboundAssumption == Notices \subseteq Seq(Diagnostics) /\ MaxRecipients \in Nat

VARIABLES
  session,  \* [connection -> its Session, or NoSession]
  rcpts,    \* go-smtp: the recipients of the mail that a connection is at
  bounce    \* the last bounce that was published; history: its mail

inboundVars == <<session, rcpts, bounce>>

-----------------------------------------------------------------------------
(* Recipients: the return path of a Delivery, an address in its form that   *)
(* cannot be decoded, and any other.                                        *)
returnPath(k) == [found |-> TRUE, decoded |-> TRUE, key |-> k]
Undecodable   == [found |-> TRUE, decoded |-> FALSE]
Elsewhere     == [found |-> FALSE]
Addresses     == {returnPath(k) : k \in Deliveries} \cup {Undecodable, Elsewhere}

ParseBounceReturnPath(to) == to.found /\ to.decoded

NoSession == [open |-> FALSE]
Session(to) == [open |-> TRUE, to |-> to]
NoBounce  == [published |-> FALSE]

-----------------------------------------------------------------------------
(* parseCode: the first diagnostic that the expression matches; a message   *)
(* without one, which need not be a notification at all, is given a 550.    *)
Matched(msg) ==
  {i \in DOMAIN msg : msg[i].plain /\ \A j \in 1 .. i - 1 : ~msg[j].plain}
parseCode(msg) ==
  IF Matched(msg) = {} THEN 550 ELSE msg[CHOOSE i \in Matched(msg) : TRUE].code

isPermanentCode(code) == code >= 500 /\ code < 600

Bounced(to, last, msg) ==
  [published |-> TRUE, key |-> to.key, code |-> parseCode(msg),
   permanent |-> isPermanentCode(parseCode(msg)), last |-> last, msg |-> msg]

-----------------------------------------------------------------------------
NewSession(c) ==
  /\ session[c] = NoSession
  /\ session' = [session EXCEPT ![c] = Session(Elsewhere)]
  /\ UNCHANGED <<rcpts, bounce>>

KeepsFirst(c, to) ==   \* mutant: a recipient is kept for as long as the Session
  /\ session[c].open /\ Len(rcpts[c]) < MaxRecipients
  /\ session' = IF session[c].to = Elsewhere THEN [session EXCEPT ![c] = Session(to)] ELSE session
  /\ rcpts' = [rcpts EXCEPT ![c] = Append(@, to)]
  /\ UNCHANGED bounce

(* RCPT: a Session keeps one recipient, the last.  The MAIL before it sets  *)
(* what nobody reads.                                                       *)
Rcpt(c, to) ==
  /\ session[c].open /\ Len(rcpts[c]) < MaxRecipients
  /\ session' = [session EXCEPT ![c] = Session(to)]
  /\ rcpts' = [rcpts EXCEPT ![c] = Append(@, to)]
  /\ UNCHANGED bounce

(* RSET, and EHLO again: go-smtp forgets the mail, Session.Reset nothing.   *)
Reset(c) ==
  /\ session[c].open
  /\ rcpts' = [rcpts EXCEPT ![c] = <<>>]
  /\ UNCHANGED <<session, bounce>>

(* DATA, which go-smtp ends with a reset.  Nothing is published of a        *)
(* message whose header cannot be read, or when PublishStat fails.          *)
Data(c, msg) ==
  /\ session[c].open /\ rcpts[c] # <<>>
  /\ \/ UNCHANGED bounce
     \/ /\ ParseBounceReturnPath(session[c].to)
        /\ bounce' = Bounced(session[c].to, rcpts[c][Len(rcpts[c])], msg)
  /\ rcpts' = [rcpts EXCEPT ![c] = <<>>]
  /\ UNCHANGED session

(* QUIT, or the connection breaks off.                                      *)
Logout(c) ==
  /\ session[c].open
  /\ session' = [session EXCEPT ![c] = NoSession]
  /\ rcpts' = [rcpts EXCEPT ![c] = <<>>]
  /\ UNCHANGED bounce

-----------------------------------------------------------------------------
InboundInit ==
  /\ session = [c \in Conns |-> NoSession]
  /\ rcpts = [c \in Conns |-> <<>>]
  /\ bounce = NoBounce

InboundNext ==
  \E c \in Conns :
    \/ NewSession(c) \/ Reset(c) \/ Logout(c)
    \/ \E to \in Addresses : Rcpt(c, to)
    \/ \E msg \in Notices : Data(c, msg)

InboundSpec == InboundInit /\ [][InboundNext]_inboundVars

-----------------------------------------------------------------------------
(* A bounce is about the Delivery whose return path was the last recipient  *)
(* of the very mail that it was made of, whatever was said before on this   *)
(* connection or meanwhile on others.  Its code is one that the mail states *)
(* or the 550 of a mail in which none was found, and its class is the one   *)
(* that the synchronous path gives that code: no soft code is made up.      *)
NoticeIsAttributed ==
  bounce # NoBounce =>
    /\ bounce.last = returnPath(bounce.key)
    /\ bounce.code = 550 \/ \E i \in DOMAIN bounce.msg : bounce.msg[i].code = bounce.code
    /\ bounce.permanent = newSMTPErrorFromSTMP(bounce.code).permanent
=============================================================================
