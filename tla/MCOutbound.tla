----------------------------- MODULE MCOutbound -----------------------------
(* The SMTP client and the SMTPServer on small instances.                   *)
EXTENDS Inbound, TLC

CONSTANTS d1, d2, c1, c2

TwoDeliveries == {d1, d2}
SomeHosts     == {0, 14}
TwoConns      == {c1, c2}

(* No diagnostic, one in either spelling, and two of which the first is    *)
(* soft or is not matched.                                                 *)
Says(p, n)  == [plain |-> p, code |-> n]
SomeNotices == {<<>>} \cup {<<Says(p, n)>> : p \in BOOLEAN, n \in {450, 552}}
                      \cup {<<Says(p, 450), Says(TRUE, 552)>> : p \in BOOLEAN}

(* They share no state: a behaviour is about one of the two.               *)
MCInit == OutboundInit /\ InboundInit

Sends    == OutboundNext /\ (\A c \in Conns : session[c] = NoSession) /\ bounce = NoBounce /\ UNCHANGED inboundVars
Receives == InboundNext /\ (\A k \in Deliveries : attempts[k] = 0) /\ UNCHANGED outboundVars

MCSpec ==
  /\ MCInit /\ [][Sends \/ Receives]_<<outboundVars, inboundVars>>
  /\ WF_<<outboundVars, inboundVars>>(SendStep /\ UNCHANGED inboundVars)
=============================================================================
