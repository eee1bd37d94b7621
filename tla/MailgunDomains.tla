--------------------------- MODULE MailgunDomains ---------------------------
(***************************************************************************)
(* The domains half of the Mailgun API as the operator uses it, and what   *)
(* happens at Mailgun without the operator: the DNS records of a domain    *)
(* become valid, and somebody creates or deletes domains by hand.  A       *)
(* domain remembers the Domain object it was created for (0: none), and    *)
(* the SMTP password it was created with.                                  *)
(***************************************************************************)
EXTENDS DomainObjects

CONSTANTS
  ReceivingNames, \* the names whose receiving (MX) records may be published
  OutsideNames,   \* the names people also handle by hand
  MaxOutside      \* bound: how many times they do

ASSUME MailgunAssumption ==
  /\ OutsideNames \subseteq Names
  /\ MaxOutside \in Nat

VARIABLES
  mailgun,   \* mailgun[n]: how n is registered, or Nil
  dnsReady,  \* names whose sending records are published
  mxReady,   \* names whose receiving (MX) records are published
  passwords, \* SMTP passwords handed out so far: the last one
  outside    \* what was done by hand so far

mailgunVars == <<mailgun, dnsReady, mxReady, passwords, outside>>

Registered(n) == mailgun[n] # Nil

\* POST /domains: a name can be registered once.
Register(n, uid, p) ==
  /\ ~Registered(n)
  /\ mailgun' = [mailgun EXCEPT ![n] = [owner |-> uid, password |-> p]]

\* DELETE /domains/{domain}
Unregister(n) ==
  /\ Registered(n)
  /\ mailgun' = [mailgun EXCEPT ![n] = Nil]

\* PUT /domains/{domain}/verify and GET /domains/{domain}
VerifiedActive(n) == n \in dnsReady
ReceivingValid(n) == n \in mxReady

-----------------------------------------------------------------------------
(* Without the operator. *)

PublishDNS(n) ==
  /\ n \notin dnsReady
  /\ dnsReady' = dnsReady \cup {n}
  /\ UNCHANGED <<mailgun, mxReady, passwords, outside>>

PublishMX(n) ==
  /\ n \in ReceivingNames \ mxReady
  /\ mxReady' = mxReady \cup {n}
  /\ UNCHANGED <<mailgun, dnsReady, passwords, outside>>

OutsideCreate(n) ==
  /\ outside < MaxOutside
  /\ outside' = outside + 1
  /\ n \in OutsideNames
  /\ Register(n, 0, 0)
  /\ UNCHANGED <<dnsReady, mxReady, passwords>>

OutsideDelete(n) ==
  /\ outside < MaxOutside
  /\ outside' = outside + 1
  /\ n \in OutsideNames
  /\ Unregister(n)
  /\ UNCHANGED <<dnsReady, mxReady, passwords>>

MailgunInit ==
  /\ mailgun = [n \in Names |-> Nil]
  /\ dnsReady = {}
  /\ mxReady = {}
  /\ passwords = 0
  /\ outside = 0

MailgunTypeOK ==
  /\ mailgun \in [Names -> Registrations \cup {Nil}]
  /\ dnsReady \subseteq Names
  /\ mxReady \subseteq Names
  /\ passwords \in Nat
  /\ outside \in Nat
=============================================================================
