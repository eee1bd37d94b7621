---------------------------- MODULE MailgunRoutes ----------------------------
(***************************************************************************)
(* The routes half of the Mailgun API as the operator uses it, and the     *)
(* state of the domains routes ask for.  Routes have no unique key: every  *)
(* POST makes another one, with an id of its own.  A route remembers the   *)
(* Route object it was made for.                                           *)
(***************************************************************************)
EXTENDS RouteStore

CONSTANT MaxByHand \* bound: how many routes people delete at Mailgun

VARIABLES
  posted,      \* posted[i]: the route with id i, or Nil when it is deleted
  domainState, \* domainState[n]: what Mailgun says of a domain
  byHand       \* routes people deleted so far

mailgunVars == <<posted, domainState, byHand>>

PostedRoutes == [owner : Nat, request : Requests, domain : Domains \cup {NoDomain}]

ASSUME MailgunRoutesAssumption ==
  /\ Nil \notin PostedRoutes
  /\ MaxByHand \in Nat

Exists(i) == i \in DOMAIN posted /\ posted[i] # Nil

\* POST /routes
Post(r) ==
  posted' = Append(posted, [owner |-> r.uid, request |-> r.spec.request,
                            domain |-> r.spec.domain])

\* What a PUT makes of a route: a field without a value is not sent and stays.
Merged(old, new) ==
  [new EXCEPT !.priority = IF @ = 0 THEN old.priority ELSE @,
              !.actions = IF @ = <<>> THEN old.actions ELSE @]

\* PUT /routes/{id}
Put(r) ==
  /\ Exists(r.id)
  /\ posted' = [posted EXCEPT ![r.id].request = Merged(@, r.spec.request),
                              ![r.id].domain = r.spec.domain]

\* DELETE /routes/{id}
Remove(i) ==
  /\ Exists(i)
  /\ posted' = [posted EXCEPT ![i] = Nil]

-----------------------------------------------------------------------------
(* Without the operator, or by its other controller. *)

\* A domain is registered, verified, and taken away, any number of times.
DomainMoves(n) ==
  /\ \/ domainState[n] = "absent" /\ domainState' = [domainState EXCEPT ![n] = "unverified"]
     \/ domainState[n] = "unverified" /\ domainState' = [domainState EXCEPT ![n] = "active"]
     \/ domainState[n] # "absent" /\ domainState' = [domainState EXCEPT ![n] = "absent"]
  /\ UNCHANGED <<posted, byHand>>

RemovedByHand(i) ==
  /\ byHand < MaxByHand
  /\ byHand' = byHand + 1
  /\ Remove(i)
  /\ UNCHANGED domainState

MailgunInit ==
  /\ posted = <<>>
  /\ domainState = [n \in Domains |-> "absent"]
  /\ byHand = 0

MailgunTypeOK ==
  /\ posted \in Seq(PostedRoutes \cup {Nil})
  /\ domainState \in [Domains -> {"absent", "unverified", "active"}]
  /\ byHand \in Nat
=============================================================================
