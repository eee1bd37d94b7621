------------------------------ MODULE Operator ------------------------------
(***************************************************************************)
(* The two controllers in one manager, on one Mailgun account: the Domain  *)
(* controller registers, verifies and deletes domains while the Route      *)
(* controller asks for their state and makes routes.  They share no object *)
(* and never call each other; they meet at Mailgun, and in the process     *)
(* they die with.                                                          *)
(***************************************************************************)
EXTENDS DomainProperties

CONSTANTS
  RouteKeys, RouteSpecsOf, Bodies, Priorities, ActionLists, NoDomain,
  RouteFaulty,    \* the calls of the Route controller that may fail
  MaxRoutes,      \* bound: Route objects ever created
  MaxRouteEdits,  \* bound: how many edits of a Route users make
  MaxRouteFaults, \* bound: how many calls of the Route controller fail
  MaxByHand,      \* bound: how many routes people delete at Mailgun
  MaxPosts        \* bound: routes Mailgun accepts

VARIABLES
  active, \* names Mailgun says are active
  seen,   \* those that were at some moment since the Route worker took up its key
  routes, rcache, rpending, ruids, redits, posted, byHand, \* as in RouteController
  rqueue, rdelayed, rpc, rkey, robj, rfresh, rfaults

R == INSTANCE RouteProperties WITH
  Keys <- RouteKeys, Domains <- Names, SpecsOf <- RouteSpecsOf,
  MaxUid <- MaxRoutes, MaxEdits <- MaxRouteEdits, Faulty <- RouteFaulty,
  MaxFaults <- MaxRouteFaults,
  domainState <- [n \in Names |-> IF ~Registered(n) THEN "absent"
                                  ELSE IF n \in active THEN "active" ELSE "unverified"],
  cache <- rcache, pending <- rpending, uids <- ruids, edits <- redits,
  queue <- rqueue, delayed <- rdelayed, pc <- rpc, key <- rkey, obj <- robj,
  fresh <- rfresh, faults <- rfaults

\* What the Route side assumes of its constants.
ASSUME OperatorAssumption ==
  /\ Nil \notin RouteKeys
  /\ Nil \notin R!Routes
  /\ Nil \notin R!PostedRoutes
  /\ NoDomain \notin Names
  /\ Priorities \subseteq Nat
  /\ ActionLists \subseteq Seq(Nat)
  /\ RouteSpecsOf \in [RouteKeys -> SUBSET R!Specs]
  /\ MaxRoutes \in Nat
  /\ MaxRouteEdits \in Nat
  /\ MaxRouteFaults \in Nat
  /\ MaxByHand \in Nat
  /\ MaxPosts \in Nat

routeVars == <<routes, rcache, rpending, ruids, redits, posted, byHand, rqueue,
               rdelayed, rpc, rkey, robj, rfresh, rfaults>>

operatorVars == <<vars, active, seen, routeVars>>

-----------------------------------------------------------------------------
\* What an answer of Mailgun to this reconcile of a Route may rest on.
Watch == seen' = active' \cup IF rpc' = "idle" THEN {} ELSE seen

\* A verification that Mailgun answers, and may have done if it does not, makes
\* a domain active whose records it finds; one that is deleted is not.
Verification ==
  LET kept == {n \in active : Registered(n)'}
      asked == {n \in {name} : Registered(n) /\ VerifiedActive(n)}
  IN  IF pc # "verify" THEN active' = kept
      ELSE \/ active' = active \cup asked
           \/ faults' # faults /\ active' = active

DomainReconcile ==
  /\ Reconcile
  /\ Verification
  /\ UNCHANGED routeVars
  /\ Watch

\* Users, the informer, timers and Mailgun, on the side of the Domains, and on
\* the side of the Routes.
OnDomains(A) ==
  /\ A
  /\ active' = {n \in active : Registered(n)'}
  /\ UNCHANGED routeVars
  /\ Watch

OnRoutes(A) ==
  /\ UNCHANGED <<vars, active>>
  /\ A
  /\ Watch

\* Mailgun looks at the records of a domain by itself.
MailgunVerifies(n) ==
  /\ Registered(n)
  /\ n \in dnsReady \ active
  /\ active' = active \cup {n}
  /\ UNCHANGED <<vars, routeVars>>
  /\ Watch

\* People delete a route at Mailgun.
RouteByHand(i) ==
  /\ R!RemovedByHand(i)
  /\ UNCHANGED <<routes, rcache, rpending, ruids, redits, rqueue, rdelayed, rpc, rkey, robj,
                 rfresh, rfaults>>

\* The manager takes both controllers with it.
ManagerRestart ==
  /\ Restart
  /\ UNCHANGED active
  /\ R!Restart
  /\ Watch

OperatorInit ==
  /\ Init
  /\ active = {}
  /\ seen = {}
  /\ R!Init

OperatorNext ==
  \/ DomainReconcile
  \/ \E k \in Keys : OnDomains(\/ Dequeue(k) \/ Deliver(k) \/ DeliverEndpoint(k)
                               \/ TimerFires(k) \/ OthersWrite(k))
  \/ \E n \in Names : OnDomains(MailgunMoves(n)) \/ MailgunVerifies(n)
  \/ OnRoutes(R!Reconcile)
  \/ \E k \in RouteKeys : OnRoutes(\/ R!Dequeue(k) \/ R!Deliver(k)
                                   \/ R!TimerFires(k) \/ R!UsersWrite(k))
  \/ \E i \in DOMAIN posted : OnRoutes(RouteByHand(i))
  \/ ManagerRestart

OperatorSpec == OperatorInit /\ [][OperatorNext]_operatorVars

\* The fairness of both controllers.  Mailgun need not look by itself.
OperatorFairness ==
  /\ WF_operatorVars(DomainReconcile)
  /\ WF_operatorVars(OnRoutes(R!Reconcile))
  /\ \A k \in Keys : /\ WF_operatorVars(OnDomains(Deliver(k)))
                     /\ WF_operatorVars(OnDomains(DeliverEndpoint(k)))
                     /\ WF_operatorVars(OnDomains(TimerFires(k)))
                     /\ SF_operatorVars(OnDomains(Dequeue(k)))
  /\ \A k \in RouteKeys : /\ WF_operatorVars(OnRoutes(R!Deliver(k)))
                          /\ WF_operatorVars(OnRoutes(R!TimerFires(k)))
                          /\ SF_operatorVars(OnRoutes(R!Dequeue(k)))

FairOperator == OperatorSpec /\ OperatorFairness

-----------------------------------------------------------------------------
\* The Route controller asks for the state of a domain, and makes the route later;
\* the Domain controller may delete the domain in between, and register it again.
\* So a route can be made for a domain that is gone: but never on an answer of an
\* earlier reconcile.  When a route is made or changed for a domain, Mailgun had
\* this domain active at some moment since the worker took up the Route.
RoutesOfVerifiedDomains ==
  [][\A i \in DOMAIN posted' :
       /\ i \notin DOMAIN posted \/ posted'[i] # posted[i]
       /\ posted'[i] # Nil
       /\ posted'[i].domain # NoDomain
       => posted'[i].domain \in seen]_operatorVars

\* A Route and the Domain it asks for can be created in any order, and nobody
\* tells the Route that its domain has become active: once the records of the
\* domain are published, the verifications of the one controller and the polls
\* of the other give the Route its route.
RouteFollowsDomain ==
  \A k \in Keys, r \in RouteKeys :
    Published(k) /\ R!Live(r) /\ routes[r].spec.domain = domains[k].spec.name ~>
      \/ ~Published(k) \/ domains[k].status.state = "failed"
      \/ ~R!Live(r) \/ routes[r].id # 0
=============================================================================
