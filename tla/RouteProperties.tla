-------------------------- MODULE RouteProperties --------------------------
(***************************************************************************)
(* What the Route controller promises, stated over RouteController.        *)
(***************************************************************************)
EXTENDS RouteController

Live(k) == routes[k] # Nil /\ ~routes[k].deleting

SameRoute(k) == /\ routes[k] # Nil
                /\ routes'[k] # Nil
                /\ routes'[k].uid = routes[k].uid

\* The route at Mailgun lacks something the controller sees and can send.
OutOfDate(k) ==
  LET there == posted[routes[k].id].request
  IN  Exists(routes[k].id) /\ Differs(there, Merged(there, routes[k].spec.request))

-----------------------------------------------------------------------------
(* Safety. *)

\* A Route whose deletion, creation, finalizer or update is still to come.
NeedsWork(k) ==
  \/ routes[k] # Nil /\ routes[k].deleting
  \/ /\ Live(k)
     /\ \/ routes[k].id = 0
        \/ ~routes[k].finalizer
        \/ OutOfDate(k)

\* A version on its way to the informer will queue the key.
EventComing(k) ==
  \E i \in 1..Len(pending[k]) :
    PassesPredicate(IF i = 1 THEN cache[k] ELSE pending[k][i - 1], pending[k][i])

\* The predicate hides the status the controller writes: whatever conflicts,
\* errors, restarts and stale reads happen, a Route with work left is queued,
\* waits for a timer, is being reconciled, or has an event coming.
NoLostWakeup ==
  \A k \in Keys : NeedsWork(k) =>
    k \in queue \cup delayed \/ key = k \/ EventComing(k)

\* Status.RouteID is the only link to the route at Mailgun: a reconcile of an
\* old copy that creates the route once more never replaces it.
RouteIDKept ==
  [][\A k \in Keys : SameRoute(k) /\ routes[k].id # 0 =>
       routes'[k].id = routes[k].id]_vars

\* A Route that nobody deletes, here or at Mailgun, keeps its route: what the id
\* names is at Mailgun, was made for this object, and is of no other Route.
RouteIDNamesOwnRoute ==
  byHand = 0 => \A k \in Keys : Live(k) /\ routes[k].id # 0 =>
    /\ Exists(routes[k].id)
    /\ posted[routes[k].id].owner = routes[k].uid

\* The finalizer goes only when the route is gone.
ReleasedRouteGone ==
  [][\A k \in Keys :
       /\ routes[k] # Nil /\ routes[k].finalizer
       /\ routes'[k] = Nil \/ ~routes'[k].finalizer
       => ~Exists(routes[k].id)]_vars

-----------------------------------------------------------------------------
(* Liveness, under Fairness. *)

\* A deleted Route goes away.
RouteDeletionCompletes ==
  \A k \in Keys : routes[k] # Nil /\ routes[k].deleting ~> ~(routes[k] # Nil /\ routes[k].deleting)

Ready(s) == s.domain = NoDomain \/ domainState[s.domain] = "active"

\* A Route whose domain is active gets an id and the finalizer that keeps it.
RouteGetsCreated ==
  \A k \in Keys : Live(k) /\ Ready(routes[k].spec) ~>
    ~Live(k) \/ ~Ready(routes[k].spec) \/ (routes[k].id # 0 /\ routes[k].finalizer)

InStep(k) == Exists(routes[k].id) /\ ~OutOfDate(k)

\* An edit that the controller sees and can send reaches Mailgun, unless people
\* delete the route there.
EditReachesMailgun ==
  \A k \in Keys : Live(k) /\ Ready(routes[k].spec) ~>
    ~Live(k) \/ ~Ready(routes[k].spec) \/ InStep(k) \/ byHand > 0

-----------------------------------------------------------------------------
(* What the repository says of the controller, and its code does not do. *)

\* route_controller_test.go: "should create mailgun route correctly and store ID
\* of record".  Between two reconciles every route at Mailgun is the one whose id
\* a Route object has stored: none is made twice, none is left behind.
RoutesRecorded ==
  pc = "idle" =>
    \A i \in DOMAIN posted : Exists(i) =>
      \E k \in Keys : routes[k] # Nil /\ routes[k].uid = posted[i].owner /\ routes[k].id = i

\* route_controller_test.go: "should update route on mailgun".  What a Route
\* asks for is what Mailgun does, in the end.
WholeEditReachesMailgun ==
  \A k \in Keys : Live(k) ~>
    ~Live(k) \/ (Exists(routes[k].id) /\ posted[routes[k].id].request = routes[k].spec.request)
=============================================================================
