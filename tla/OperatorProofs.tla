--------------------------- MODULE OperatorProofs ---------------------------
(***************************************************************************)
(* The two controllers in one manager, for every value of the constants:   *)
(* the operator implements each of the controllers, so that what is proved *)
(* of one alone holds beside the other; and the one makes routes only for  *)
(* domains that were active while it looked, whatever the other does.      *)
(***************************************************************************)
EXTENDS Operator, DomainSafetyProofs

\* The proofs about the Route controller, as it runs here.
RP == INSTANCE RouteProofs WITH
  Keys <- RouteKeys, Domains <- Names, SpecsOf <- RouteSpecsOf,
  MaxUid <- MaxRoutes, MaxEdits <- MaxRouteEdits, Faulty <- RouteFaulty,
  MaxFaults <- MaxRouteFaults,
  domainState <- [n \in Names |-> IF ~Registered(n) THEN "absent"
                                  ELSE IF n \in active THEN "active" ELSE "unverified"],
  cache <- rcache, pending <- rpending, uids <- ruids, edits <- redits,
  queue <- rqueue, delayed <- rdelayed, pc <- rpc, key <- rkey, obj <- robj,
  fresh <- rfresh, faults <- rfaults

\* The constants are as the Route controller needs them.
LEMMA RouteAssumptions ==
  RP!RouteStoreAssumption /\ RP!MailgunRoutesAssumption /\ RP!RouteControllerAssumption
<1>1. R!Specs = RP!Specs /\ R!Routes = RP!Routes /\ R!PostedRoutes = RP!PostedRoutes
  BY DEF R!Specs, R!Requests, R!Errors, R!Routes, R!PostedRoutes,
         RP!Specs, RP!Requests, RP!Errors, RP!Routes, RP!PostedRoutes
<1>2. RP!RouteStoreAssumption
  BY <1>1, OperatorAssumption DEF RP!RouteStoreAssumption
<1>3. RP!MailgunRoutesAssumption
  BY <1>1, OperatorAssumption DEF RP!MailgunRoutesAssumption
<1>4. RP!RouteControllerAssumption
  BY OperatorAssumption, ControllerAssumption DEF RP!RouteControllerAssumption
<1> QED
  BY <1>2, <1>3, <1>4

\* The Route controller of the proofs is the operator's.
LEMMA SameController ==
  /\ R!Init <=> RP!Init
  /\ R!Reconcile <=> RP!Reconcile
  /\ R!Restart <=> RP!Restart
  /\ \A k : /\ R!Dequeue(k) <=> RP!Dequeue(k)
            /\ R!Deliver(k) <=> RP!Deliver(k)
            /\ R!TimerFires(k) <=> RP!TimerFires(k)
            /\ R!UsersWrite(k) <=> RP!UsersWrite(k)
  /\ R!MailgunMoves <=> RP!MailgunMoves
  /\ \A i : R!RemovedByHand(i) <=> RP!RemovedByHand(i)
  /\ R!vars = RP!vars
  /\ \A i : R!Exists(i) <=> RP!Exists(i)
BY DEF R!storeVars, R!Store, R!NextVersion, R!UserCreate, R!UserEdit, R!UserDelete, R!Released,
       R!StoreInit, R!mailgunVars, R!Exists, R!Post, R!Merged, R!Put, R!Remove, R!DomainMoves,
       R!RemovedByHand, R!MailgunInit, R!workerVars, R!vars, R!Call, R!Idle, R!Return,
       R!Requeue, R!Fault, R!NoFault, R!FailsUnless, R!Saved, R!SaveFails, R!StoreStep,
       R!MailgunStep, R!ReadStep, R!WithError, R!Dequeue, R!SendRequest, R!Provide, R!Get,
       R!AddFinalizer, R!GetDomain, R!SaveWait, R!Differs, R!GetRoute, R!UpdateRoute,
       R!SaveUpdateFailed, R!CreateRoute, R!SaveCreateFailed, R!SaveId, R!Claim, R!DelGetRoute,
       R!DeleteRoute, R!SaveDeleteFailed, R!Release, R!Reconcile, R!PassesPredicate, R!Deliver,
       R!TimerFires, R!Restart, R!UsersWrite, R!MailgunMoves, R!Init, RP!storeVars, RP!Store,
       RP!NextVersion, RP!UserCreate, RP!UserEdit, RP!UserDelete, RP!Released, RP!StoreInit,
       RP!mailgunVars, RP!Exists, RP!Post, RP!Merged, RP!Put, RP!Remove, RP!DomainMoves,
       RP!RemovedByHand, RP!MailgunInit, RP!workerVars, RP!vars, RP!Call, RP!Idle, RP!Return,
       RP!Requeue, RP!Fault, RP!NoFault, RP!FailsUnless, RP!Saved, RP!SaveFails, RP!StoreStep,
       RP!MailgunStep, RP!ReadStep, RP!WithError, RP!Dequeue, RP!SendRequest, RP!Provide,
       RP!Get, RP!AddFinalizer, RP!GetDomain, RP!SaveWait, RP!Differs, RP!GetRoute,
       RP!UpdateRoute, RP!SaveUpdateFailed, RP!CreateRoute, RP!SaveCreateFailed, RP!SaveId,
       RP!Claim, RP!DelGetRoute, RP!DeleteRoute, RP!SaveDeleteFailed, RP!Release, RP!Reconcile,
       RP!PassesPredicate, RP!Deliver, RP!TimerFires, RP!Restart, RP!UsersWrite,
       RP!MailgunMoves, RP!Init

-----------------------------------------------------------------------------
(* The domains at Mailgun. *)

\* Mailgun verifies what is registered.
ActiveOK == \A n \in active : n \in Names /\ Registered(n)

\* What a step may do to one domain, and to no other.
Appears(n) == ~Registered(n) /\ Registered(n)' /\ n \notin active'
Verified(n) == Registered(n) /\ Registered(n)' /\ n \notin active /\ n \in active'
Leaves(n) == Registered(n) /\ ~Registered(n)' /\ n \notin active'

Same(n) == (Registered(n)' <=> Registered(n)) /\ (n \in active' <=> n \in active)

OneMoves ==
  /\ active' \subseteq Names
  /\ \/ \A n \in Names : Same(n)
     \/ \E n \in Names : /\ \A m \in Names \ {n} : Same(m)
                         /\ Appears(n) \/ Verified(n) \/ Leaves(n)

\* One registration comes or goes at a time.
LEMMA RegistrationsMove ==
  ASSUME TypeInv, ActiveOK,
         \/ mailgun' = mailgun
         \/ \E n \in Names, v \in Registrations :
              ~Registered(n) /\ mailgun' = [mailgun EXCEPT ![n] = v]
         \/ \E n \in Names : Registered(n) /\ mailgun' = [mailgun EXCEPT ![n] = Nil],
         active' = {n \in active : Registered(n)'}
  PROVE  OneMoves
<1>1. mailgun \in [Names -> Registrations \cup {Nil}] /\ Nil \notin Registrations
  BY ObjectsAssumption DEF TypeInv, MailgunTypeOK
<1>2. CASE mailgun' = mailgun
  BY <1>2 DEF OneMoves, Same, Registered, ActiveOK
<1>3. CASE \E n \in Names, v \in Registrations :
             ~Registered(n) /\ mailgun' = [mailgun EXCEPT ![n] = v]
  <2>1. PICK n \in Names, v \in Registrations :
          ~Registered(n) /\ mailgun' = [mailgun EXCEPT ![n] = v]
    BY <1>3
  <2>2. \A m \in Names \ {n} : Same(m)
    BY <1>1, <2>1 DEF Same, Registered, ActiveOK
  <2>3. Appears(n)
    BY <1>1, <2>1 DEF Appears, Registered, ActiveOK
  <2> QED
    BY <2>2, <2>3 DEF OneMoves, ActiveOK
<1>4. CASE \E n \in Names : Registered(n) /\ mailgun' = [mailgun EXCEPT ![n] = Nil]
  <2>1. PICK n \in Names : Registered(n) /\ mailgun' = [mailgun EXCEPT ![n] = Nil]
    BY <1>4
  <2>2. \A m \in Names \ {n} : Same(m)
    BY <1>1, <2>1 DEF Same, Registered, ActiveOK
  <2>3. Leaves(n)
    BY <1>1, <2>1 DEF Leaves, Registered
  <2> QED
    BY <2>2, <2>3 DEF OneMoves, ActiveOK
<1> QED
  BY <1>2, <1>3, <1>4

\* What the Domain controller does to the registrations.
LEMMA ReconcileMoves ==
  ASSUME TypeInv, ActiveOK, DomainReconcile
  PROVE  OneMoves
<1>1. Reconcile /\ Verification /\ pc # "idle"
  BY DEF DomainReconcile, Reconcile, Get, AddFinalizer, Lookup, MarkExisting, Create, Export,
         SaveRecords, SaveFailed, CreateEndpoint, SaveEndpoint, Fetch, SaveNotFound, Verify,
         CheckMX, SaveStatus, DelGetEndpoint, DelEndpoint, NoteEndpoint, DelLookup, DelDomain,
         SaveDeleteFailed, RemoveFinalizer
<1>2. obj \in Objects => name \in Names
  BY DEF name, Objects, Specs
<1>3. CASE Create \/ DelDomain
  <2>1. obj \in Objects /\ passwords \in Nat /\ pc # "verify"
    BY <1>3 DEF Create, DelDomain, MailgunStep, TypeInv, WorkerTypeOK, MailgunTypeOK
  <2>2. [owner |-> obj.uid, password |-> passwords + 1] \in Registrations
    BY <2>1 DEF Objects, Registrations
  <2>3. \/ mailgun' = mailgun
        \/ \E n \in Names, v \in Registrations :
             ~Registered(n) /\ mailgun' = [mailgun EXCEPT ![n] = v]
        \/ \E n \in Names : Registered(n) /\ mailgun' = [mailgun EXCEPT ![n] = Nil]
    BY <1>2, <1>3, <2>1, <2>2 DEF Create, DelDomain, Register, Unregister
  <2>4. active' = {n \in active : Registered(n)'}
    BY <1>1, <2>1 DEF Verification
  <2> QED
    BY <1>2, <2>1, <2>3, <2>4, RegistrationsMove
<1>4. CASE ~Create /\ ~DelDomain
  <2>1. mailgun' = mailgun
    BY <1>1, <1>4
    DEF Reconcile, Get, AddFinalizer, Lookup, MarkExisting, Export, SaveRecords, SaveFailed,
        CreateEndpoint, SaveEndpoint, Fetch, SaveNotFound, Verify, CheckMX, SaveStatus,
        DelGetEndpoint, DelEndpoint, NoteEndpoint, DelLookup, SaveDeleteFailed, RemoveFinalizer,
        ReadStep, StoreStep, mailgunVars
  <2>2. \A n : Registered(n)' <=> Registered(n)
    BY <2>1 DEF Registered
  <2>3. {n \in active : Registered(n)'} = active
    BY <2>2 DEF ActiveOK
  <2>4. CASE active' = active
    BY <2>1, <2>2, <2>4 DEF OneMoves, Same, ActiveOK
  <2>5. CASE pc = "verify" /\ active' = active \cup {n \in {name} : Registered(n) /\ VerifiedActive(n)}
    <3>1. PICK n \in Names : n = name
      BY <1>2, <2>5 DEF TypeInv, WorkerTypeOK
    <3>2. \A m \in Names \ {n} : Same(m)
      BY <2>2, <2>5, <3>1 DEF Same
    <3>3. Same(n) \/ Verified(n)
      BY <2>2, <2>5, <3>1 DEF Same, Verified
    <3> QED
      BY <2>1, <2>5, <3>1, <3>2, <3>3 DEF OneMoves, ActiveOK
  <2> QED
    BY <1>1, <2>3, <2>4, <2>5 DEF Verification
<1> QED
  BY <1>3, <1>4

\* Every step of the operator changes at most one domain at Mailgun.
LEMMA OperatorMoves ==
  ASSUME TypeInv, ActiveOK, [OperatorNext]_operatorVars
  PROVE  OneMoves
<1>1. CASE UNCHANGED <<mailgun, active>>
  BY <1>1 DEF OneMoves, Same, Registered, ActiveOK
<1>2. CASE DomainReconcile
  BY <1>2, ReconcileMoves
<1>3. CASE \E k \in Keys : OnDomains(\/ Dequeue(k) \/ Deliver(k) \/ DeliverEndpoint(k)
                                     \/ TimerFires(k) \/ OthersWrite(k))
  <2>1. UNCHANGED mailgun /\ active' = {n \in active : Registered(n)'}
    BY <1>3 DEF OnDomains, Dequeue, Deliver, DeliverEndpoint, TimerFires, OthersWrite, mailgunVars
  <2> QED
    BY <2>1, RegistrationsMove
<1>4. CASE \E n \in Names : OnDomains(MailgunMoves(n))
  <2>1. PICK n \in Names : MailgunMoves(n) /\ active' = {m \in active : Registered(m)'}
    BY <1>4 DEF OnDomains
  <2>2. [owner |-> 0, password |-> 0] \in Registrations
    BY DEF Registrations
  <2>3. \/ mailgun' = mailgun
        \/ \E m \in Names, v \in Registrations :
             ~Registered(m) /\ mailgun' = [mailgun EXCEPT ![m] = v]
        \/ \E m \in Names : Registered(m) /\ mailgun' = [mailgun EXCEPT ![m] = Nil]
    BY <2>1, <2>2
    DEF MailgunMoves, PublishDNS, PublishMX, OutsideCreate, OutsideDelete, Register, Unregister
  <2> QED
    BY <2>1, <2>3, RegistrationsMove
<1>5. CASE \E n \in Names : MailgunVerifies(n)
  <2>1. PICK n \in Names : MailgunVerifies(n)
    BY <1>5
  <2>2. mailgun' = mailgun
    BY <2>1 DEF MailgunVerifies, vars, mailgunVars
  <2>3. (\A m \in Names \ {n} : Same(m)) /\ Verified(n) /\ active' \subseteq Names
    BY <2>1, <2>2 DEF MailgunVerifies, Same, Verified, Registered, ActiveOK
  <2> QED
    BY <2>2, <2>3 DEF OneMoves
<1>6. CASE ManagerRestart
  BY <1>1, <1>6 DEF ManagerRestart, Restart, mailgunVars
<1>7. CASE \/ OnRoutes(R!Reconcile)
           \/ \E k \in RouteKeys : OnRoutes(\/ R!Dequeue(k) \/ R!Deliver(k)
                                            \/ R!TimerFires(k) \/ R!UsersWrite(k))
           \/ \E i \in DOMAIN posted : OnRoutes(RouteByHand(i))
           \/ UNCHANGED operatorVars
  BY <1>1, <1>7 DEF OnRoutes, operatorVars, vars, mailgunVars
<1> QED
  BY <1>2, <1>3, <1>4, <1>5, <1>6, <1>7 DEF OperatorNext

\* Every step of the operator is one of the Domain controller's, or none.
LEMMA OperatorIsDomains ==
  ASSUME [OperatorNext]_operatorVars
  PROVE  [Next]_vars
BY DEF OperatorNext, DomainReconcile, OnDomains, OnRoutes, MailgunVerifies, ManagerRestart,
       operatorVars, Next

\* What is active stays registered.
LEMMA ActiveStays ==
  ASSUME TypeInv, ActiveOK, [OperatorNext]_operatorVars
  PROVE  ActiveOK'
BY OperatorMoves DEF ActiveOK, OneMoves, Same, Appears, Verified, Leaves

\* What the Route controller sees of it.
LEMMA DomainsMove ==
  ASSUME TypeInv, ActiveOK, [OperatorNext]_operatorVars, UNCHANGED <<routeVars, restarts>>
  PROVE  [RP!Next]_(RP!vars)
<1> DEFINE State(n) == IF ~Registered(n) THEN "absent"
                       ELSE IF n \in active THEN "active" ELSE "unverified"
           states == [n \in Names |-> State(n)]
<1>1. CASE \A n \in Names : Same(n)
  <2>1. \A n \in Names : State(n)' = State(n)
    BY <1>1 DEF Same
  <2>2. states' = states
    BY <2>1
  <2> HIDE DEF State
  <2> QED
    BY <2>2 DEF RP!vars, RP!storeVars, RP!mailgunVars, RP!workerVars, routeVars, State
<1>2. CASE \E n \in Names : /\ \A m \in Names \ {n} : Same(m)
                            /\ Appears(n) \/ Verified(n) \/ Leaves(n)
  <2>1. PICK n \in Names : /\ \A m \in Names \ {n} : Same(m)
                           /\ Appears(n) \/ Verified(n) \/ Leaves(n)
    BY <1>2
  <2>2. \A m \in Names \ {n} : State(m)' = State(m)
    BY <2>1 DEF Same
  <2>3. \/ State(n) = "absent" /\ State(n)' = "unverified"
        \/ State(n) = "unverified" /\ State(n)' = "active"
        \/ State(n) # "absent" /\ State(n)' = "absent"
    BY <2>1 DEF Appears, Verified, Leaves
  <2> HIDE DEF State
  <2>4. states' = [states EXCEPT ![n] = State(n)']
    BY <2>2
  <2>5. states[n] = State(n)
    OBVIOUS
  <2> HIDE DEF states
  <2>6. /\ \/ states[n] = "absent" /\ states' = [states EXCEPT ![n] = "unverified"]
           \/ states[n] = "unverified" /\ states' = [states EXCEPT ![n] = "active"]
           \/ states[n] # "absent" /\ states' = [states EXCEPT ![n] = "absent"]
    BY <2>3, <2>4, <2>5
  <2>7. RP!DomainMoves(n)
    BY <2>6 DEF RP!DomainMoves, routeVars, states, State
  <2>8. RP!MailgunMoves
    BY <2>7 DEF RP!MailgunMoves, RP!storeVars, RP!workerVars, routeVars
  <2> QED
    BY <2>8 DEF RP!Next
<1> QED
  BY <1>1, <1>2, OperatorMoves DEF OneMoves

\* Every step of the operator is one of the Route controller's, or none.
LEMMA OperatorIsRoutes ==
  ASSUME TypeInv, ActiveOK, [OperatorNext]_operatorVars
  PROVE  [RP!Next]_(RP!vars)
<1>1. CASE UNCHANGED <<routeVars, restarts>>
  BY <1>1, DomainsMove
<1>2. CASE ManagerRestart
  BY <1>2, SameController DEF ManagerRestart, RP!Next
<1>3. CASE \/ OnRoutes(R!Reconcile)
           \/ \E k \in RouteKeys : OnRoutes(\/ R!Dequeue(k) \/ R!Deliver(k)
                                            \/ R!TimerFires(k) \/ R!UsersWrite(k))
  BY <1>3, SameController DEF OnRoutes, RP!Next
<1>6. CASE \E i \in DOMAIN posted : OnRoutes(RouteByHand(i))
  <2>1. PICK i \in DOMAIN posted : OnRoutes(RouteByHand(i))
    BY <1>6
  <2>2. RP!RemovedByHand(i) /\ restarts' = restarts
    BY <2>1, SameController DEF OnRoutes, RouteByHand, vars
  <2>3. RP!MailgunMoves
    BY <2>1, <2>2 DEF OnRoutes, RouteByHand, RP!MailgunMoves, RP!storeVars, RP!workerVars
  <2> QED
    BY <2>3 DEF RP!Next
<1>4. CASE DomainReconcile \/ \E n \in Names : OnDomains(MailgunMoves(n)) \/ MailgunVerifies(n)
  <2>1. UNCHANGED routeVars
    BY <1>4 DEF DomainReconcile, OnDomains, MailgunVerifies
  <2>2. restarts' = restarts
    BY <1>4
    DEF DomainReconcile, OnDomains, MailgunVerifies, MailgunMoves, vars, Reconcile, Get,
        AddFinalizer, Lookup, MarkExisting, Create, Export, SaveRecords, SaveFailed,
        CreateEndpoint, SaveEndpoint, Fetch, SaveNotFound, Verify, CheckMX, SaveStatus,
        DelGetEndpoint, DelEndpoint, NoteEndpoint, DelLookup, DelDomain, SaveDeleteFailed,
        RemoveFinalizer, StoreStep, MailgunStep, ReadStep
  <2> QED
    BY <1>1, <2>1, <2>2
<1>5. CASE \/ \E k \in Keys : OnDomains(\/ Dequeue(k) \/ Deliver(k) \/ DeliverEndpoint(k)
                                        \/ TimerFires(k) \/ OthersWrite(k))
           \/ UNCHANGED operatorVars
  BY <1>1, <1>5
  DEF OnDomains, Dequeue, Deliver, DeliverEndpoint, TimerFires, OthersWrite, operatorVars, vars
<1> QED
  BY <1>2, <1>3, <1>4, <1>5, <1>6 DEF OperatorNext

-----------------------------------------------------------------------------
(* Each controller beside the other. *)

\* The types of the Domain side, and what Mailgun verifies.
DomainInv == TypeInv /\ ActiveOK

\* They hold of the operator.
THEOREM DomainSide == OperatorSpec => []DomainInv
<1>1. OperatorInit => DomainInv
  BY InitTyped DEF OperatorInit, DomainInv, ActiveOK
<1>2. DomainInv /\ [OperatorNext]_operatorVars => DomainInv'
  BY OperatorIsDomains, NextTyped, ActiveStays DEF DomainInv
<1> QED
  BY <1>1, <1>2, PTL DEF OperatorSpec

\* The Domain controller is the same beside the Route controller: what is proved
\* of it alone, every invariant and every action property, holds in the operator.
THEOREM ImplementsDomains == OperatorSpec => Spec
<1>1. OperatorInit => Init
  BY DEF OperatorInit
<1> QED
  BY <1>1, OperatorIsDomains, PTL DEF OperatorSpec, Spec

\* So is the Route controller, which meets the Domain controller at Mailgun: what
\* that one registers, verifies and deletes, one domain at a time, is among what
\* the Route controller expects of domains that come and go.
THEOREM ImplementsRoutes == OperatorSpec => R!Spec
<1>1. OperatorInit => R!Init
  BY DEF OperatorInit
<1>2. R!Next <=> RP!Next
  BY SameController DEF R!Next, RP!Next
<1>3. UNCHANGED RP!vars => UNCHANGED R!vars
  BY DEF R!vars, R!storeVars, R!mailgunVars, R!workerVars, RP!vars, RP!storeVars, RP!mailgunVars,
         RP!workerVars
<1>4. DomainInv /\ [OperatorNext]_operatorVars => [R!Next]_(R!vars)
  BY <1>2, <1>3, OperatorIsRoutes DEF DomainInv
<1> QED
  BY <1>1, <1>4, DomainSide, PTL DEF OperatorSpec, R!Spec

-----------------------------------------------------------------------------
(* The routes of the operator. *)

\* What ties the ids to the routes holds of the operator too.
THEOREM RouteSide == OperatorSpec => []RP!IdsInv
<1>1. OperatorInit => RP!IdsInv
  BY RouteAssumptions, RP!InitIdsInv, SameController DEF OperatorInit
<1>2. RP!IdsInv /\ DomainInv /\ [OperatorNext]_operatorVars => RP!IdsInv'
  BY RouteAssumptions, RP!NextIdsInv, OperatorIsRoutes DEF DomainInv
<1> QED
  BY <1>1, <1>2, DomainSide, PTL DEF OperatorSpec

\* In the operator, whatever the Domain controller does at Mailgun, whatever calls
\* fail and whatever users edit: unless people delete routes at Mailgun, the id in
\* the status of a Route that is not deleted names its own route.
THEOREM RoutesKept == OperatorSpec => []R!RouteIDNamesOwnRoute
<1>1. RP!IdsInv => R!RouteIDNamesOwnRoute
  <2> SUFFICES ASSUME RP!IdsInv, byHand = 0, NEW k \in RouteKeys, RP!Live(k), routes[k].id # 0
               PROVE  RP!Exists(routes[k].id) /\ posted[routes[k].id].owner = routes[k].uid
    BY SameController DEF R!RouteIDNamesOwnRoute, R!Live, RP!Live
  <2>1. RP!Exists(routes[k].id)
    BY DEF RP!IdsInv, RP!HeldOK
  <2>2. routes[k] \in RP!Routes /\ RP!Known(k, routes[k])
    BY DEF RP!Known, RP!Live, RP!IdsInv, RP!CopyInv, RP!TypeInv, RP!StoreTypeOK
  <2> QED
    BY <2>1, <2>2 DEF RP!IdsInv, RP!KnownOK, RP!OwnId, RP!Exists
<1> QED
  BY <1>1, RouteSide, PTL

\* In the operator no Route with work left is forgotten, where the lookup before
\* an update (route_controller.go:179) does not fail for no reason: its error ends
\* the reconcile without one.
THEOREM RouteWakeupsKept ==
  ASSUME RP!AnsweredOnUpdate
  PROVE  OperatorSpec => []R!NoLostWakeup
<1>1. OperatorInit => RP!WakeupInv
  BY RouteAssumptions, RP!InitWakeupInv, SameController DEF OperatorInit
<1>2. RP!WakeupInv /\ DomainInv /\ [OperatorNext]_operatorVars => RP!WakeupInv'
  BY RouteAssumptions, RP!AnsweredOnUpdate, RP!NextWakeupInv, OperatorIsRoutes DEF DomainInv
<1>3. RP!WakeupInv => R!NoLostWakeup
  BY DEF RP!WakeupInv, R!NoLostWakeup, RP!NoLostWakeup, R!NeedsWork, RP!NeedsWork,
         R!Live, RP!Live, R!OutOfDate, RP!OutOfDate, R!Exists, RP!Exists, R!Differs, RP!Differs,
         R!Merged, RP!Merged, R!EventComing, RP!EventComing, R!PassesPredicate,
         RP!PassesPredicate
<1> QED
  BY <1>1, <1>2, <1>3, DomainSide, PTL DEF OperatorSpec

-----------------------------------------------------------------------------
(* The domains routes are made for. *)

\* The worker asks Mailgun for a route only for a domain that was active at some
\* moment of this reconcile.
AskedOK ==
  rpc \in {"createRoute", "getRoute", "updateRoute"} /\ robj.spec.domain # NoDomain =>
    robj.spec.domain \in seen

\* What a reconcile has seen, it has seen until it ends.
LEMMA SeenStays ==
  ASSUME [OperatorNext]_operatorVars
  PROVE  /\ rpc' # "idle" => seen \subseteq seen'
         /\ active' \subseteq seen' \/ UNCHANGED <<rpc, robj, seen>>
<1>1. Watch \/ UNCHANGED operatorVars
  BY DEF OperatorNext, DomainReconcile, OnDomains, OnRoutes, MailgunVerifies, ManagerRestart
<1>2. CASE Watch
  BY <1>2 DEF Watch
<1>3. CASE UNCHANGED operatorVars
  BY <1>3 DEF operatorVars, routeVars
<1> QED
  BY <1>1, <1>2, <1>3

\* The worker looks at the domain before it asks for the route.
LEMMA AskedStays ==
  ASSUME RP!IdsInv, AskedOK, [OperatorNext]_operatorVars
  PROVE  AskedOK'
<1>1. rpc' # "idle" => seen \subseteq seen'
  BY SeenStays
<1>2. RP!TypeInv
  BY DEF RP!IdsInv, RP!CopyInv
<1>3. RP!Working => robj \in RP!Routes
  BY <1>2 DEF RP!TypeInv, RP!WorkerTypeOK, RP!Working
<1>4. CASE UNCHANGED <<rpc, robj>>
  BY <1>1, <1>4 DEF AskedOK
<1>5. CASE rpc' \notin {"createRoute", "getRoute", "updateRoute"}
  BY <1>5 DEF AskedOK
<1>6. CASE OnRoutes(RP!Reconcile)
  <2> SUFFICES ASSUME rpc' \in {"createRoute", "getRoute", "updateRoute"},
                      robj'.spec.domain # NoDomain
               PROVE  robj'.spec.domain \in seen'
    BY DEF AskedOK
  <2>1. RP!Reconcile
    BY <1>6 DEF OnRoutes
  <2>2. CASE RP!GetDomain
    <3>1. robj' = robj /\ robj \in RP!Routes
      BY <1>3, <2>2 DEF RP!GetDomain, RP!SendRequest, RP!Call, RP!Working
    <3>2. robj.spec.domain \in Names
      BY <3>1 DEF RP!Routes, RP!Specs
    <3>3. robj.spec.domain \in active
      BY <2>2, <3>2 DEF RP!GetDomain, RP!SendRequest, RP!Call
    <3>4. active' = active /\ active' \subseteq seen'
      BY <1>6 DEF OnRoutes, Watch
    <3> QED
      BY <3>1, <3>3, <3>4
  <2>3. CASE RP!GetRoute
    BY <1>1, <2>3 DEF RP!GetRoute, RP!Call, RP!Return, RP!Idle, AskedOK
  <2>4. CASE RP!Get
    BY <2>4 DEF RP!Get, RP!Provide, RP!SendRequest, RP!Call, RP!Return, RP!Idle
  <2>5. CASE RP!AddFinalizer
    BY <2>5 DEF RP!AddFinalizer, RP!Provide, RP!SendRequest, RP!Call, RP!Requeue, RP!Idle
  <2>6. CASE ~RP!GetDomain /\ ~RP!GetRoute /\ ~RP!Get /\ ~RP!AddFinalizer
    BY <2>1, <2>6
    DEF RP!Reconcile, RP!SaveWait, RP!UpdateRoute, RP!SaveUpdateFailed, RP!CreateRoute,
        RP!SaveCreateFailed, RP!SaveId, RP!Claim, RP!DelGetRoute, RP!DeleteRoute,
        RP!SaveDeleteFailed, RP!Release, RP!Call, RP!Return, RP!Requeue, RP!Idle
  <2> QED
    BY <2>2, <2>3, <2>4, <2>5, <2>6
<1>7. CASE \E k \in RouteKeys : OnRoutes(\/ R!Dequeue(k) \/ R!Deliver(k)
                                         \/ R!TimerFires(k) \/ R!UsersWrite(k))
  <2>1. PICK k \in RouteKeys : RP!Dequeue(k) \/ RP!Deliver(k) \/ RP!TimerFires(k) \/ RP!UsersWrite(k)
    BY <1>7, SameController DEF OnRoutes
  <2> QED
    BY <1>4, <1>5, <2>1 DEF RP!Dequeue, RP!Deliver, RP!TimerFires, RP!UsersWrite, RP!workerVars
<1>8. CASE ManagerRestart
  BY <1>5, <1>8, SameController DEF ManagerRestart, RP!Restart, RP!Idle
<1>9. CASE UNCHANGED <<rpc, robj>>
  BY <1>4, <1>9
<1> QED
  BY <1>6, <1>7, <1>8, <1>9, SameController
  DEF OperatorNext, DomainReconcile, OnDomains, MailgunVerifies, operatorVars, OnRoutes,
      RouteByHand, routeVars

\* Route i at Mailgun has been made or changed, and not deleted.
Made(i) ==
  /\ i \notin DOMAIN posted \/ posted'[i] # posted[i]
  /\ posted'[i] # Nil

\* Only the worker makes a route or changes one, and it does for the Route in its
\* hands, when it has looked at the domain.
LEMMA MadeByWorker ==
  ASSUME RP!IdsInv, [OperatorNext]_operatorVars, NEW i \in DOMAIN posted', Made(i)
  PROVE  rpc \in {"createRoute", "updateRoute"} /\ posted'[i].domain = robj.spec.domain
<1>1. posted \in Seq(RP!PostedRoutes \cup {Nil})
  BY DEF RP!IdsInv, RP!CopyInv, RP!TypeInv, RP!MailgunTypeOK
<1>2. posted' # posted
  BY DEF Made
<1>3. CASE RP!UpdateRoute /\ RP!Put(robj)
  <2>1. robj.id \in DOMAIN posted /\ posted[robj.id] \in RP!PostedRoutes
    BY <1>1, <1>3 DEF RP!Put, RP!Exists
  <2>2. posted'[robj.id].domain = robj.spec.domain
    BY <1>1, <1>3, <2>1 DEF RP!Put, RP!PostedRoutes
  <2>3. DOMAIN posted' = DOMAIN posted /\ \A j \in DOMAIN posted : j # robj.id => posted'[j] = posted[j]
    BY <1>1, <1>3 DEF RP!Put
  <2> QED
    BY <1>3, <2>2, <2>3 DEF Made, RP!UpdateRoute
<1>4. CASE RP!CreateRoute /\ RP!Post(robj)
  <2> DEFINE p == [owner |-> robj.uid, request |-> robj.spec.request, domain |-> robj.spec.domain]
  <2>1. posted' = Append(posted, p) /\ p.domain = robj.spec.domain
    BY <1>4 DEF RP!Post
  <2> HIDE DEF p
  <2>2. /\ Len(posted) \in Nat
        /\ DOMAIN posted = 1 .. Len(posted)
        /\ DOMAIN posted' = 1 .. Len(posted) + 1
        /\ \A j \in 1 .. Len(posted) : posted'[j] = posted[j]
        /\ posted'[Len(posted) + 1] = p
    BY <1>1, <2>1
  <2>3. i = Len(posted) + 1
    BY <2>2 DEF Made
  <2> QED
    BY <1>4, <2>1, <2>2, <2>3 DEF RP!CreateRoute
<1>5. ASSUME NEW j, RP!Remove(j) PROVE FALSE
  BY <1>1, <1>5 DEF RP!Remove, RP!Exists, Made
<1>6. CASE RP!Reconcile
  <2>1. CASE RP!UpdateRoute \/ RP!CreateRoute \/ RP!DeleteRoute
    BY <1>2, <1>3, <1>4, <1>5, <2>1 DEF RP!UpdateRoute, RP!CreateRoute, RP!DeleteRoute
  <2>2. CASE ~(RP!UpdateRoute \/ RP!CreateRoute \/ RP!DeleteRoute)
    BY <1>2, <1>6, <2>2
    DEF RP!Reconcile, RP!Get, RP!AddFinalizer, RP!GetDomain, RP!SaveWait, RP!GetRoute,
        RP!SaveUpdateFailed, RP!SaveCreateFailed, RP!SaveId, RP!Claim, RP!DelGetRoute,
        RP!SaveDeleteFailed, RP!Release, RP!ReadStep, RP!StoreStep, RP!mailgunVars
  <2> QED
    BY <2>1, <2>2
<1>7. CASE \E j : RP!RemovedByHand(j)
  BY <1>5, <1>7 DEF RP!RemovedByHand
<1>8. CASE \/ RP!Restart
           \/ \E k \in RouteKeys : RP!Dequeue(k) \/ RP!Deliver(k) \/ RP!TimerFires(k) \/ RP!UsersWrite(k)
           \/ UNCHANGED routeVars
  BY <1>2, <1>8 DEF RP!Restart, RP!Dequeue, RP!Deliver, RP!TimerFires, RP!UsersWrite,
                    RP!mailgunVars, routeVars
<1> QED
  BY <1>6, <1>7, <1>8, SameController
  DEF OperatorNext, DomainReconcile, OnDomains, OnRoutes, RouteByHand, MailgunVerifies,
      ManagerRestart, operatorVars

\* The Route controller looks at the domain, and makes the route later; in between
\* the Domain controller may delete the domain, and register it again.  Whatever it
\* does, and whatever calls fail: when a route is made for a domain, or changed, the
\* domain was active at some moment since the worker took up the Route.
THEOREM RoutesVerified == OperatorSpec => RoutesOfVerifiedDomains
<1>1. OperatorInit => AskedOK
  BY DEF OperatorInit, R!Init, AskedOK
<1>2. AskedOK /\ RP!IdsInv /\ [OperatorNext]_operatorVars => AskedOK'
  BY AskedStays
<1>3. AskedOK /\ RP!IdsInv /\ [OperatorNext]_operatorVars =>
        [\A i \in DOMAIN posted' :
           /\ i \notin DOMAIN posted \/ posted'[i] # posted[i]
           /\ posted'[i] # Nil
           /\ posted'[i].domain # NoDomain
           => posted'[i].domain \in seen]_operatorVars
  BY MadeByWorker DEF AskedOK, Made
<1> QED
  BY <1>1, <1>2, <1>3, RouteSide, PTL DEF OperatorSpec, RoutesOfVerifiedDomains
=============================================================================
