-------------------------- MODULE RouteController --------------------------
(***************************************************************************)
(* The Route controller (internal/controller/domain/route_controller.go),  *)
(* in the manner of DomainController: one step of the worker for each call *)
(* to the API server or to Mailgun, named by pc before it is made.         *)
(***************************************************************************)
EXTENDS MailgunRoutes

CONSTANTS
  Faulty,      \* the calls (values of pc) that may fail for no reason
  MaxFaults,   \* bound: how many calls do
  MaxRestarts, \* bound: how often the manager restarts
  MaxLag,      \* bound: versions the informer may miss when a reconcile starts
  MaxPosts     \* bound: routes Mailgun accepts; a further one is refused

ASSUME RouteControllerAssumption ==
  /\ MaxFaults \in Nat
  /\ MaxRestarts \in Nat
  /\ MaxLag \in Nat
  /\ MaxPosts \in Nat

VARIABLES
  queue,    \* keys waiting for the worker
  delayed,  \* keys that will be queued again later
  pc,       \* the call the worker is about to make
  key,      \* the key being reconciled, or Nil
  obj,      \* mailgunRoute, the copy in memory
  fresh,    \* whether that copy carries the stored resourceVersion
  faults,   \* calls that failed so far
  restarts  \* restarts so far

workerVars == <<pc, key, obj, fresh>>
vars == <<storeVars, mailgunVars, queue, delayed, workerVars, faults, restarts>>

Steps ==
  {"idle", "get", "addFinalizer", "getDomain", "saveWait", "getRoute", "updateRoute",
   "saveUpdateFailed", "createRoute", "saveCreateFailed", "saveId", "claim",
   "delGetRoute", "deleteRoute", "saveDeleteFailed", "release"}

-----------------------------------------------------------------------------
(* How a reconcile goes on. *)

Call(step, r, current) ==
  /\ pc' = step
  /\ obj' = r
  /\ fresh' = current
  /\ UNCHANGED <<key, delayed>>

Idle ==
  /\ pc' = "idle"
  /\ key' = Nil
  /\ obj' = Nil
  /\ fresh' = FALSE

\* return ctrl.Result{}, nil
Return ==
  /\ Idle
  /\ UNCHANGED delayed

\* An error, or a RequeueAfter: the key is queued again later.
Requeue ==
  /\ Idle
  /\ delayed' = delayed \cup {key}

\* A call that fails although nothing is wrong with it.
Fault ==
  /\ pc \in Faulty
  /\ faults < MaxFaults
  /\ faults' = faults + 1

NoFault == UNCHANGED faults

\* A call that returns an error and has no effect.
FailsUnless(condition) == (~condition /\ NoFault) \/ Fault

\* An update of the Route that the API server takes.
Saved(r) ==
  /\ fresh
  /\ Store(key, r)
  /\ NoFault

\* An update that returns an error: it conflicts, is lost on the way, or its
\* answer is.
SaveFails(r) ==
  \/ ~fresh /\ NoFault /\ UNCHANGED <<routes, pending>>
  \/ Fault /\ UNCHANGED <<routes, pending>>
  \/ Fault /\ fresh /\ Store(key, r)

\* What a step on the Route leaves alone, one on Mailgun, and one that reads.
StoreStep == UNCHANGED <<cache, uids, edits, mailgunVars, queue, restarts>>
MailgunStep == UNCHANGED <<storeVars, domainState, byHand, queue, restarts>>
ReadStep == UNCHANGED <<storeVars, mailgunVars, queue, restarts>>

WithError(r, e) == [r EXCEPT !.error = e]

-----------------------------------------------------------------------------
(* Reconcile of a Route that is not deleted. *)

Dequeue(k) ==
  /\ pc = "idle"
  /\ k \in queue
  /\ Len(pending[k]) <= MaxLag
  /\ queue' = queue \ {k}
  /\ pc' = "get"
  /\ key' = k
  /\ UNCHANGED <<storeVars, mailgunVars, delayed, obj, fresh, faults, restarts>>

\* From the request on: a Route with an id is compared, one without is created.
SendRequest(r, current) ==
  Call(IF r.id # 0 THEN "getRoute" ELSE "createRoute", r, current)

\* From the end of the finalizer block on.
Provide(r, current) ==
  \/ r.spec.domain # NoDomain /\ Call("getDomain", r, current)
  \/ r.spec.domain = NoDomain /\ SendRequest(r, current)

\* The finalizer is put on only when there is a route to delete.
Get ==
  /\ pc = "get"
  /\ LET r == cache[key]
         current == pending[key] = <<>>
     IN  \/ r = Nil /\ Return
         \/ /\ r # Nil
            /\ ~r.deleting
            /\ ~r.finalizer
            /\ r.id # 0
            /\ Call("addFinalizer", r, current)
         \/ /\ r # Nil
            /\ IF r.deleting THEN ~r.finalizer ELSE r.finalizer \/ r.id = 0
            /\ Provide(r, current)
         \/ /\ r # Nil
            /\ r.deleting
            /\ r.finalizer
            /\ Call(IF r.id = 0 THEN "release" ELSE "delGetRoute", r, current)
  /\ NoFault
  /\ ReadStep

AddFinalizer ==
  /\ pc = "addFinalizer"
  /\ LET r == [obj EXCEPT !.finalizer = TRUE]
     IN  \/ Saved(r) /\ Provide(r, TRUE)
         \/ SaveFails(r) /\ Requeue
  /\ StoreStep

\* Mutant: any domain Mailgun knows will do.
GetAnyDomain ==
  /\ pc = "getDomain"
  /\ domainState[obj.spec.domain] # "absent"
  /\ NoFault
  /\ SendRequest(obj, fresh)
  /\ ReadStep

GetDomain ==
  /\ pc = "getDomain"
  /\ LET state == domainState[obj.spec.domain]
     IN  \/ /\ FailsUnless(state # "absent")
            /\ Call("saveWait", WithError(obj, "domain"), fresh)
         \/ /\ state = "unverified"
            /\ NoFault
            /\ Call("saveWait", WithError(obj, "inactive"), fresh)
         \/ /\ state = "active"
            /\ NoFault
            /\ SendRequest(obj, fresh)
  /\ ReadStep

\* Mutant: does not look at the domain again.
SaveWaitOnce ==
  /\ pc = "saveWait"
  /\ \/ Saved(obj) /\ Return
     \/ SaveFails(obj) /\ Requeue
  /\ StoreStep

\* RequeueAfter: 5 * time.Minute, or the error.
SaveWait ==
  /\ pc = "saveWait"
  /\ Saved(obj) \/ SaveFails(obj)
  /\ Requeue
  /\ StoreStep

-----------------------------------------------------------------------------
(* The route at Mailgun. *)

\* Of the actions only their number is compared.
Differs(there, wanted) ==
  \/ there.body # wanted.body
  \/ there.priority # wanted.priority
  \/ Len(there.actions) # Len(wanted.actions)

\* Mutant: updates a route only when its body differs.
GetRouteBody ==
  /\ pc = "getRoute"
  /\ IF Exists(obj.id) /\ posted[obj.id].request.body # obj.spec.request.body
     THEN Call("updateRoute", obj, fresh)
     ELSE Return
  /\ NoFault
  /\ ReadStep

\* An error ends the reconcile without an error of its own.
GetRoute ==
  /\ pc = "getRoute"
  /\ \/ /\ Exists(obj.id)
        /\ NoFault
        /\ \/ /\ Differs(posted[obj.id].request, obj.spec.request)
              /\ Call("updateRoute", obj, fresh)
           \/ /\ ~Differs(posted[obj.id].request, obj.spec.request)
              /\ Return
     \/ /\ FailsUnless(Exists(obj.id))
        /\ Return
  /\ ReadStep

UpdateRoute ==
  /\ pc = "updateRoute"
  /\ \/ Put(obj) /\ NoFault /\ Return
     \/ Put(obj) /\ Fault /\ Call("saveUpdateFailed", WithError(obj, "update"), fresh)
     \/ /\ FailsUnless(Exists(obj.id))
        /\ UNCHANGED posted
        /\ Call("saveUpdateFailed", WithError(obj, "update"), fresh)
  /\ MailgunStep

SaveUpdateFailed ==
  /\ pc = "saveUpdateFailed"
  /\ Saved(obj) \/ SaveFails(obj)
  /\ Requeue
  /\ StoreStep

\* Mutant: ignores the error of CreateRoute.
CreateRouteAnyway ==
  /\ pc = "createRoute"
  /\ \/ Post(obj) /\ NoFault
     \/ FailsUnless(Len(posted) < MaxPosts) /\ UNCHANGED posted
  /\ Call("saveId", [obj EXCEPT !.id = Len(posted) + 1], fresh)
  /\ MailgunStep

\* Mutant: stores the id of the answer there is not.
CreateRouteNoAnswer ==
  /\ pc = "createRoute"
  /\ \/ /\ Post(obj)
        /\ NoFault
        /\ Call("saveId", [obj EXCEPT !.id = Len(posted')], fresh)
     \/ /\ FailsUnless(Len(posted) < MaxPosts)
        /\ UNCHANGED posted
        /\ Call("saveId", [obj EXCEPT !.id = Nil], fresh)
  /\ MailgunStep

CreateRoute ==
  /\ pc = "createRoute"
  /\ \/ /\ Len(posted) < MaxPosts
        /\ Post(obj)
        /\ \/ NoFault /\ Call("saveId", [obj EXCEPT !.id = Len(posted')], fresh)
           \/ Fault /\ Call("saveCreateFailed", WithError(obj, "create"), fresh)
     \/ /\ FailsUnless(Len(posted) < MaxPosts)
        /\ UNCHANGED posted
        /\ Call("saveCreateFailed", WithError(obj, "create"), fresh)
  /\ MailgunStep

\* RequeueAfter: 1 * time.Minute, or the error.
SaveCreateFailed ==
  /\ pc = "saveCreateFailed"
  /\ Saved(obj) \/ SaveFails(obj)
  /\ Requeue
  /\ StoreStep

\* Mutant: patches the id in without the optimistic lock.
SaveIdPatched ==
  /\ pc = "saveId"
  /\ routes[key] # Nil
  /\ Store(key, [routes[key] EXCEPT !.id = obj.id])
  /\ NoFault
  /\ Call("claim", [routes'[key] EXCEPT !.finalizer = TRUE], TRUE)
  /\ StoreStep

SaveId ==
  /\ pc = "saveId"
  /\ \/ Saved(obj) /\ Call("claim", [obj EXCEPT !.finalizer = TRUE], TRUE)
     \/ SaveFails(obj) /\ Requeue
  /\ StoreStep

\* The finalizer of a Route that has just been created.
Claim ==
  /\ pc = "claim"
  /\ \/ Saved(obj) /\ Return
     \/ SaveFails(obj) /\ Requeue
  /\ StoreStep

-----------------------------------------------------------------------------
(* Reconcile of a Route that is deleted. *)

\* Every error counts as "already deleted".
DelGetRoute ==
  /\ pc = "delGetRoute"
  /\ \/ Exists(obj.id) /\ NoFault /\ Call("deleteRoute", obj, fresh)
     \/ FailsUnless(Exists(obj.id)) /\ Call("release", obj, fresh)
  /\ ReadStep

\* Mutant: gives up the finalizer whatever becomes of the route.
DeleteRouteOnce ==
  /\ pc = "deleteRoute"
  /\ \/ Remove(obj.id) /\ NoFault
     \/ FailsUnless(Exists(obj.id)) /\ UNCHANGED posted
  /\ Call("release", obj, fresh)
  /\ MailgunStep

DeleteRoute ==
  /\ pc = "deleteRoute"
  /\ \/ Remove(obj.id) /\ NoFault /\ Call("release", obj, fresh)
     \/ Remove(obj.id) /\ Fault /\ Call("saveDeleteFailed", WithError(obj, "delete"), fresh)
     \/ /\ FailsUnless(Exists(obj.id))
        /\ UNCHANGED posted
        /\ Call("saveDeleteFailed", WithError(obj, "delete"), fresh)
  /\ MailgunStep

SaveDeleteFailed ==
  /\ pc = "saveDeleteFailed"
  /\ Saved(obj) \/ SaveFails(obj)
  /\ Requeue
  /\ StoreStep

\* Mutant: an error of the last update is lost.
ReleaseOnce ==
  /\ pc = "release"
  /\ Saved(Released(obj)) \/ SaveFails(Released(obj))
  /\ Return
  /\ StoreStep

Release ==
  /\ pc = "release"
  /\ \/ Saved(Released(obj)) /\ Return
     \/ SaveFails(Released(obj)) /\ Requeue
  /\ StoreStep

Reconcile ==
  \/ Get \/ AddFinalizer \/ GetDomain \/ SaveWait
  \/ GetRoute \/ UpdateRoute \/ SaveUpdateFailed
  \/ CreateRoute \/ SaveCreateFailed \/ SaveId \/ Claim
  \/ DelGetRoute \/ DeleteRoute \/ SaveDeleteFailed \/ Release

-----------------------------------------------------------------------------
(* The manager around the worker. *)

\* GenerationChangedPredicate filters updates only.
PassesPredicate(old, new) ==
  \/ old = Nil
  \/ new = Nil
  \/ old.spec # new.spec
  \/ old.deleting # new.deleting

Deliver(k) ==
  /\ NextVersion(k)
  /\ queue' = IF PassesPredicate(cache[k], cache'[k]) THEN queue \cup {k} ELSE queue
  /\ UNCHANGED <<routes, uids, edits, mailgunVars, delayed, workerVars, faults, restarts>>

TimerFires(k) ==
  /\ k \in delayed
  /\ delayed' = delayed \ {k}
  /\ queue' = queue \cup {k}
  /\ UNCHANGED <<storeVars, mailgunVars, workerVars, faults, restarts>>

\* The manager dies at any point and starts again.
Restart ==
  /\ restarts < MaxRestarts
  /\ restarts' = restarts + 1
  /\ Idle
  /\ cache' = routes
  /\ pending' = [k \in Keys |-> <<>>]
  /\ queue' = {k \in Keys : routes[k] # Nil}
  /\ delayed' = {}
  /\ UNCHANGED <<routes, uids, edits, mailgunVars, faults>>

UsersWrite(k) ==
  /\ UserCreate(k) \/ UserEdit(k) \/ UserDelete(k)
  /\ fresh' = (fresh /\ key # k)
  /\ UNCHANGED <<cache, mailgunVars, queue, delayed, pc, key, obj, faults, restarts>>

MailgunMoves ==
  /\ \/ \E n \in Domains : DomainMoves(n)
     \/ \E i \in DOMAIN posted : RemovedByHand(i)
  /\ UNCHANGED <<storeVars, queue, delayed, workerVars, faults, restarts>>

Init ==
  /\ StoreInit
  /\ MailgunInit
  /\ queue = {}
  /\ delayed = {}
  /\ pc = "idle"
  /\ key = Nil
  /\ obj = Nil
  /\ fresh = FALSE
  /\ faults = 0
  /\ restarts = 0

Next ==
  \/ Reconcile
  \/ Restart
  \/ \E k \in Keys : Dequeue(k) \/ Deliver(k) \/ TimerFires(k) \/ UsersWrite(k)
  \/ MailgunMoves

Spec == Init /\ [][Next]_vars

\* As for the Domain controller.
Fairness ==
  /\ WF_vars(Reconcile)
  /\ \A k \in Keys : /\ WF_vars(Deliver(k))
                     /\ WF_vars(TimerFires(k))
                     /\ SF_vars(Dequeue(k))

FairSpec == Spec /\ Fairness

TypeOK ==
  /\ StoreTypeOK
  /\ MailgunTypeOK
  /\ queue \subseteq Keys
  /\ delayed \subseteq Keys
  /\ pc \in Steps
  /\ key \in Keys \cup {Nil}
  /\ obj \in Routes \cup {Nil}
  /\ fresh \in BOOLEAN
  /\ faults \in Nat
  /\ restarts \in Nat
=============================================================================
