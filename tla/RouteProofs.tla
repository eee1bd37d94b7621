---------------------------- MODULE RouteProofs ----------------------------
(***************************************************************************)
(* The Route controller for every value of its constants: its types, that  *)
(* the id in a status names the route that was made for the object and is  *)
(* kept, that the finalizer is given up when the route is gone, and that   *)
(* no Route with work left is forgotten.                                   *)
(***************************************************************************)
EXTENDS RouteProperties, SequenceTheorems, TLAPS

MaybeRoutes == Routes \cup {Nil}

WorkerTypeOK ==
  /\ pc \in Steps
  /\ key \in Keys \cup {Nil}
  /\ obj \in MaybeRoutes
  /\ fresh \in BOOLEAN
  /\ delayed \subseteq Keys
  /\ pc # "idle" => key \in Keys
  /\ pc \notin {"idle", "get"} => obj \in Routes

RestTypeOK ==
  /\ queue \subseteq Keys
  /\ faults \in Nat
  /\ restarts \in Nat

\* The inductive form of TypeOK.
TypeInv == StoreTypeOK /\ MailgunTypeOK /\ WorkerTypeOK /\ RestTypeOK

-----------------------------------------------------------------------------
(* Routes. *)

\* The fields of a Route the steps of the worker leave alone.
SameObject(a, b) == a.uid = b.uid /\ a.spec = b.spec /\ a.deleting = b.deleting

\* What the worker makes of a Route in memory is a Route, of the same object.
LEMMA ChangedTyped ==
  ASSUME NEW r \in Routes
  PROVE  /\ \A e \in Errors :
              /\ WithError(r, e) \in Routes
              /\ SameObject(WithError(r, e), r)
              /\ WithError(r, e).id = r.id
              /\ WithError(r, e).finalizer = r.finalizer
         /\ LET claimed == [r EXCEPT !.finalizer = TRUE]
            IN  /\ claimed \in Routes
                /\ SameObject(claimed, r)
                /\ claimed.id = r.id
                /\ claimed.finalizer = TRUE
         /\ \A i \in Nat :
              /\ [r EXCEPT !.id = i] \in Routes
              /\ SameObject([r EXCEPT !.id = i], r)
              /\ [r EXCEPT !.id = i].id = i
              /\ [r EXCEPT !.id = i].finalizer = r.finalizer
BY DEF Routes, WithError, SameObject

\* A released Route is gone, or the same but for the finalizer.
LEMMA ReleasedTyped ==
  ASSUME NEW r \in Routes
  PROVE  \/ r.deleting /\ Released(r) = Nil
         \/ /\ Released(r) \in Routes
            /\ ~r.deleting
            /\ SameObject(Released(r), r)
            /\ Released(r).id = r.id
BY DEF Routes, Released, SameObject

\* What a PUT leaves at Mailgun is a request.
LEMMA MergedTyped ==
  ASSUME NEW old \in Requests, NEW new \in Requests
  PROVE  Merged(old, new) \in Requests
BY DEF Merged, Requests

-----------------------------------------------------------------------------
(* The parts steps are made of. *)

\* A store step puts a Route, or none, at a key.
LEMMA StoreTyped ==
  ASSUME StoreTypeOK, NEW k \in Keys, NEW r \in MaybeRoutes, Store(k, r)
  PROVE  /\ routes' \in [Keys -> MaybeRoutes]
         /\ pending' \in [Keys -> Seq(MaybeRoutes)]
<1>1. Append(pending[k], r) \in Seq(MaybeRoutes)
  BY DEF StoreTypeOK, MaybeRoutes
<1> QED
  BY <1>1 DEF Store, StoreTypeOK, MaybeRoutes

\* The worker goes on with another call.
LEMMA CallTyped ==
  ASSUME TypeInv, pc # "idle",
         NEW step \in Steps \ {"idle"}, NEW r \in Routes, NEW current \in BOOLEAN,
         Call(step, r, current)
  PROVE  WorkerTypeOK'
BY DEF Call, TypeInv, WorkerTypeOK, MaybeRoutes

\* The worker ends its reconcile.
LEMMA ReturnTyped ==
  ASSUME TypeInv, pc # "idle", Return \/ Requeue
  PROVE  WorkerTypeOK'
BY DEF Return, Requeue, Idle, TypeInv, WorkerTypeOK, MaybeRoutes, Steps

\* What follows the finalizer.
LEMMA ProvideTyped ==
  ASSUME TypeInv, pc # "idle", NEW r \in Routes, NEW current \in BOOLEAN, Provide(r, current)
  PROVE  WorkerTypeOK'
BY CallTyped DEF Provide, SendRequest, Steps

\* An update of the Route, whatever becomes of it, keeps every type but the
\* worker's.
LEMMA SaveTyped ==
  ASSUME TypeInv, pc # "idle", NEW r \in MaybeRoutes, Saved(r) \/ SaveFails(r), StoreStep
  PROVE  StoreTypeOK' /\ MailgunTypeOK' /\ RestTypeOK'
<1>1. key \in Keys
  BY DEF TypeInv, WorkerTypeOK
<1>2. /\ routes' \in [Keys -> MaybeRoutes]
      /\ pending' \in [Keys -> Seq(MaybeRoutes)]
  <2>1. CASE Store(key, r)
    BY <1>1, <2>1, StoreTyped DEF TypeInv
  <2>2. CASE UNCHANGED <<routes, pending>>
    BY <2>2 DEF TypeInv, StoreTypeOK, MaybeRoutes
  <2> QED
    BY <2>1, <2>2 DEF Saved, SaveFails
<1>3. faults' \in Nat
  BY DEF Saved, SaveFails, NoFault, Fault, TypeInv, RestTypeOK
<1> QED
  BY <1>2, <1>3 DEF StoreStep, mailgunVars, TypeInv, StoreTypeOK, MailgunTypeOK, RestTypeOK,
                    MaybeRoutes

\* A step that only reads keeps every type but the worker's.
LEMMA ReadTyped ==
  ASSUME TypeInv, ReadStep, NoFault \/ Fault
  PROVE  StoreTypeOK' /\ MailgunTypeOK' /\ RestTypeOK'
BY DEF ReadStep, NoFault, Fault, storeVars, mailgunVars, TypeInv, StoreTypeOK, MailgunTypeOK,
       RestTypeOK

-----------------------------------------------------------------------------
(* The steps of the worker. *)

\* Get: the copy is the cached version.
LEMMA GetTyped ==
  ASSUME TypeInv, Get
  PROVE  TypeInv'
<1> DEFINE r == cache[key]
           current == pending[key] = <<>>
<1>1. pc # "idle" /\ key \in Keys /\ current \in BOOLEAN
  BY DEF Get, TypeInv, WorkerTypeOK
<1>2. r # Nil => r \in Routes
  BY <1>1 DEF TypeInv, StoreTypeOK
<1>3. WorkerTypeOK'
  <2>1. CASE Return
    BY <1>1, <2>1, ReturnTyped
  <2>2. CASE r # Nil /\ \E step \in {"addFinalizer", "release", "delGetRoute"} : Call(step, r, current)
    BY <1>1, <1>2, <2>2, CallTyped DEF Steps
  <2>3. CASE r # Nil /\ Provide(r, current)
    BY <1>1, <1>2, <2>3, ProvideTyped
  <2> QED
    BY <2>1, <2>2, <2>3 DEF Get
<1> QED
  BY <1>3, ReadTyped DEF Get, TypeInv

\* The steps that save the Route.
LEMMA SaveStepsTyped ==
  ASSUME TypeInv,
         \/ AddFinalizer \/ SaveWait \/ SaveUpdateFailed \/ SaveCreateFailed \/ SaveId \/ Claim
         \/ SaveDeleteFailed \/ Release
  PROVE  TypeInv'
<1> DEFINE claimed == [obj EXCEPT !.finalizer = TRUE]
<1>1. pc # "idle" /\ obj \in Routes /\ StoreStep
  BY DEF AddFinalizer, SaveWait, SaveUpdateFailed, SaveCreateFailed, SaveId, Claim,
         SaveDeleteFailed, Release, TypeInv, WorkerTypeOK
<1>2. claimed \in Routes /\ Released(obj) \in MaybeRoutes /\ obj \in MaybeRoutes
  BY <1>1, ChangedTyped, ReleasedTyped DEF MaybeRoutes
<1>3. \E r \in MaybeRoutes : Saved(r) \/ SaveFails(r)
  <2>1. CASE AddFinalizer
    <3>1. claimed \in MaybeRoutes /\ (Saved(claimed) \/ SaveFails(claimed))
      BY <1>2, <2>1 DEF AddFinalizer, MaybeRoutes
    <3> QED
      BY <3>1
  <2>2. CASE Release
    <3>1. Saved(Released(obj)) \/ SaveFails(Released(obj))
      BY <2>2 DEF Release
    <3> QED
      BY <1>2, <3>1
  <2>3. CASE \/ SaveWait \/ SaveUpdateFailed \/ SaveCreateFailed \/ SaveId \/ Claim \/ SaveDeleteFailed
    <3>1. Saved(obj) \/ SaveFails(obj)
      BY <2>3 DEF SaveWait, SaveUpdateFailed, SaveCreateFailed, SaveId, Claim, SaveDeleteFailed
    <3> QED
      BY <1>2, <3>1
  <2> QED
    BY <2>1, <2>2, <2>3
<1>4. WorkerTypeOK'
  <2>1. CASE Return \/ Requeue
    BY <1>1, <2>1, ReturnTyped
  <2>2. CASE Provide(claimed, TRUE)
    BY <1>1, <1>2, <2>2, ProvideTyped
  <2>3. CASE Call("claim", claimed, TRUE)
    BY <1>1, <1>2, <2>3, CallTyped DEF Steps
  <2> QED
    BY <2>1, <2>2, <2>3
    DEF AddFinalizer, SaveWait, SaveUpdateFailed, SaveCreateFailed, SaveId, Claim,
        SaveDeleteFailed, Release
<1> QED
  BY <1>1, <1>3, <1>4, SaveTyped DEF TypeInv

\* The steps that ask Mailgun something.
LEMMA ReadStepsTyped ==
  ASSUME TypeInv, GetDomain \/ GetRoute \/ DelGetRoute
  PROVE  TypeInv'
<1>1. pc # "idle" /\ obj \in Routes /\ fresh \in BOOLEAN
  BY DEF GetDomain, GetRoute, DelGetRoute, TypeInv, WorkerTypeOK
<1>2. ReadStep /\ (NoFault \/ Fault)
  BY DEF GetDomain, GetRoute, DelGetRoute, FailsUnless
<1>3. WithError(obj, "domain") \in Routes /\ WithError(obj, "inactive") \in Routes
  BY <1>1, ChangedTyped DEF Errors
<1>4. WorkerTypeOK'
  <2>1. CASE Return
    BY <1>1, <2>1, ReturnTyped
  <2>2. CASE \E step \in {"getRoute", "createRoute", "updateRoute", "deleteRoute", "release"} :
               Call(step, obj, fresh)
    BY <1>1, <2>2, CallTyped DEF Steps
  <2>3. CASE \E e \in {"domain", "inactive"} : Call("saveWait", WithError(obj, e), fresh)
    BY <1>1, <1>3, <2>3, CallTyped DEF Steps
  <2> QED
    BY <2>1, <2>2, <2>3 DEF GetDomain, GetRoute, DelGetRoute, SendRequest
<1> QED
  BY <1>2, <1>4, ReadTyped DEF TypeInv

\* The steps that change the routes at Mailgun.
LEMMA MailgunStepsTyped ==
  ASSUME TypeInv, UpdateRoute \/ CreateRoute \/ DeleteRoute
  PROVE  TypeInv'
<1>1. pc # "idle" /\ obj \in Routes /\ fresh \in BOOLEAN
  BY DEF UpdateRoute, CreateRoute, DeleteRoute, TypeInv, WorkerTypeOK
<1>2. /\ \A e \in {"create", "update", "delete"} : WithError(obj, e) \in Routes
      /\ \A i \in Nat : [obj EXCEPT !.id = i] \in Routes
  BY <1>1, ChangedTyped DEF Errors
<1>3. posted \in Seq(PostedRoutes \cup {Nil})
  BY DEF TypeInv, MailgunTypeOK
<1>4. posted' \in Seq(PostedRoutes \cup {Nil})
  <2>1. CASE Put(obj)
    <3>1. obj.id \in DOMAIN posted /\ posted[obj.id] \in PostedRoutes
      BY <1>3, <2>1 DEF Put, Exists
    <3>2. Merged(posted[obj.id].request, obj.spec.request) \in Requests
      BY <1>1, <3>1, MergedTyped DEF PostedRoutes, Routes, Specs
    <3>3. obj.spec.domain \in Domains \cup {NoDomain}
      BY <1>1 DEF Routes, Specs
    <3>4. [posted[obj.id] EXCEPT !.request = Merged(posted[obj.id].request, obj.spec.request),
                                 !.domain = obj.spec.domain] \in PostedRoutes
      BY <3>1, <3>2, <3>3 DEF PostedRoutes
    <3>5. posted' = [posted EXCEPT ![obj.id] =
            [posted[obj.id] EXCEPT !.request = Merged(posted[obj.id].request, obj.spec.request),
                                   !.domain = obj.spec.domain]]
      BY <1>3, <2>1, <3>1 DEF Put
    <3> QED
      BY <1>3, <3>1, <3>4, <3>5
  <2>2. CASE Post(obj)
    <3>1. [owner |-> obj.uid, request |-> obj.spec.request, domain |-> obj.spec.domain]
            \in PostedRoutes
      BY <1>1 DEF PostedRoutes, Routes, Specs
    <3> QED
      BY <1>3, <2>2, <3>1 DEF Post
  <2>3. CASE Remove(obj.id)
    BY <1>3, <2>3 DEF Remove, Exists
  <2>4. CASE UNCHANGED posted
    BY <1>3, <2>4
  <2> QED
    BY <2>1, <2>2, <2>3, <2>4 DEF UpdateRoute, CreateRoute, DeleteRoute
<1>5. WorkerTypeOK'
  <2>1. CASE UpdateRoute
    BY <1>1, <1>2, <2>1, CallTyped, ReturnTyped DEF UpdateRoute, Steps
  <2>2. CASE CreateRoute
    <3>1. Len(posted') \in Nat
      BY <1>4
    <3>2. [obj EXCEPT !.id = Len(posted')] \in Routes
      BY <1>2, <3>1
    <3>3. CASE Call("saveId", [obj EXCEPT !.id = Len(posted')], fresh)
      BY <1>1, <3>2, <3>3, CallTyped DEF Steps
    <3>4. CASE Call("saveCreateFailed", WithError(obj, "create"), fresh)
      BY <1>1, <1>2, <3>4, CallTyped DEF Steps
    <3> QED
      BY <2>2, <3>3, <3>4 DEF CreateRoute
  <2>3. CASE DeleteRoute
    BY <1>1, <1>2, <2>3, CallTyped DEF DeleteRoute, Steps
  <2> QED
    BY <2>1, <2>2, <2>3
<1>6. faults' \in Nat
  BY DEF UpdateRoute, CreateRoute, DeleteRoute, FailsUnless, NoFault, Fault, TypeInv, RestTypeOK
<1>7. MailgunStep
  BY DEF UpdateRoute, CreateRoute, DeleteRoute
<1> QED
  BY <1>4, <1>5, <1>6, <1>7 DEF MailgunStep, storeVars, TypeInv, StoreTypeOK, MailgunTypeOK,
                                RestTypeOK

\* Every step of the worker.
LEMMA ReconcileTyped ==
  ASSUME TypeInv, Reconcile
  PROVE  TypeInv'
BY GetTyped, SaveStepsTyped, ReadStepsTyped, MailgunStepsTyped DEF Reconcile

-----------------------------------------------------------------------------
(* The steps of the manager, of users and of Mailgun. *)

\* The queue, the timers and the informer.
LEMMA ManagerTyped ==
  ASSUME TypeInv, NEW k \in Keys, Dequeue(k) \/ Deliver(k) \/ TimerFires(k)
  PROVE  TypeInv'
<1>1. CASE Dequeue(k)
  BY <1>1 DEF Dequeue, storeVars, mailgunVars, TypeInv, StoreTypeOK, MailgunTypeOK,
              WorkerTypeOK, RestTypeOK, Steps
<1>2. CASE Deliver(k)
  <2>1. /\ Head(pending[k]) \in MaybeRoutes
        /\ Tail(pending[k]) \in Seq(MaybeRoutes)
    BY <1>2 DEF Deliver, NextVersion, TypeInv, StoreTypeOK, MaybeRoutes
  <2>2. cache' \in [Keys -> MaybeRoutes] /\ pending' \in [Keys -> Seq(MaybeRoutes)]
    BY <2>1, <1>2 DEF Deliver, NextVersion, TypeInv, StoreTypeOK, MaybeRoutes
  <2> QED
    BY <2>2, <1>2 DEF Deliver, mailgunVars, workerVars, TypeInv, StoreTypeOK, MailgunTypeOK,
                      WorkerTypeOK, RestTypeOK, MaybeRoutes
<1>3. CASE TimerFires(k)
  BY <1>3 DEF TimerFires, storeVars, mailgunVars, workerVars, TypeInv, StoreTypeOK,
              MailgunTypeOK, WorkerTypeOK, RestTypeOK
<1> QED
  BY <1>1, <1>2, <1>3

\* A restart.
LEMMA RestartTyped ==
  ASSUME TypeInv, Restart
  PROVE  TypeInv'
<1>1. WorkerTypeOK' /\ RestTypeOK'
  <2>1. delayed' \subseteq Keys /\ queue' \subseteq Keys
    BY DEF Restart
  <2>2. restarts' \in Nat /\ faults' \in Nat
    BY DEF Restart, TypeInv, RestTypeOK
  <2>3. pc' = "idle" /\ key' = Nil /\ obj' = Nil /\ fresh' = FALSE
    BY DEF Restart, Idle
  <2> QED
    BY <2>1, <2>2, <2>3 DEF WorkerTypeOK, RestTypeOK, Steps, MaybeRoutes
<1>2. <<>> \in Seq(MaybeRoutes)
  OBVIOUS
<1>3. pending' \in [Keys -> Seq(MaybeRoutes)]
  BY <1>2 DEF Restart
<1> QED
  BY <1>1, <1>3 DEF Restart, mailgunVars, TypeInv, StoreTypeOK, MailgunTypeOK, MaybeRoutes

\* What users store at a key.
LEMMA UsersWriteTyped ==
  ASSUME TypeInv, NEW k \in Keys, UsersWrite(k)
  PROVE  TypeInv'
<1>1. \E r \in MaybeRoutes : Store(k, r)
  <2>1. CASE UserCreate(k)
    <3> DEFINE New(s) == [uid |-> uids + 1, spec |-> s, deleting |-> FALSE, finalizer |-> FALSE,
                          id |-> 0, error |-> ""]
    <3>1. PICK s \in SpecsOf[k] : Store(k, New(s))
      BY <2>1 DEF UserCreate
    <3>2. s \in Specs /\ uids + 1 \in Nat
      BY RouteStoreAssumption DEF TypeInv, StoreTypeOK
    <3>3. New(s) \in Routes
      BY <3>2 DEF Routes, Errors
    <3> QED
      BY <3>1, <3>3 DEF MaybeRoutes
  <2>2. CASE UserEdit(k)
    <3>1. PICK s \in SpecsOf[k] : Store(k, [routes[k] EXCEPT !.spec = s])
      BY <2>2 DEF UserEdit
    <3>2. s \in Specs /\ routes[k] \in Routes
      BY <2>2, RouteStoreAssumption DEF UserEdit, TypeInv, StoreTypeOK
    <3>3. [routes[k] EXCEPT !.spec = s] \in Routes
      BY <3>2 DEF Routes
    <3> QED
      BY <3>1, <3>3 DEF MaybeRoutes
  <2>3. CASE UserDelete(k)
    <3>1. routes[k] \in Routes
      BY <2>3 DEF UserDelete, TypeInv, StoreTypeOK
    <3>2. [routes[k] EXCEPT !.deleting = TRUE] \in Routes
      BY <3>1 DEF Routes
    <3> QED
      BY <3>2, <2>3 DEF UserDelete, MaybeRoutes
  <2> QED
    BY <2>1, <2>2, <2>3 DEF UsersWrite
<1>2. /\ routes' \in [Keys -> MaybeRoutes]
      /\ pending' \in [Keys -> Seq(MaybeRoutes)]
  BY <1>1, StoreTyped DEF TypeInv
<1>3. uids' \in Nat /\ edits' \in Nat
  <2>1. uids' \in {uids, uids + 1} /\ edits' \in {edits, edits + 1}
    BY DEF UsersWrite, UserCreate, UserEdit, UserDelete
  <2> QED
    BY <2>1 DEF TypeInv, StoreTypeOK
<1>4. fresh' \in BOOLEAN
  BY DEF UsersWrite
<1> QED
  BY <1>2, <1>3, <1>4 DEF UsersWrite, mailgunVars, TypeInv, StoreTypeOK, MailgunTypeOK,
                          WorkerTypeOK, RestTypeOK, MaybeRoutes

\* What happens at Mailgun without the controller.
LEMMA MailgunMovesTyped ==
  ASSUME TypeInv, MailgunMoves
  PROVE  TypeInv'
<1>1. MailgunTypeOK'
  <2>1. CASE \E n \in Domains : DomainMoves(n)
    <3>1. posted' = posted /\ byHand' = byHand
      BY <2>1 DEF DomainMoves
    <3>2. domainState' \in [Domains -> {"absent", "unverified", "active"}]
      BY <2>1 DEF DomainMoves, TypeInv, MailgunTypeOK
    <3> QED
      BY <3>1, <3>2 DEF TypeInv, MailgunTypeOK
  <2>2. CASE \E i \in DOMAIN posted : RemovedByHand(i)
    <3>1. posted' \in Seq(PostedRoutes \cup {Nil})
      BY <2>2 DEF RemovedByHand, Remove, TypeInv, MailgunTypeOK
    <3>2. byHand' \in Nat /\ domainState' = domainState
      BY <2>2 DEF RemovedByHand, TypeInv, MailgunTypeOK
    <3> QED
      BY <3>1, <3>2 DEF TypeInv, MailgunTypeOK
  <2> QED
    BY <2>1, <2>2 DEF MailgunMoves
<1> QED
  BY <1>1 DEF MailgunMoves, storeVars, workerVars, TypeInv, StoreTypeOK, WorkerTypeOK, RestTypeOK

-----------------------------------------------------------------------------
\* The initial state has the types.
LEMMA InitTyped == Init => TypeInv
<1> SUFFICES ASSUME Init PROVE TypeInv
  OBVIOUS
<1>1. <<>> \in Seq(MaybeRoutes) /\ <<>> \in Seq(PostedRoutes \cup {Nil})
  OBVIOUS
<1> QED
  BY <1>1 DEF Init, StoreInit, MailgunInit, TypeInv, StoreTypeOK, MailgunTypeOK, WorkerTypeOK,
              RestTypeOK, Steps, MaybeRoutes

\* Every step keeps them.
LEMMA NextTyped == TypeInv /\ [Next]_vars => TypeInv'
<1> SUFFICES ASSUME TypeInv, [Next]_vars PROVE TypeInv'
  OBVIOUS
<1>1. CASE Next
  BY <1>1, ReconcileTyped, RestartTyped, ManagerTyped, UsersWriteTyped, MailgunMovesTyped
  DEF Next
<1>2. CASE UNCHANGED vars
  BY <1>2 DEF vars, storeVars, mailgunVars, workerVars, TypeInv, StoreTypeOK, MailgunTypeOK,
              WorkerTypeOK, RestTypeOK
<1> QED
  BY <1>1, <1>2

\* The inductive invariant behind TypeOK.
THEOREM TypeInvariance == Spec => []TypeInv
BY InitTyped, NextTyped, PTL DEF Spec

\* Whatever calls fail, whoever writes and whenever the manager restarts, the
\* objects in the store, in the cache and in memory are Route objects, and the
\* routes at Mailgun are what the controller asks for.
THEOREM TypeCorrect == Spec => []TypeOK
<1>1. TypeInv => TypeOK
  BY DEF TypeInv, WorkerTypeOK, RestTypeOK, TypeOK, MaybeRoutes
<1> QED
  BY <1>1, TypeInvariance, PTL

-----------------------------------------------------------------------------
(* What the worker and users do to a Route. *)

Working == pc \notin {"idle", "get"}

\* The calls on a deleted Route.
DelSteps == {"delGetRoute", "deleteRoute", "saveDeleteFailed", "release"}

\* What the worker may store at its key.
Written(r) ==
  \/ pc = "release" /\ obj.deleting /\ r = Nil
  \/ /\ pc = "release" => ~obj.deleting
     /\ r \in Routes
     /\ SameObject(r, obj) /\ r.id = obj.id
     /\ \/ r.finalizer = obj.finalizer
        \/ pc = "addFinalizer" /\ r.finalizer = TRUE
        \/ pc = "release" /\ ~r.finalizer

\* The three kinds of worker steps: it ends, it reads its copy, it goes on.
Ending ==
  /\ pc' = "idle" /\ ~fresh'
  /\ \/ UNCHANGED <<routes, pending>>
     \/ Working /\ fresh /\ \E r \in MaybeRoutes : Written(r) /\ Store(key, r)

Reading ==
  /\ pc = "get" /\ Working' /\ pc' \notin {"saveId", "claim"}
  /\ cache[key] # Nil /\ obj' = cache[key] /\ key' = key
  /\ fresh' <=> pending[key] = <<>>
  /\ pc' \in {"createRoute", "release"} => obj'.id = 0
  /\ pc' \in DelSteps => obj'.deleting
  /\ UNCHANGED <<routes, pending>>

GoingOn ==
  /\ Working /\ Working'
  /\ key' = key /\ obj' \in Routes
  /\ SameObject(obj', obj)
  /\ pc' \in DelSteps => pc \in DelSteps
  /\ pc' = "createRoute" => obj'.id = 0
  /\ pc' = "claim" => obj'.finalizer = TRUE
  /\ \/ /\ UNCHANGED <<routes, pending>>
        /\ fresh' = fresh
        /\ obj'.finalizer = obj.finalizer
        /\ pc \notin {"saveId", "claim"} /\ pc' # "claim"
        /\ IF pc' = "saveId" THEN pc = "createRoute" /\ obj'.id = Len(posted')
                             ELSE obj'.id = obj.id
     \/ /\ fresh /\ fresh' = TRUE
        /\ \E r \in Routes : /\ Written(r) /\ Store(key, r)
                             /\ SameObject(r, obj') /\ r.id = obj'.id
                             /\ pc' # "claim" => r.finalizer = obj'.finalizer
        /\ pc' # "saveId"

\* The outcomes of an update of the Route.
LEMMA SaveShape ==
  ASSUME NEW r, Saved(r) \/ SaveFails(r)
  PROVE  UNCHANGED <<routes, pending>> \/ (fresh /\ Store(key, r))
BY DEF Saved, SaveFails

\* Provide goes on with one of three calls.
LEMMA ProvideShape ==
  ASSUME NEW r, NEW current, Provide(r, current)
  PROVE  /\ pc' \in {"getDomain", "getRoute", "createRoute"}
         /\ obj' = r /\ key' = key /\ fresh' = current
         /\ pc' = "createRoute" => r.id = 0
BY DEF Provide, SendRequest, Call

\* The steps that save the Route as it is, and end.
LEMMA SaveStepsShape ==
  ASSUME TypeInv,
         SaveWait \/ SaveUpdateFailed \/ SaveCreateFailed \/ Claim \/ SaveDeleteFailed \/ Release
  PROVE  Ending
<1>1. /\ Working
      /\ pc' = "idle" /\ ~fresh'
      /\ obj \in Routes
  BY DEF SaveWait, SaveUpdateFailed, SaveCreateFailed, Claim, SaveDeleteFailed, Release,
         Return, Requeue, Idle, Working, TypeInv, WorkerTypeOK
<1>2. CASE Release
  <2>1. Saved(Released(obj)) \/ SaveFails(Released(obj))
    BY <1>2 DEF Release
  <2>2. Released(obj) \in MaybeRoutes /\ Written(Released(obj))
    <3>1. CASE obj.deleting /\ Released(obj) = Nil
      BY <1>2, <3>1 DEF Release, Written, MaybeRoutes
    <3>2. CASE ~obj.deleting
      <4>1. Released(obj).finalizer = FALSE
        BY <1>1, <3>2 DEF Released, Routes
      <4> QED
        BY <1>1, <1>2, <3>2, <4>1, ReleasedTyped DEF Release, Written, MaybeRoutes
    <3> QED
      BY <1>1, <3>1, <3>2, ReleasedTyped DEF Routes
  <2> QED
    BY <1>1, <2>1, <2>2, SaveShape DEF Ending
<1>3. CASE SaveWait \/ SaveUpdateFailed \/ SaveCreateFailed \/ Claim \/ SaveDeleteFailed
  <2>1. Saved(obj) \/ SaveFails(obj)
    BY <1>3 DEF SaveWait, SaveUpdateFailed, SaveCreateFailed, Claim, SaveDeleteFailed
  <2>2. obj \in MaybeRoutes /\ Written(obj)
    BY <1>1, <1>3
    DEF SaveWait, SaveUpdateFailed, SaveCreateFailed, Claim, SaveDeleteFailed, Written, MaybeRoutes,
        SameObject
  <2> QED
    BY <1>1, <2>1, <2>2, SaveShape DEF Ending
<1> QED
  BY <1>2, <1>3

\* The two steps that save the Route and may go on.
LEMMA AddFinalizerShape ==
  ASSUME TypeInv, AddFinalizer \/ SaveId
  PROVE  Ending \/ GoingOn
<1> DEFINE claimed == [obj EXCEPT !.finalizer = TRUE]
<1>1. Working /\ obj \in Routes
  BY DEF AddFinalizer, SaveId, Working, TypeInv, WorkerTypeOK
<1>2. claimed \in Routes /\ SameObject(claimed, obj) /\ claimed.id = obj.id /\ claimed.finalizer = TRUE
  BY <1>1, ChangedTyped
<1>3. SameObject(obj, claimed)
  BY <1>2 DEF SameObject
<1>4. CASE AddFinalizer
  <2>1. Written(claimed)
    BY <1>2, <1>4 DEF AddFinalizer, Written
  <2>2. \/ Saved(claimed) /\ Provide(claimed, TRUE)
        \/ SaveFails(claimed) /\ Requeue
    BY <1>4 DEF AddFinalizer
  <2> HIDE DEF claimed
  <2>3. CASE Saved(claimed) /\ Provide(claimed, TRUE)
    <3>1. /\ pc' \in {"getDomain", "getRoute", "createRoute"}
          /\ obj' = claimed /\ key' = key /\ fresh' = TRUE
          /\ pc' = "createRoute" => claimed.id = 0
      BY <2>3, ProvideShape
    <3>2. fresh /\ Store(key, claimed) /\ SameObject(claimed, claimed)
      BY <2>3 DEF Saved, SameObject
    <3> QED
      BY <1>1, <1>2, <2>1, <3>1, <3>2 DEF GoingOn, Working, DelSteps
  <2>4. CASE SaveFails(claimed) /\ Requeue
    BY <1>1, <1>2, <2>1, <2>4, SaveShape DEF Requeue, Idle, Ending, MaybeRoutes
  <2> QED
    BY <2>2, <2>3, <2>4
<1>5. CASE SaveId
  <2>1. Written(obj)
    BY <1>1, <1>5 DEF SaveId, Written, SameObject
  <2>2. \/ Saved(obj) /\ Call("claim", claimed, TRUE)
        \/ SaveFails(obj) /\ Requeue
    BY <1>5 DEF SaveId
  <2> HIDE DEF claimed
  <2>3. CASE Saved(obj) /\ Call("claim", claimed, TRUE)
    BY <1>1, <1>2, <1>3, <2>1, <2>3 DEF Saved, Call, GoingOn, Working, DelSteps
  <2>4. CASE SaveFails(obj) /\ Requeue
    BY <1>1, <2>1, <2>4, SaveShape DEF Requeue, Idle, Ending, MaybeRoutes
  <2> QED
    BY <2>2, <2>3, <2>4
<1> QED
  BY <1>4, <1>5

\* The steps that ask or change Mailgun.
LEMMA CallsShape ==
  ASSUME TypeInv,
         GetDomain \/ GetRoute \/ UpdateRoute \/ CreateRoute \/ DelGetRoute \/ DeleteRoute
  PROVE  Ending \/ GoingOn
<1>1. Working /\ obj \in Routes /\ UNCHANGED <<routes, pending>> /\ pc \notin {"saveId", "claim"}
  BY DEF GetDomain, GetRoute, UpdateRoute, CreateRoute, DelGetRoute, DeleteRoute, ReadStep,
         MailgunStep, storeVars, Working, TypeInv, WorkerTypeOK
<1>2. CASE Return
  BY <1>1, <1>2 DEF Return, Idle, Ending
<1>3. ASSUME NEW step \in Steps \ {"idle", "get", "saveId", "claim"}, NEW r \in Routes,
             Call(step, r, fresh), SameObject(r, obj), r.id = obj.id, r.finalizer = obj.finalizer,
             step \in DelSteps => pc \in DelSteps,
             step = "createRoute" => obj.id = 0
      PROVE  GoingOn
  BY <1>1, <1>3 DEF Call, GoingOn, Working
<1>4. /\ SameObject(obj, obj)
      /\ \A e \in Errors : /\ WithError(obj, e) \in Routes /\ SameObject(WithError(obj, e), obj)
                           /\ WithError(obj, e).id = obj.id
                           /\ WithError(obj, e).finalizer = obj.finalizer
  BY <1>1, ChangedTyped DEF SameObject
<1>5. CASE GetDomain \/ GetRoute
  <2>1. \/ Return
        \/ \E e \in {"domain", "inactive"} : Call("saveWait", WithError(obj, e), fresh)
        \/ Call("getRoute", obj, fresh) \/ Call("updateRoute", obj, fresh)
        \/ obj.id = 0 /\ Call("createRoute", obj, fresh)
    BY <1>5 DEF GetDomain, GetRoute, SendRequest
  <2>2. CASE \E e \in {"domain", "inactive"} : Call("saveWait", WithError(obj, e), fresh)
    <3>1. PICK e \in {"domain", "inactive"} : Call("saveWait", WithError(obj, e), fresh)
      BY <2>2
    <3> QED
      BY <1>3, <1>4, <3>1 DEF Steps, Errors, DelSteps
  <2>3. CASE \/ Call("getRoute", obj, fresh) \/ Call("updateRoute", obj, fresh)
             \/ obj.id = 0 /\ Call("createRoute", obj, fresh)
    BY <1>1, <1>3, <1>4, <2>3 DEF Steps, DelSteps
  <2> QED
    BY <1>2, <2>1, <2>2, <2>3
<1>6. CASE UpdateRoute
  <2>1. CASE Call("saveUpdateFailed", WithError(obj, "update"), fresh)
    BY <1>3, <1>4, <2>1 DEF Steps, Errors, DelSteps
  <2> QED
    BY <1>2, <1>6, <2>1 DEF UpdateRoute
<1>7. CASE CreateRoute
  <2>1. CASE Call("saveCreateFailed", WithError(obj, "create"), fresh)
    BY <1>3, <1>4, <2>1 DEF Steps, Errors, DelSteps
  <2>2. CASE Post(obj) /\ Call("saveId", [obj EXCEPT !.id = Len(posted')], fresh)
    <3> DEFINE i == Len(posted')
               r == [obj EXCEPT !.id = i]
    <3>1. posted' \in Seq(PostedRoutes \cup {Nil})
      BY <1>7, MailgunStepsTyped DEF TypeInv, MailgunTypeOK
    <3>2. i \in Nat
      BY <3>1
    <3>3. r \in Routes /\ SameObject(r, obj) /\ r.id = i /\ r.finalizer = obj.finalizer
      BY <1>1, <3>2, ChangedTyped
    <3>4. pc' = "saveId" /\ obj' = r /\ fresh' = fresh /\ key' = key
      BY <2>2 DEF Call
    <3>5. pc = "createRoute"
      BY <1>7 DEF CreateRoute
    <3> HIDE DEF r
    <3> QED
      BY <1>1, <3>3, <3>4, <3>5 DEF GoingOn, Working, DelSteps
  <2> QED
    BY <1>7, <2>1, <2>2 DEF CreateRoute
<1>8. CASE DelGetRoute \/ DeleteRoute
  <2>1. pc \in DelSteps
    BY <1>8 DEF DelGetRoute, DeleteRoute, DelSteps
  <2>2. CASE Call("saveDeleteFailed", WithError(obj, "delete"), fresh)
    BY <1>3, <1>4, <2>1, <2>2 DEF Steps, Errors, DelSteps
  <2>3. CASE Call("deleteRoute", obj, fresh) \/ Call("release", obj, fresh)
    BY <1>1, <1>3, <1>4, <2>1, <2>3 DEF Steps
  <2> QED
    BY <1>8, <2>2, <2>3 DEF DelGetRoute, DeleteRoute
<1> QED
  BY <1>5, <1>6, <1>7, <1>8

\* Every worker step is of one of the three kinds.
LEMMA ReconcileShape ==
  ASSUME TypeInv, Reconcile
  PROVE  UNCHANGED <<cache, uids, edits>> /\ (Ending \/ Reading \/ GoingOn)
<1>1. UNCHANGED <<cache, uids, edits>>
  BY DEF Reconcile, Get, AddFinalizer, GetDomain, SaveWait, GetRoute, UpdateRoute,
         SaveUpdateFailed, CreateRoute, SaveCreateFailed, SaveId, Claim, DelGetRoute, DeleteRoute,
         SaveDeleteFailed, Release, ReadStep, MailgunStep, StoreStep, storeVars
<1>2. CASE Get
  <2>1. UNCHANGED <<routes, pending>> /\ pc = "get"
    BY <1>2 DEF Get, ReadStep, storeVars
  <2>2. CASE Return
    BY <1>1, <2>1, <2>2 DEF Return, Idle, Ending
  <2>3. CASE /\ cache[key] # Nil /\ ~cache[key].deleting
             /\ Call("addFinalizer", cache[key], pending[key] = <<>>)
    BY <1>1, <2>1, <2>3 DEF Call, Reading, Working, DelSteps
  <2>4. CASE cache[key] # Nil /\ Provide(cache[key], pending[key] = <<>>)
    BY <1>1, <2>1, <2>4, ProvideShape DEF Reading, Working, DelSteps
  <2>5. CASE /\ cache[key] # Nil /\ cache[key].deleting
             /\ Call(IF cache[key].id = 0 THEN "release" ELSE "delGetRoute", cache[key],
                     pending[key] = <<>>)
    BY <1>1, <2>1, <2>5 DEF Call, Reading, Working, DelSteps
  <2> QED
    BY <1>2, <2>1, <2>2, <2>3, <2>4, <2>5 DEF Get
<1> QED
  BY <1>1, <1>2, SaveStepsShape, AddFinalizerShape, CallsShape DEF Reconcile

\* What users store: a new Route, one with another spec, or one marked; and a
\* Route without the finalizer they take away.
Made(k, r) ==
  /\ routes[k] = Nil
  /\ uids' = uids + 1
  /\ r.uid = uids + 1 /\ r.id = 0 /\ ~r.deleting

Changed(k, r) ==
  /\ routes[k] # Nil
  /\ uids' = uids
  /\ r.uid = routes[k].uid /\ r.id = routes[k].id /\ r.finalizer = routes[k].finalizer
  /\ r.deleting = routes[k].deleting \/ (r.deleting /\ r.finalizer)

Taken(k) ==
  /\ routes[k] # Nil
  /\ uids' = uids
  /\ ~routes[k].finalizer

\* Users make, change or take away.
LEMMA UsersShape ==
  ASSUME TypeInv, NEW k \in Keys, UsersWrite(k)
  PROVE  /\ UNCHANGED <<cache, pc, key, obj, mailgunVars>>
         /\ fresh' = (fresh /\ key # k)
         /\ \E r \in MaybeRoutes :
              /\ Store(k, r)
              /\ \/ r = Nil /\ Taken(k)
                 \/ r \in Routes /\ (Made(k, r) \/ Changed(k, r))
<1>1. UNCHANGED <<cache, pc, key, obj, mailgunVars>> /\ fresh' = (fresh /\ key # k)
  BY DEF UsersWrite
<1>2. CASE UserCreate(k)
  <2> DEFINE New(s) == [uid |-> uids + 1, spec |-> s, deleting |-> FALSE, finalizer |-> FALSE,
                        id |-> 0, error |-> ""]
  <2>1. PICK s \in SpecsOf[k] : Store(k, New(s))
    BY <1>2 DEF UserCreate
  <2>2. s \in Specs /\ uids + 1 \in Nat
    BY RouteStoreAssumption DEF TypeInv, StoreTypeOK
  <2>3. New(s) \in Routes
    BY <2>2 DEF Routes, Errors
  <2>4. Made(k, New(s))
    BY <1>2 DEF UserCreate, Made
  <2> QED
    BY <1>1, <2>1, <2>3, <2>4 DEF MaybeRoutes
<1>3. CASE UserEdit(k)
  <2>1. PICK s \in SpecsOf[k] : Store(k, [routes[k] EXCEPT !.spec = s])
    BY <1>3 DEF UserEdit
  <2>2. s \in Specs /\ routes[k] \in Routes
    BY <1>3, RouteStoreAssumption DEF UserEdit, TypeInv, StoreTypeOK
  <2>3. [routes[k] EXCEPT !.spec = s] \in Routes
    BY <2>2 DEF Routes
  <2>4. Changed(k, [routes[k] EXCEPT !.spec = s])
    BY <1>3, <2>2 DEF UserEdit, Changed, Routes
  <2> QED
    BY <1>1, <2>1, <2>3, <2>4 DEF MaybeRoutes
<1>4. CASE UserDelete(k)
  <2>1. routes[k] \in Routes /\ routes[k] # Nil /\ uids' = uids
    BY <1>4 DEF UserDelete, TypeInv, StoreTypeOK
  <2>2. CASE routes[k].finalizer
    <3> DEFINE r == [routes[k] EXCEPT !.deleting = TRUE]
    <3>1. r \in Routes /\ Store(k, r)
      BY <1>4, <2>1, <2>2 DEF UserDelete, Routes
    <3>2. Changed(k, r)
      BY <2>1, <2>2 DEF Changed, Routes
    <3> QED
      BY <1>1, <3>1, <3>2 DEF MaybeRoutes
  <2>3. CASE ~routes[k].finalizer
    BY <1>1, <1>4, <2>1, <2>3 DEF UserDelete, Taken, MaybeRoutes
  <2> QED
    BY <2>2, <2>3
<1> QED
  BY <1>2, <1>3, <1>4 DEF UsersWrite

\* What steps there are besides the worker's.
LEMMA Kinds ==
  ASSUME [Next]_vars
  PROVE  \/ Reconcile
         \/ Restart
         \/ \E j \in Keys : Dequeue(j) \/ Deliver(j) \/ UsersWrite(j)
         \/ UNCHANGED <<routes, cache, pending, uids, workerVars>>
BY DEF Next, vars, storeVars, TimerFires, MailgunMoves

-----------------------------------------------------------------------------
(* What the informer knows. *)

\* What the informer holds of a key, or will.
Versions(k) == {cache[k]} \cup {pending[k][i] : i \in 1..Len(pending[k])}

\* A Route of a key that is stored, cached, on its way, or in memory.
Known(k, r) ==
  /\ r # Nil
  /\ r = routes[k] \/ r \in Versions(k) \/ (Working /\ key = k /\ r = obj)

\* A store step adds one version.
LEMMA VersionsStore ==
  ASSUME TypeInv, NEW j \in Keys, NEW r \in MaybeRoutes, Store(j, r), UNCHANGED cache,
         NEW k \in Keys
  PROVE  /\ routes'[k] = IF k = j THEN r ELSE routes[k]
         /\ \A d \in Versions(k)' : d \in Versions(k) \/ (k = j /\ d = r)
<1>1. /\ routes' = [routes EXCEPT ![j] = r]
      /\ routes \in [Keys -> MaybeRoutes]
      /\ pending \in [Keys -> Seq(MaybeRoutes)]
      /\ pending' = IF r = routes[j] THEN pending
                    ELSE [pending EXCEPT ![j] = Append(pending[j], r)]
  BY DEF Store, TypeInv, StoreTypeOK, MaybeRoutes
<1>2. CASE k = j /\ r # routes[j]
  <2> DEFINE p == pending[k]
             q == Append(p, r)
  <2>1. p \in Seq(MaybeRoutes) /\ pending'[k] = q
    BY <1>1, <1>2
  <2>2. /\ Len(p) \in Nat
        /\ Len(q) = Len(p) + 1
        /\ \A i \in 1..Len(p) : q[i] = p[i]
        /\ q[Len(p) + 1] = r
    BY <2>1
  <2> HIDE DEF p, q
  <2>3. \A i \in 1..Len(q) : q[i] \in {p[m] : m \in 1..Len(p)} \cup {r}
    <3>1. \A i \in 1..Len(q) : i \in 1..Len(p) \/ i = Len(p) + 1
      BY <2>2
    <3> QED
      BY <2>2, <3>1
  <2> QED
    BY <1>1, <1>2, <2>1, <2>3 DEF Versions, p
<1>3. CASE k # j \/ r = routes[j]
  <2>1. pending'[k] = pending[k] /\ cache'[k] = cache[k]
    BY <1>1, <1>3
  <2>2. Versions(k)' = Versions(k)
    BY <2>1 DEF Versions
  <2> QED
    BY <1>1, <1>3, <2>2
<1> QED
  BY <1>2, <1>3

\* A delivery drops one.
LEMMA VersionsDeliver ==
  ASSUME TypeInv, NEW j \in Keys, Deliver(j), NEW k \in Keys
  PROVE  routes'[k] = routes[k] /\ Versions(k)' \subseteq Versions(k)
<1>1. /\ pending[j] # <<>>
      /\ cache' = [cache EXCEPT ![j] = Head(pending[j])]
      /\ pending' = [pending EXCEPT ![j] = Tail(pending[j])]
      /\ routes' = routes
      /\ cache \in [Keys -> MaybeRoutes]
      /\ pending \in [Keys -> Seq(MaybeRoutes)]
  BY DEF Deliver, NextVersion, TypeInv, StoreTypeOK, MaybeRoutes
<1>2. CASE k = j
  <2> DEFINE p == pending[k]
             q == Tail(p)
  <2>1. p \in Seq(MaybeRoutes) /\ p # <<>> /\ pending'[k] = q /\ cache'[k] = Head(p)
    BY <1>1, <1>2
  <2>2. /\ Len(p) \in Nat /\ Len(p) > 0
        /\ Len(q) = Len(p) - 1
        /\ Head(p) = p[1]
        /\ \A i \in 1..Len(p) - 1 : q[i] = p[i + 1]
    BY <2>1
  <2> HIDE DEF p, q
  <2>3. \A i \in 1..Len(q) : \E m \in 1..Len(p) : q[i] = p[m]
    <3> SUFFICES ASSUME NEW i \in 1..Len(q) PROVE \E m \in 1..Len(p) : q[i] = p[m]
      OBVIOUS
    <3>1. i \in 1..Len(p) - 1 /\ i + 1 \in 1..Len(p)
      BY <2>2
    <3> QED
      BY <2>2, <3>1
  <2>4. \E m \in 1..Len(p) : Head(p) = p[m]
    <3>1. 1 \in 1..Len(p)
      BY <2>2
    <3> QED
      BY <2>2, <3>1
  <2> QED
    BY <1>1, <2>1, <2>3, <2>4 DEF Versions, p
<1>3. CASE k # j
  BY <1>1, <1>3 DEF Versions
<1> QED
  BY <1>2, <1>3

\* Forgetting everything but the store leaves one version.
LEMMA VersionsRestart ==
  ASSUME TypeInv, Restart, NEW k \in Keys
  PROVE  routes'[k] = routes[k] /\ Versions(k)' = {routes[k]}
<1>1. routes' = routes /\ cache'[k] = routes[k] /\ pending'[k] = <<>>
  BY DEF Restart
<1>2. Len(pending'[k]) = 0
  BY <1>1
<1> QED
  BY <1>1, <1>2 DEF Versions

-----------------------------------------------------------------------------
(* The copy in memory. *)

\* With nothing on its way to the informer, the cache holds what is stored.
Synced ==
  \A k \in Keys : IF pending[k] = <<>>
                  THEN cache[k] = routes[k]
                  ELSE pending[k][Len(pending[k])] = routes[k]

\* A copy that may be saved is of the Route that is stored, with the id that is
\* stored but for one that has just been made.
CopyOK ==
  fresh =>
    /\ Working
    /\ routes[key] # Nil
    /\ SameObject(obj, routes[key])
    /\ pc # "claim" => obj.finalizer = routes[key].finalizer
    /\ IF pc = "saveId" THEN routes[key].id = 0 ELSE routes[key].id = obj.id

\* A route is created for a Route without an id, and deleted for one that is;
\* the finalizer follows the id.
StepOK ==
  /\ pc = "createRoute" => obj.id = 0
  /\ pc \in DelSteps => obj.deleting
  /\ pc = "claim" => obj.finalizer = TRUE

CopyInv == TypeInv /\ Synced /\ CopyOK /\ StepOK

\* A store step that changes something leaves the informer one version behind.
LEMMA StoreSynced ==
  ASSUME TypeInv, Synced, NEW k \in Keys, NEW r \in MaybeRoutes, Store(k, r), UNCHANGED cache
  PROVE  Synced'
<1> SUFFICES ASSUME NEW j \in Keys
             PROVE  IF pending'[j] = <<>> THEN cache'[j] = routes'[j]
                    ELSE pending'[j][Len(pending'[j])] = routes'[j]
  BY DEF Synced
<1>1. /\ routes' = [routes EXCEPT ![k] = r]
      /\ routes \in [Keys -> MaybeRoutes]
      /\ pending \in [Keys -> Seq(MaybeRoutes)]
      /\ pending' = IF r = routes[k] THEN pending
                    ELSE [pending EXCEPT ![k] = Append(pending[k], r)]
  BY DEF Store, TypeInv, StoreTypeOK, MaybeRoutes
<1>2. CASE j = k /\ r # routes[k]
  <2>1. /\ Append(pending[k], r) # <<>>
        /\ Append(pending[k], r)[Len(Append(pending[k], r))] = r
    <3> DEFINE p == pending[k]
    <3>1. p \in Seq(MaybeRoutes)
      BY <1>1
    <3> HIDE DEF p
    <3>2. Append(p, r) # <<>> /\ Append(p, r)[Len(Append(p, r))] = r
      BY <3>1
    <3> QED
      BY <3>2 DEF p
  <2> QED
    BY <1>1, <1>2, <2>1
<1>3. CASE j # k \/ r = routes[k]
  <2>1. pending'[j] = pending[j] /\ routes'[j] = routes[j] /\ cache'[j] = cache[j]
    BY <1>1, <1>3
  <2> QED
    BY <2>1 DEF Synced
<1> QED
  BY <1>2, <1>3

\* A delivery leaves it one less behind.
LEMMA DeliverSynced ==
  ASSUME TypeInv, Synced, NEW k \in Keys, Deliver(k)
  PROVE  Synced'
<1> SUFFICES ASSUME NEW j \in Keys
             PROVE  IF pending'[j] = <<>> THEN cache'[j] = routes'[j]
                    ELSE pending'[j][Len(pending'[j])] = routes'[j]
  BY DEF Synced
<1>1. /\ pending[k] # <<>>
      /\ cache' = [cache EXCEPT ![k] = Head(pending[k])]
      /\ pending' = [pending EXCEPT ![k] = Tail(pending[k])]
      /\ routes' = routes
      /\ cache \in [Keys -> MaybeRoutes]
      /\ pending \in [Keys -> Seq(MaybeRoutes)]
  BY DEF Deliver, NextVersion, TypeInv, StoreTypeOK, MaybeRoutes
<1>2. CASE j = k
  <2> DEFINE p == pending[k]
  <2>1. p \in Seq(MaybeRoutes) /\ p # <<>> /\ p[Len(p)] = routes[k]
    BY <1>1 DEF Synced
  <2>2. IF Tail(p) = <<>> THEN Head(p) = p[Len(p)] ELSE Tail(p)[Len(Tail(p))] = p[Len(p)]
    <3> HIDE DEF p
    <3>1. /\ Len(p) \in Nat /\ Len(p) > 0
          /\ Len(Tail(p)) = Len(p) - 1
          /\ Head(p) = p[1]
          /\ Tail(p) \in Seq(MaybeRoutes)
          /\ \A i \in 1..Len(p) - 1 : Tail(p)[i] = p[i + 1]
      BY <2>1
    <3>2. Tail(p) = <<>> <=> Len(Tail(p)) = 0
      BY <3>1, EmptySeq
    <3>3. CASE Len(p) = 1
      BY <3>1, <3>2, <3>3
    <3>4. CASE Len(p) # 1
      <4>1. Len(p) - 1 \in 1..Len(p) - 1 /\ Tail(p) # <<>>
        BY <3>1, <3>2, <3>4
      <4> QED
        BY <3>1, <4>1
    <3> QED
      BY <3>3, <3>4
  <2> QED
    BY <1>1, <1>2, <2>1, <2>2
<1>3. CASE j # k
  BY <1>1, <1>3 DEF Synced
<1> QED
  BY <1>2, <1>3

\* What the worker stores has the fields the copy has.
LEMMA WorkerStores ==
  ASSUME CopyInv, Reconcile
  PROVE  \/ UNCHANGED <<routes, pending>>
         \/ /\ Working /\ fresh /\ key \in Keys
            /\ \E r \in MaybeRoutes : Written(r) /\ Store(key, r)
<1>1. Working => key \in Keys
  BY DEF CopyInv, TypeInv, WorkerTypeOK, Working
<1> QED
  BY <1>1, ReconcileShape DEF CopyInv, Ending, Reading, GoingOn, MaybeRoutes

\* A worker step keeps the informer's versions in step with the store.
LEMMA ReconcileSynced ==
  ASSUME CopyInv, Reconcile
  PROVE  Synced'
<1>1. UNCHANGED cache
  BY ReconcileShape DEF CopyInv
<1>2. CASE UNCHANGED <<routes, pending>>
  BY <1>1, <1>2 DEF CopyInv, Synced
<1>3. CASE key \in Keys /\ \E r \in MaybeRoutes : Store(key, r)
  BY <1>1, <1>3, StoreSynced DEF CopyInv
<1> QED
  BY <1>2, <1>3, WorkerStores

\* And the copy in step with the stored Route.
LEMMA ReconcileCopyOK ==
  ASSUME CopyInv, Reconcile
  PROVE  CopyOK' /\ StepOK'
<1>1. routes \in [Keys -> MaybeRoutes] /\ (pc # "idle" => key \in Keys)
  BY DEF CopyInv, TypeInv, StoreTypeOK, WorkerTypeOK, MaybeRoutes
<1>2. CASE Ending
  BY <1>2 DEF Ending, CopyOK, StepOK, DelSteps
<1>3. CASE Reading
  BY <1>1, <1>3 DEF Reading, CopyOK, StepOK, CopyInv, Synced, SameObject
<1>4. CASE GoingOn
  <2>1. StepOK'
    BY <1>4 DEF GoingOn, CopyInv, StepOK, SameObject
  <2>2. CASE /\ UNCHANGED <<routes, pending>>
             /\ fresh' = fresh
             /\ obj'.finalizer = obj.finalizer
             /\ pc \notin {"saveId", "claim"} /\ pc' # "claim"
             /\ IF pc' = "saveId" THEN pc = "createRoute" /\ obj'.id = Len(posted')
                                  ELSE obj'.id = obj.id
    BY <1>4, <2>2 DEF GoingOn, CopyOK, StepOK, CopyInv, SameObject
  <2>3. CASE /\ \E r \in Routes : /\ Store(key, r)
                                  /\ SameObject(r, obj') /\ r.id = obj'.id
                                  /\ pc' # "claim" => r.finalizer = obj'.finalizer
             /\ pc' # "saveId"
    <3>1. PICK r \in Routes : /\ Store(key, r)
                              /\ SameObject(r, obj') /\ r.id = obj'.id
                              /\ pc' # "claim" => r.finalizer = obj'.finalizer
      BY <2>3
    <3>2. key \in Keys /\ key' = key /\ Working'
      BY <1>1, <1>4 DEF GoingOn, Working
    <3>3. routes'[key] = r /\ r # Nil
      BY <1>1, <3>1, <3>2, RouteStoreAssumption DEF Store
    <3> QED
      BY <2>1, <2>3, <3>1, <3>2, <3>3 DEF CopyOK, SameObject
  <2> QED
    BY <1>4, <2>1, <2>2, <2>3 DEF GoingOn
<1> QED
  BY <1>2, <1>3, <1>4, ReconcileShape DEF CopyInv

\* Initially nothing is stored, cached or copied.
LEMMA InitCopyInv == Init => CopyInv
BY InitTyped DEF Init, StoreInit, CopyInv, Synced, CopyOK, StepOK, DelSteps

\* Every step keeps the informer and the copy in step.
LEMMA NextCopyInv == CopyInv /\ [Next]_vars => CopyInv'
<1> SUFFICES ASSUME CopyInv, [Next]_vars PROVE Synced' /\ CopyOK' /\ StepOK'
  BY NextTyped DEF CopyInv
<1>1. CASE Reconcile
  BY <1>1, ReconcileSynced, ReconcileCopyOK
<1>2. CASE Restart
  BY <1>2 DEF Restart, Idle, Synced, CopyOK, StepOK, DelSteps
<1>3. CASE \E k \in Keys : Deliver(k)
  <2>1. Synced'
    BY <1>3, DeliverSynced DEF CopyInv
  <2>2. UNCHANGED <<routes, workerVars>>
    BY <1>3 DEF Deliver
  <2> QED
    BY <2>1, <2>2 DEF workerVars, CopyInv, CopyOK, StepOK, Working
<1>4. CASE \E k \in Keys : Dequeue(k)
  BY <1>4 DEF Dequeue, storeVars, CopyInv, Synced, CopyOK, StepOK, DelSteps, Working
<1>5. CASE \E k \in Keys : UsersWrite(k)
  <2>1. PICK k \in Keys : UsersWrite(k)
    BY <1>5
  <2>2. PICK r \in MaybeRoutes : Store(k, r)
    BY <2>1, UsersShape DEF CopyInv
  <2>3. UNCHANGED <<cache, pc, key, obj>> /\ fresh' = (fresh /\ key # k)
    BY <2>1, UsersShape DEF CopyInv
  <2>4. Synced'
    BY <2>2, <2>3, StoreSynced DEF CopyInv
  <2>5. CopyOK'
    <3>1. CASE fresh /\ key # k
      <4>1. routes'[key] = routes[key]
        BY <2>2, <3>1 DEF Store, CopyInv, CopyOK, Working, TypeInv, StoreTypeOK, WorkerTypeOK
      <4> QED
        BY <2>3, <3>1, <4>1 DEF CopyInv, CopyOK, Working
    <3>2. CASE ~(fresh /\ key # k)
      BY <2>3, <3>2 DEF CopyOK
    <3> QED
      BY <3>1, <3>2
  <2> QED
    BY <2>3, <2>4, <2>5 DEF CopyInv, StepOK
<1>6. CASE UNCHANGED <<routes, cache, pending, uids, workerVars>>
  BY <1>6 DEF workerVars, CopyInv, Synced, CopyOK, StepOK, Working
<1> QED
  BY <1>1, <1>2, <1>3, <1>4, <1>5, <1>6, Kinds

\* The inductive invariant behind the optimistic lock.
THEOREM CopyInvariance == Spec => []CopyInv
BY InitCopyInv, NextCopyInv, PTL DEF Spec

-----------------------------------------------------------------------------
(* The routes at Mailgun. *)

\* What a step leaves of the routes that are there: numbers are never used
\* twice, a route never changes its owner, and goes only when people or the
\* deletion of a Route delete it.
LEMMA PostedStep ==
  ASSUME TypeInv, [Next]_vars
  PROVE  /\ byHand' = 0 => byHand = 0
         /\ \A i \in DOMAIN posted :
              /\ i \in DOMAIN posted'
              /\ posted'[i] # Nil => posted[i] # Nil /\ posted'[i].owner = posted[i].owner
              /\ posted[i] # Nil /\ posted'[i] = Nil =>
                   byHand' # 0 \/ (Reconcile /\ pc = "deleteRoute" /\ i = obj.id)
<1>1. posted \in Seq(PostedRoutes \cup {Nil}) /\ byHand \in Nat
  BY DEF TypeInv, MailgunTypeOK
<1>2. CASE UNCHANGED <<posted, byHand>>
  BY <1>2
<1>3. CASE Reconcile /\ UNCHANGED byHand /\ pc # "idle" /\ pc # "get" /\ Put(obj)
  <2>1. obj \in Routes
    BY <1>3 DEF TypeInv, WorkerTypeOK
  <2>2. obj.id \in DOMAIN posted /\ posted[obj.id] \in PostedRoutes /\ posted[obj.id] # Nil
    BY <1>1, <1>3 DEF Put, Exists
  <2>3. Merged(posted[obj.id].request, obj.spec.request) \in Requests
    BY <2>1, <2>2, MergedTyped DEF PostedRoutes, Routes, Specs
  <2> DEFINE p == [posted[obj.id] EXCEPT !.request = Merged(posted[obj.id].request, obj.spec.request),
                                         !.domain = obj.spec.domain]
  <2>4. obj.spec.domain \in Domains \cup {NoDomain}
    BY <2>1 DEF Routes, Specs
  <2>5. p \in PostedRoutes /\ p.owner = posted[obj.id].owner
    BY <2>2, <2>3, <2>4 DEF PostedRoutes
  <2>6. posted' = [posted EXCEPT ![obj.id] = p]
    BY <1>1, <1>3, <2>2 DEF Put
  <2> HIDE DEF p
  <2> QED
    BY <1>1, <1>3, <2>2, <2>5, <2>6, MailgunRoutesAssumption
<1>4. CASE UNCHANGED byHand /\ Post(obj)
  <2>1. \E p : posted' = Append(posted, p)
    BY <1>4 DEF Post
  <2> QED
    BY <1>1, <1>4, <2>1
<1>5. CASE Reconcile /\ UNCHANGED byHand /\ pc = "deleteRoute" /\ Remove(obj.id)
  BY <1>1, <1>5 DEF Remove, Exists
<1>6. CASE \E i \in DOMAIN posted : RemovedByHand(i)
  BY <1>1, <1>6 DEF RemovedByHand, Remove, Exists
<1>7. CASE Reconcile
  <2>1. CASE UpdateRoute \/ CreateRoute \/ DeleteRoute
    BY <1>2, <1>3, <1>4, <1>5, <1>7, <2>1 DEF UpdateRoute, CreateRoute, DeleteRoute, MailgunStep
  <2>2. CASE ~(UpdateRoute \/ CreateRoute \/ DeleteRoute)
    BY <1>2, <1>7, <2>2
    DEF Reconcile, Get, AddFinalizer, GetDomain, SaveWait, GetRoute, SaveUpdateFailed,
        SaveCreateFailed, SaveId, Claim, DelGetRoute, SaveDeleteFailed, Release, ReadStep,
        StoreStep, mailgunVars
  <2> QED
    BY <2>1, <2>2
<1>8. CASE Restart \/ (\E k \in Keys : Dequeue(k) \/ Deliver(k) \/ TimerFires(k) \/ UsersWrite(k))
  BY <1>2, <1>8 DEF Restart, Dequeue, Deliver, TimerFires, UsersWrite, mailgunVars
<1>9. CASE (\E n \in Domains : DomainMoves(n)) \/ UNCHANGED vars
  BY <1>2, <1>9 DEF DomainMoves, vars, mailgunVars
<1> QED
  BY <1>6, <1>7, <1>8, <1>9 DEF Next, MailgunMoves

\* A creation that is answered posts a route of the Route in memory.
LEMMA PostedNew ==
  ASSUME TypeInv, Reconcile, pc = "createRoute", pc' = "saveId"
  PROVE  /\ Len(posted') \in DOMAIN posted' /\ Len(posted') # 0
         /\ posted'[Len(posted')] # Nil
         /\ posted'[Len(posted')].owner = obj.uid
<1>1. posted \in Seq(PostedRoutes \cup {Nil}) /\ obj \in Routes
  BY DEF TypeInv, MailgunTypeOK, WorkerTypeOK
<1>2. CreateRoute
  BY DEF Reconcile, Get, AddFinalizer, GetDomain, SaveWait, GetRoute, UpdateRoute,
         SaveUpdateFailed, SaveCreateFailed, SaveId, Claim, DelGetRoute, DeleteRoute,
         SaveDeleteFailed, Release
<1> DEFINE p == [owner |-> obj.uid, request |-> obj.spec.request, domain |-> obj.spec.domain]
<1>3. posted' = Append(posted, p)
  BY <1>2 DEF CreateRoute, Call, Post
<1>4. p \in PostedRoutes /\ p.owner = obj.uid
  BY <1>1 DEF PostedRoutes, Routes, Specs
<1> HIDE DEF p
<1>5. /\ Len(posted') = Len(posted) + 1 /\ Len(posted) \in Nat
      /\ posted'[Len(posted) + 1] = p
      /\ DOMAIN posted' = 1..Len(posted) + 1
  BY <1>1, <1>3, <1>4
<1> QED
  BY <1>4, <1>5, MailgunRoutesAssumption

-----------------------------------------------------------------------------
(* The id in a status. *)

\* A uid is of one key.
UidsOK ==
  \A j, k \in Keys, a, b \in Routes :
    Known(j, a) /\ Known(k, b) /\ a.uid = b.uid => j = k

\* The id of a Route names a route that was made for it, as long as it exists.
OwnId(r) ==
  r.id # 0 => /\ r.id \in DOMAIN posted
              /\ posted[r.id] # Nil => posted[r.id].owner = r.uid

KnownOK ==
  \A k \in Keys, r \in Routes : Known(k, r) => r.uid \in 1..uids /\ OwnId(r)

\* A Route that is marked is never unmarked.
DeletedOK ==
  \A k \in Keys, r \in Routes :
    Known(k, r) /\ r.deleting /\ Live(k) => r.uid # routes[k].uid

\* Unless people interfere, the route of a Route that is not deleted exists, from
\* its creation on.
HeldOK ==
  byHand = 0 =>
    /\ pc = "saveId" => Exists(obj.id)
    /\ \A k \in Keys : Live(k) /\ routes[k].id # 0 => Exists(routes[k].id)

IdsInv == CopyInv /\ UidsOK /\ KnownOK /\ DeletedOK /\ HeldOK

\* A Route that is known after a step comes from one that was, with the same id
\* or one just made, or is new.
Comes(k, d, e) ==
  /\ Known(k, e)
  /\ e.uid = d.uid
  /\ \/ d.id = e.id
     \/ Reconcile /\ pc = "createRoute" /\ pc' = "saveId" /\ e = obj /\ d.id = Len(posted')
  /\ d.deleting = e.deleting \/ (d.deleting /\ d = routes'[k])

Fresh(k, d) == Made(k, d) /\ routes' = [routes EXCEPT ![k] = d]

\* These are all the Routes there are after a step.
LEMMA KnownStep ==
  ASSUME TypeInv, [Next]_vars, NEW k \in Keys, NEW d \in Routes, Known(k, d)'
  PROVE  Fresh(k, d) \/ \E e \in Routes : Comes(k, d, e)
<1> USE RouteStoreAssumption
<1>1. d # Nil /\ (d = routes'[k] \/ d \in Versions(k)' \/ (Working' /\ key' = k /\ d = obj'))
  BY DEF Known
<1>2. ASSUME Known(k, d) PROVE Comes(k, d, d)
  BY <1>2 DEF Comes
<1>3. ASSUME UNCHANGED <<routes, cache, pending>>
      PROVE  routes'[k] = routes[k] /\ Versions(k)' = Versions(k)
  BY <1>3 DEF Versions
<1>4. CASE Reconcile
  <2>1. UNCHANGED cache /\ (Ending \/ Reading \/ GoingOn)
    BY <1>4, ReconcileShape
  <2>2. ASSUME Working, k = key PROVE obj \in Routes /\ Known(k, obj)
    BY <2>2 DEF Known, Working, TypeInv, WorkerTypeOK
  <2>3. ASSUME NEW r \in MaybeRoutes, Store(key, r), Written(r), Working,
               d = routes'[k] \/ d \in Versions(k)'
        PROVE  \E e \in Routes : Comes(k, d, e)
    <3>1. key \in Keys
      BY <2>3 DEF Working, TypeInv, WorkerTypeOK
    <3>2. Known(k, d) \/ (k = key /\ d = r)
      BY <1>1, <2>1, <2>3, <3>1, VersionsStore DEF Known
    <3>3. CASE k = key /\ d = r
      <4>1. r.uid = obj.uid /\ r.id = obj.id /\ r.deleting = obj.deleting
        BY <1>1, <2>3, <3>3 DEF Written, SameObject
      <4> QED
        BY <2>2, <2>3, <3>3, <4>1 DEF Comes
    <3> QED
      BY <1>2, <3>2, <3>3
  <2>4. CASE Ending
    <3>1. ~Working'
      BY <2>4 DEF Ending, Working
    <3>2. CASE UNCHANGED <<routes, pending>>
      BY <1>1, <1>2, <1>3, <2>1, <3>1, <3>2 DEF Known
    <3>3. CASE Working /\ \E r \in MaybeRoutes : Written(r) /\ Store(key, r)
      BY <1>1, <2>3, <3>1, <3>3
    <3> QED
      BY <2>4, <3>2, <3>3 DEF Ending
  <2>5. CASE Reading
    <3>1. UNCHANGED <<routes, cache, pending>> /\ key' = key /\ obj' = cache[key]
      BY <2>1, <2>5 DEF Reading
    <3>2. Known(k, d)
      BY <1>1, <1>3, <3>1 DEF Known, Versions
    <3> QED
      BY <1>2, <3>2
  <2>6. CASE GoingOn
    <3>1. Working /\ key' = key /\ SameObject(obj', obj)
      BY <2>6 DEF GoingOn
    <3>2. CASE /\ UNCHANGED <<routes, pending>>
               /\ IF pc' = "saveId" THEN pc = "createRoute" /\ obj'.id = Len(posted')
                                    ELSE obj'.id = obj.id
      <4>1. CASE d = routes'[k] \/ d \in Versions(k)'
        BY <1>1, <1>2, <1>3, <2>1, <3>2, <4>1 DEF Known
      <4>2. CASE key' = k /\ d = obj'
        BY <1>4, <2>2, <3>1, <3>2, <4>2 DEF Comes, SameObject
      <4> QED
        BY <1>1, <4>1, <4>2
    <3>3. CASE \E r \in Routes : Written(r) /\ Store(key, r) /\ SameObject(r, obj') /\ r.id = obj'.id
      <4>1. PICK r \in Routes : Written(r) /\ Store(key, r) /\ SameObject(r, obj') /\ r.id = obj'.id
        BY <3>3
      <4>2. CASE d = routes'[k] \/ d \in Versions(k)'
        BY <2>3, <3>1, <4>1, <4>2 DEF MaybeRoutes
      <4>3. CASE key' = k /\ d = obj'
        <5>1. r.uid = obj.uid /\ r.id = obj.id /\ r.deleting = obj.deleting
          BY <4>1 DEF Written, SameObject
        <5> QED
          BY <2>2, <3>1, <4>1, <4>3, <5>1 DEF Comes, SameObject
      <4> QED
        BY <1>1, <4>2, <4>3
    <3> QED
      BY <2>6, <3>2, <3>3 DEF GoingOn
  <2> QED
    BY <2>1, <2>4, <2>5, <2>6
<1>5. CASE Restart
  <2>1. ~Working'
    BY <1>5 DEF Restart, Idle, Working
  <2>2. Known(k, d)
    BY <1>1, <1>5, <2>1, VersionsRestart DEF Known
  <2> QED
    BY <1>2, <2>2
<1>6. CASE \E j \in Keys : Dequeue(j)
  <2>1. ~Working' /\ UNCHANGED <<routes, cache, pending>>
    BY <1>6 DEF Dequeue, Working, storeVars
  <2>2. Known(k, d)
    BY <1>1, <1>3, <2>1 DEF Known
  <2> QED
    BY <1>2, <2>2
<1>7. CASE \E j \in Keys : Deliver(j)
  <2>1. UNCHANGED workerVars
    BY <1>7 DEF Deliver
  <2>2. Known(k, d)
    BY <1>1, <1>7, <2>1, VersionsDeliver DEF Known, workerVars, Working
  <2> QED
    BY <1>2, <2>2
<1>8. CASE \E j \in Keys : UsersWrite(j)
  <2>1. PICK j \in Keys : UsersWrite(j)
    BY <1>8
  <2>2. UNCHANGED <<cache, pc, key, obj>>
    BY <2>1, UsersShape
  <2>3. PICK r \in MaybeRoutes :
          /\ Store(j, r)
          /\ \/ r = Nil /\ Taken(j)
             \/ r \in Routes /\ (Made(j, r) \/ Changed(j, r))
    BY <2>1, UsersShape
  <2>4. Known(k, d) \/ (k = j /\ d = r)
    BY <1>1, <2>2, <2>3, VersionsStore DEF Known, Working
  <2>5. CASE k = j /\ d = r
    <3>1. CASE Made(j, r)
      BY <2>3, <2>5, <3>1 DEF Fresh, Store
    <3>2. CASE Changed(j, r)
      <4>1. routes[k] \in Routes /\ Known(k, routes[k])
        BY <2>5, <3>2 DEF Changed, Known, TypeInv, StoreTypeOK, MaybeRoutes
      <4>2. routes'[k] = d
        BY <2>3, <2>5, VersionsStore, <2>2
      <4> QED
        BY <2>5, <3>2, <4>1, <4>2 DEF Changed, Comes
    <3> QED
      BY <1>1, <2>3, <2>5, <3>1, <3>2
  <2> QED
    BY <1>2, <2>4, <2>5
<1>9. CASE UNCHANGED <<routes, cache, pending, uids, workerVars>>
  <2>1. Known(k, d)
    BY <1>1, <1>3, <1>9 DEF Known, workerVars, Working
  <2> QED
    BY <1>2, <2>1
<1> QED
  BY <1>4, <1>5, <1>6, <1>7, <1>8, <1>9, Kinds

\* The count of uids never goes back.
LEMMA UidsGrow ==
  ASSUME TypeInv, [Next]_vars
  PROVE  uids \in Nat /\ uids' \in Nat /\ uids' >= uids
<1>1. uids \in Nat
  BY DEF TypeInv, StoreTypeOK
<1>2. CASE Reconcile
  BY <1>1, <1>2, ReconcileShape
<1>3. CASE Restart \/ (\E j \in Keys : Dequeue(j) \/ Deliver(j))
  BY <1>1, <1>3 DEF Restart, Dequeue, Deliver, storeVars
<1>4. CASE \E j \in Keys : UsersWrite(j)
  <2>1. uids' = uids \/ uids' = uids + 1
    BY <1>4, UsersShape DEF Made, Changed, Taken
  <2> QED
    BY <1>1, <2>1
<1>5. CASE UNCHANGED <<routes, cache, pending, uids, workerVars>>
  BY <1>1, <1>5
<1> QED
  BY <1>2, <1>3, <1>4, <1>5, Kinds

\* The owners of the routes that the known ids name.
LEMMA KnownStays ==
  ASSUME TypeInv, KnownOK, [Next]_vars
  PROVE  KnownOK'
<1> SUFFICES ASSUME NEW k \in Keys, NEW d \in Routes, Known(k, d)'
             PROVE  d.uid \in 1..uids' /\ OwnId(d)'
  BY DEF KnownOK
<1>1. CASE Fresh(k, d)
  BY <1>1, UidsGrow DEF Fresh, Made, OwnId
<1>2. CASE \E e \in Routes : Comes(k, d, e)
  <2>1. PICK e \in Routes : Comes(k, d, e)
    BY <1>2
  <2>2. e.uid \in 1..uids /\ OwnId(e) /\ d.uid = e.uid
    BY <2>1 DEF Comes, KnownOK
  <2>3. d.uid \in 1..uids'
    BY <2>2, UidsGrow
  <2>4. CASE d.id = e.id
    BY <2>2, <2>3, <2>4, PostedStep DEF OwnId
  <2>5. CASE Reconcile /\ pc = "createRoute" /\ pc' = "saveId" /\ e = obj /\ d.id = Len(posted')
    BY <2>2, <2>3, <2>5, PostedNew DEF OwnId
  <2> QED
    BY <2>1, <2>4, <2>5 DEF Comes
<1> QED
  BY <1>1, <1>2, KnownStep

\* A new Route gets a uid of its own.
LEMMA UidsStay ==
  ASSUME TypeInv, KnownOK, UidsOK, [Next]_vars
  PROVE  UidsOK'
<1> SUFFICES ASSUME NEW j \in Keys, NEW k \in Keys, NEW a \in Routes, NEW b \in Routes,
                    Known(j, a)', Known(k, b)', a.uid = b.uid
             PROVE  j = k
  BY DEF UidsOK
<1> DEFINE Old(i, d) == \E e \in Routes : Known(i, e) /\ e.uid = d.uid
<1>1. Old(j, a) \/ Fresh(j, a)
  BY KnownStep DEF Comes
<1>2. Old(k, b) \/ Fresh(k, b)
  BY KnownStep DEF Comes
<1>3. ASSUME NEW i \in Keys, NEW d \in Routes, Old(i, d) PROVE d.uid \in 1..uids
  BY <1>3 DEF KnownOK
<1>4. CASE Old(j, a) /\ Old(k, b)
  BY <1>4 DEF UidsOK
<1>5. CASE Fresh(j, a) /\ Fresh(k, b)
  <2>1. a # Nil /\ b # Nil /\ routes[j] = Nil /\ routes[k] = Nil
    BY <1>5, RouteStoreAssumption DEF Fresh, Made
  <2>2. routes \in [Keys -> MaybeRoutes]
    BY DEF TypeInv, StoreTypeOK, MaybeRoutes
  <2> QED
    BY <1>5, <2>1, <2>2 DEF Fresh
<1>6. CASE (Old(j, a) /\ Fresh(k, b)) \/ (Fresh(j, a) /\ Old(k, b))
  <2>1. a.uid \in 1..uids /\ a.uid = uids + 1
    BY <1>3, <1>6 DEF Fresh, Made
  <2> QED
    BY <2>1, UidsGrow
<1> QED
  BY <1>1, <1>2, <1>4, <1>5, <1>6

\* What a Route that is not deleted after a step was before it.
LEMMA LiveStep ==
  ASSUME CopyInv, KnownOK, [Next]_vars, NEW k \in Keys, Live(k)'
  PROVE  \/ routes[k] = Nil /\ routes'[k].uid = uids + 1 /\ routes'[k].id = 0
         \/ /\ Live(k) /\ routes'[k].uid = routes[k].uid
            /\ \/ routes'[k].id = routes[k].id
               \/ /\ pc = "saveId" /\ key = k /\ routes'[k].id = obj.id
<1>1. routes \in [Keys -> MaybeRoutes]
  BY DEF CopyInv, TypeInv, StoreTypeOK, MaybeRoutes
<1>2. CASE UNCHANGED routes
  BY <1>2 DEF Live
<1>3. CASE Reconcile /\ ~UNCHANGED routes
  <2>1. Working /\ fresh /\ key \in Keys
    BY <1>3, WorkerStores
  <2>2. PICK r \in MaybeRoutes : Written(r) /\ Store(key, r)
    BY <1>3, WorkerStores
  <2>3. /\ routes[key] # Nil /\ SameObject(obj, routes[key])
        /\ pc # "saveId" => routes[key].id = obj.id
    BY <2>1 DEF CopyInv, CopyOK
  <2>4. CASE k = key
    <3>1. routes'[k] = r
      BY <1>1, <2>2, <2>4 DEF Store
    <3>2. SameObject(r, obj) /\ r.id = obj.id
      BY <2>2, <3>1 DEF Written, Live
    <3>3. Live(k) /\ r.uid = routes[k].uid
      BY <2>3, <2>4, <3>1, <3>2 DEF SameObject, Live
    <3> QED
      BY <2>3, <2>4, <3>1, <3>2, <3>3
  <2>5. CASE k # key
    BY <1>1, <2>2, <2>5 DEF Store, Live
  <2> QED
    BY <2>4, <2>5
<1>4. CASE \E j \in Keys : UsersWrite(j)
  <2>1. PICK j \in Keys : UsersWrite(j)
    BY <1>4
  <2>2. PICK r \in MaybeRoutes :
          /\ Store(j, r)
          /\ \/ r = Nil /\ Taken(j)
             \/ r \in Routes /\ (Made(j, r) \/ Changed(j, r))
    BY <2>1, UsersShape DEF CopyInv
  <2>3. CASE k = j
    <3>1. routes'[k] = r /\ r # Nil /\ ~r.deleting
      BY <1>1, <2>2, <2>3 DEF Store, Live
    <3> QED
      BY <2>2, <2>3, <3>1 DEF Made, Changed, Live
  <2>4. CASE k # j
    BY <1>1, <2>2, <2>4 DEF Store, Live
  <2> QED
    BY <2>3, <2>4
<1>5. CASE Restart \/ (\E j \in Keys : Dequeue(j) \/ Deliver(j))
  BY <1>2, <1>5 DEF Restart, Dequeue, Deliver, storeVars
<1> QED
  BY <1>2, <1>3, <1>4, <1>5, Kinds

\* A marked Route stays older than the one that is stored.
LEMMA DeletedStays ==
  ASSUME CopyInv, KnownOK, DeletedOK, [Next]_vars
  PROVE  DeletedOK'
<1> SUFFICES ASSUME NEW k \in Keys, NEW d \in Routes, Known(k, d)', d.deleting, Live(k)'
             PROVE  d.uid # routes'[k].uid
  BY DEF DeletedOK
<1>1. ~Fresh(k, d)
  BY DEF Fresh, Made
<1>2. PICK e \in Routes : Comes(k, d, e)
  BY <1>1, KnownStep DEF CopyInv
<1>3. d # routes'[k]
  BY DEF Live
<1>4. Known(k, e) /\ e.uid = d.uid /\ e.deleting
  BY <1>2, <1>3 DEF Comes
<1>5. e.uid \in 1..uids
  BY <1>4 DEF KnownOK
<1>6. CASE routes'[k].uid = uids + 1
  BY <1>4, <1>5, <1>6, UidsGrow DEF CopyInv
<1>7. CASE Live(k) /\ routes'[k].uid = routes[k].uid
  BY <1>4, <1>7 DEF DeletedOK
<1> QED
  BY <1>6, <1>7, LiveStep

\* The deletion of one Route is never that of another's route.
LEMMA HeldStays ==
  ASSUME IdsInv, [Next]_vars
  PROVE  HeldOK'
<1> SUFFICES ASSUME byHand' = 0
             PROVE  /\ pc' = "saveId" => Exists(obj.id)'
                    /\ \A k \in Keys : Live(k)' /\ routes'[k].id # 0 => Exists(routes[k].id)'
  BY DEF HeldOK
<1>1. byHand = 0
  BY PostedStep DEF IdsInv, CopyInv
<1>2. ASSUME NEW i, Exists(i), ~(Reconcile /\ pc = "deleteRoute" /\ i = obj.id)
      PROVE  i \in DOMAIN posted' /\ posted'[i] # Nil
  <2>1. i \in DOMAIN posted /\ posted[i] # Nil
    BY <1>2 DEF Exists
  <2> QED
    BY <1>2, <2>1, PostedStep DEF IdsInv, CopyInv
<1>3. pc' = "saveId" => obj'.id \in DOMAIN posted' /\ posted'[obj'.id] # Nil
  <2> SUFFICES ASSUME pc' = "saveId" PROVE obj'.id \in DOMAIN posted' /\ posted'[obj'.id] # Nil
    OBVIOUS
  <2>1. CASE Reconcile
    <3>1. GoingOn
      BY <2>1, ReconcileShape DEF Ending, Reading, IdsInv, CopyInv
    <3>2. pc = "createRoute" /\ obj'.id = Len(posted')
      BY <3>1 DEF GoingOn
    <3> QED
      BY <2>1, <3>2, PostedNew DEF IdsInv, CopyInv
  <2>2. CASE ~Reconcile
    <3>1. pc = "saveId" /\ obj' = obj
      BY <2>2, Kinds, UsersShape
      DEF Restart, Idle, Dequeue, Deliver, workerVars, IdsInv, CopyInv
    <3>2. Exists(obj.id)
      BY <1>1, <3>1 DEF IdsInv, HeldOK
    <3> QED
      BY <1>2, <2>2, <3>1, <3>2
  <2> QED
    BY <2>1, <2>2
<1>4. ASSUME NEW k \in Keys, Live(k)', routes'[k].id # 0
      PROVE  routes'[k].id \in DOMAIN posted' /\ posted'[routes'[k].id] # Nil
  <2>1. Live(k)
    BY <1>4, LiveStep DEF IdsInv
  <2>2. CASE routes'[k].id = routes[k].id
    <3>1. Exists(routes[k].id)
      BY <1>1, <1>4, <2>1, <2>2 DEF IdsInv, HeldOK
    <3>2. ~(pc = "deleteRoute" /\ routes[k].id = obj.id)
      <4> SUFFICES ASSUME pc = "deleteRoute", routes[k].id = obj.id PROVE FALSE
        OBVIOUS
      <4>1. key \in Keys /\ obj \in Routes /\ routes[k] \in Routes /\ obj.deleting
        BY <2>1 DEF IdsInv, CopyInv, StepOK, DelSteps, TypeInv, StoreTypeOK, WorkerTypeOK, Live
      <4>2. Known(key, obj) /\ Known(k, routes[k])
        BY <4>1, RouteStoreAssumption DEF Known, Working
      <4>3. posted[obj.id].owner = obj.uid /\ posted[routes[k].id].owner = routes[k].uid
        BY <1>4, <2>2, <3>1, <4>1, <4>2 DEF IdsInv, KnownOK, OwnId, Exists
      <4>4. obj.uid = routes[k].uid
        BY <4>3
      <4>5. key = k
        BY <4>1, <4>2, <4>4 DEF IdsInv, UidsOK
      <4> QED
        BY <2>1, <4>1, <4>2, <4>4, <4>5 DEF IdsInv, DeletedOK
    <3> QED
      BY <1>2, <2>2, <3>1, <3>2
  <2>3. CASE pc = "saveId" /\ routes'[k].id = obj.id
    BY <1>1, <1>2, <2>3 DEF IdsInv, HeldOK
  <2> QED
    BY <1>4, <2>2, <2>3, LiveStep DEF IdsInv
<1> QED
  BY <1>3, <1>4 DEF Exists

\* Initially there is no Route and nothing at Mailgun.
LEMMA InitIdsInv == Init => IdsInv
<1> SUFFICES ASSUME Init PROVE IdsInv
  OBVIOUS
<1>1. CopyInv
  BY InitCopyInv
<1>2. \A k \in Keys, r \in Routes : ~Known(k, r)
  BY DEF Init, StoreInit, Known, Versions, Working
<1>3. \A k \in Keys : ~Live(k)
  BY DEF Init, StoreInit, Live
<1>4. pc # "saveId"
  BY DEF Init
<1> QED
  BY <1>1, <1>2, <1>3, <1>4 DEF IdsInv, UidsOK, KnownOK, DeletedOK, HeldOK

\* Every step keeps the ids right.
LEMMA NextIdsInv == IdsInv /\ [Next]_vars => IdsInv'
BY NextCopyInv, KnownStays, UidsStay, DeletedStays, HeldStays DEF IdsInv, CopyInv

\* The inductive invariant behind the id in a status.
THEOREM IdsInvariance == Spec => []IdsInv
BY InitIdsInv, NextIdsInv, PTL DEF Spec

\* Whatever calls fail, and however often a Route is deleted and made again:
\* unless people delete routes at Mailgun, the id in the status of a Route that is
\* not deleted names a route that exists and was made for this very object.
THEOREM IdsNameOwnRoutes == Spec => []RouteIDNamesOwnRoute
<1>1. IdsInv => RouteIDNamesOwnRoute
  <2> SUFFICES ASSUME IdsInv, byHand = 0, NEW k \in Keys, Live(k), routes[k].id # 0
               PROVE  Exists(routes[k].id) /\ posted[routes[k].id].owner = routes[k].uid
    BY DEF RouteIDNamesOwnRoute
  <2>1. Exists(routes[k].id)
    BY DEF IdsInv, HeldOK
  <2>2. routes[k] \in Routes /\ Known(k, routes[k])
    BY DEF Known, Live, IdsInv, CopyInv, TypeInv, StoreTypeOK
  <2> QED
    BY <2>1, <2>2 DEF IdsInv, KnownOK, OwnId, Exists
<1> QED
  BY <1>1, IdsInvariance, PTL

\* The controller reconciles old copies, and creates a route again for one that
\* shows no id yet: the id that is stored is never replaced by another.
THEOREM IdsKept == Spec => RouteIDKept
<1> DEFINE Kept == \A k \in Keys : SameRoute(k) /\ routes[k].id # 0 => routes'[k].id = routes[k].id
<1>1. CopyInv /\ [Next]_vars => [Kept]_vars
  <2> SUFFICES ASSUME CopyInv, [Next]_vars, NEW k \in Keys, SameRoute(k), routes[k].id # 0
               PROVE  routes'[k].id = routes[k].id
    OBVIOUS
  <2>1. routes \in [Keys -> MaybeRoutes] /\ uids \in Nat
    BY DEF CopyInv, TypeInv, StoreTypeOK, MaybeRoutes
  <2>2. CASE UNCHANGED routes
    BY <2>2
  <2>3. CASE Reconcile /\ ~UNCHANGED routes
    <3>1. Working /\ fresh /\ key \in Keys
      BY <2>3, WorkerStores
    <3>2. PICK r \in MaybeRoutes : Written(r) /\ Store(key, r)
      BY <2>3, WorkerStores
    <3>3. CASE k = key
      <4>1. routes'[k] = r /\ r # Nil
        BY <2>1, <3>2, <3>3 DEF Store, SameRoute
      <4>2. r.id = obj.id
        BY <3>2, <4>1 DEF Written
      <4>3. routes[k].id = obj.id
        BY <3>1, <3>3 DEF CopyInv, CopyOK
      <4> QED
        BY <4>1, <4>2, <4>3
    <3>4. CASE k # key
      BY <2>1, <3>2, <3>4 DEF Store
    <3> QED
      BY <3>3, <3>4
  <2>4. CASE \E j \in Keys : UsersWrite(j)
    <3>1. PICK j \in Keys : UsersWrite(j)
      BY <2>4
    <3>2. PICK r \in MaybeRoutes :
            /\ Store(j, r)
            /\ \/ r = Nil /\ Taken(j)
               \/ r \in Routes /\ (Made(j, r) \/ Changed(j, r))
      BY <3>1, UsersShape DEF CopyInv
    <3>3. CASE k = j
      <4>1. routes'[k] = r /\ r # Nil /\ routes[k] # Nil
        BY <2>1, <3>2, <3>3 DEF Store, SameRoute
      <4> QED
        BY <3>2, <3>3, <4>1 DEF Made, Changed
    <3>4. CASE k # j
      BY <2>1, <3>2, <3>4 DEF Store
    <3> QED
      BY <3>3, <3>4
  <2>5. CASE Restart \/ (\E j \in Keys : Dequeue(j) \/ Deliver(j))
    BY <2>2, <2>5 DEF Restart, Dequeue, Deliver, storeVars
  <2> QED
    BY <2>2, <2>3, <2>4, <2>5, Kinds
<1> QED
  BY <1>1, CopyInvariance, PTL DEF Spec, RouteIDKept

-----------------------------------------------------------------------------
(* The finalizer. *)

\* The finalizer is given up for a Route whose route is gone.
GoneOK == pc = "release" => ~Exists(obj.id)

\* A lookup that fails for a route that exists is taken for "already deleted".
AnsweredOnDelete == "delGetRoute" \notin Faulty

\* The route is gone before the finalizer is given up, and does not come back.
LEMMA GoneStays ==
  ASSUME AnsweredOnDelete, CopyInv, GoneOK, [Next]_vars
  PROVE  GoneOK'
<1> SUFFICES ASSUME pc' = "release" PROVE ~Exists(obj.id)'
  BY DEF GoneOK
<1>1. posted \in Seq(PostedRoutes \cup {Nil})
  BY DEF CopyInv, TypeInv, MailgunTypeOK
<1>2. CASE Get
  <2>1. obj'.id = 0 /\ posted' = posted
    BY <1>2 DEF Get, Return, Idle, Call, Provide, SendRequest, ReadStep, mailgunVars
  <2> QED
    BY <1>1, <2>1 DEF Exists
<1>3. CASE DelGetRoute
  BY <1>3 DEF DelGetRoute, FailsUnless, Fault, AnsweredOnDelete, Call, ReadStep, mailgunVars, Exists
<1>4. CASE DeleteRoute
  <2>1. Remove(obj.id) /\ obj' = obj
    BY <1>4 DEF DeleteRoute, Call
  <2> QED
    BY <1>1, <2>1 DEF Remove, Exists
<1>5. CASE Reconcile /\ ~Get /\ ~DelGetRoute /\ ~DeleteRoute
  BY <1>5
  DEF Reconcile, AddFinalizer, GetDomain, SaveWait, GetRoute, UpdateRoute,
      SaveUpdateFailed, CreateRoute, SaveCreateFailed, SaveId, Claim,
      SaveDeleteFailed, Release, Return, Requeue, Idle, Call, Provide, SendRequest
<1>6. CASE ~Reconcile
  <2>1. pc = "release" /\ obj' = obj
    BY <1>6, Kinds, UsersShape DEF Restart, Idle, Dequeue, Deliver, workerVars, CopyInv
  <2>2. UNCHANGED posted \/ \E i \in DOMAIN posted : RemovedByHand(i)
    BY <1>6
    DEF Next, Restart, Dequeue, Deliver, TimerFires, UsersWrite, MailgunMoves, DomainMoves,
        mailgunVars, vars
  <2> QED
    BY <1>1, <2>1, <2>2 DEF GoneOK, RemovedByHand, Remove, Exists
<1> QED
  BY <1>2, <1>3, <1>4, <1>5, <1>6

\* Where the lookup before the deletion only fails for a route that is not there:
\* whatever else fails and whoever else writes, the finalizer of a Route goes only
\* when its route is gone.
THEOREM ReleasedWhenGone == ASSUME AnsweredOnDelete PROVE Spec => ReleasedRouteGone
<1> DEFINE Gone == \A k \in Keys :
                     /\ routes[k] # Nil /\ routes[k].finalizer
                     /\ routes'[k] = Nil \/ ~routes'[k].finalizer
                     => ~Exists(routes[k].id)
           GoneInv == CopyInv /\ GoneOK
<1>1. Init => GoneInv
  BY InitCopyInv DEF Init, GoneOK
<1>2. GoneInv /\ [Next]_vars => GoneInv'
  BY NextCopyInv, GoneStays
<1>3. GoneInv /\ [Next]_vars => [Gone]_vars
  <2> SUFFICES ASSUME GoneInv, [Next]_vars, NEW k \in Keys,
                      routes[k] # Nil, routes[k].finalizer,
                      routes'[k] = Nil \/ ~routes'[k].finalizer
               PROVE  ~Exists(routes[k].id)
    OBVIOUS
  <2>1. routes \in [Keys -> MaybeRoutes]
    BY DEF CopyInv, TypeInv, StoreTypeOK, MaybeRoutes
  <2>2. ~UNCHANGED routes
    OBVIOUS
  <2>3. CASE Reconcile
    <3>1. Working /\ fresh /\ key \in Keys
      BY <2>2, <2>3, WorkerStores
    <3>2. PICK r \in MaybeRoutes : Written(r) /\ Store(key, r)
      BY <2>2, <2>3, WorkerStores
    <3>3. CASE k = key
      <4>1. routes'[k] = r
        BY <2>1, <3>2, <3>3 DEF Store
      <4>2. obj.finalizer = TRUE
        <5>1. routes[k].finalizer = TRUE
          BY <2>1 DEF MaybeRoutes, Routes
        <5>2. pc # "claim" => obj.finalizer = routes[k].finalizer
          BY <3>1, <3>3 DEF CopyInv, CopyOK
        <5> QED
          BY <5>1, <5>2 DEF CopyInv, StepOK
      <4>3. pc # "saveId" => obj.id = routes[k].id
        BY <3>1, <3>3 DEF CopyInv, CopyOK
      <4>4. pc = "release"
        <5>1. CASE r = Nil
          BY <3>2, <5>1, RouteStoreAssumption DEF Written
        <5>2. CASE r \in Routes /\ r.finalizer = FALSE
          BY <3>2, <4>2, <5>2, RouteStoreAssumption DEF Written
        <5>3. r \in Routes => r.finalizer = FALSE
          BY <4>1, RouteStoreAssumption DEF Routes
        <5> QED
          BY <5>1, <5>2, <5>3 DEF MaybeRoutes
      <4> QED
        BY <4>3, <4>4 DEF GoneOK
    <3>4. CASE k # key
      BY <2>1, <3>2, <3>4 DEF Store
    <3> QED
      BY <3>3, <3>4
  <2>4. CASE \E j \in Keys : UsersWrite(j)
    <3>1. PICK j \in Keys : UsersWrite(j)
      BY <2>4
    <3>2. PICK r \in MaybeRoutes :
            /\ Store(j, r)
            /\ \/ r = Nil /\ Taken(j)
               \/ r \in Routes /\ (Made(j, r) \/ Changed(j, r))
      BY <3>1, UsersShape DEF CopyInv
    <3>3. CASE k = j
      <4>1. routes'[k] = r
        BY <2>1, <3>2, <3>3 DEF Store
      <4> QED
        BY <3>2, <3>3, <4>1, RouteStoreAssumption DEF Made, Changed, Taken
    <3>4. CASE k # j
      BY <2>1, <3>2, <3>4 DEF Store
    <3> QED
      BY <3>3, <3>4
  <2>5. CASE Restart \/ (\E j \in Keys : Dequeue(j) \/ Deliver(j))
    BY <2>2, <2>5 DEF Restart, Dequeue, Deliver, storeVars
  <2> QED
    BY <2>2, <2>3, <2>4, <2>5, Kinds
<1> QED
  BY <1>1, <1>2, <1>3, PTL DEF Spec, ReleasedRouteGone

-----------------------------------------------------------------------------
(* No lost wakeup. *)

\* A lookup that fails for a route that exists ends the reconcile for good.
AnsweredOnUpdate == "getRoute" \notin Faulty

\* What a later version may still say when nothing between the two passed the
\* predicate: the status and the finalizer only gain.
Follows(old, new) ==
  /\ old = Nil <=> new = Nil
  /\ old # Nil =>
       /\ new.spec = old.spec
       /\ new.deleting = old.deleting
       /\ old.finalizer = TRUE => new.finalizer = TRUE
       /\ old.id # 0 => new.id = old.id

\* The versions of a key from the cached one on.
Version(k, i) == IF i = 0 THEN cache[k] ELSE pending[k][i]

\* The informer will queue the key for nothing that comes after version i.
QuietFrom(k, i) ==
  \A j \in i + 1 .. Len(pending[k]) : ~PassesPredicate(Version(k, j - 1), Version(k, j))

\* What is stored follows every version that no event comes after.
QuietFollows ==
  \A k \in Keys : \A i \in 0 .. Len(pending[k]) :
    QuietFrom(k, i) => Follows(Version(k, i), routes[k])

\* Only the finalizer keeps a Route that is deleted.
MarkedOK ==
  \A k \in Keys, r \in Routes :
    r = routes[k] \/ r \in Versions(k) => (r.deleting => r.finalizer = TRUE)

\* Between two reconciles the worker holds no key.
IdleKey == pc = "idle" => key = Nil

\* The key will be reconciled again.
Again(k) == k \in queue \cup delayed \/ EventComing(k)

\* What the worker knows of its copy: it is of a Route nobody deletes, it has the
\* finalizer if it has an id, and its new route is the one it asks for.
CopyKnown ==
  /\ Working /\ pc \notin DelSteps => obj.deleting = FALSE
  /\ pc \in {"getDomain", "getRoute", "updateRoute"} =>
       (obj.id # 0 => obj.finalizer = TRUE)
  /\ pc \in {"getRoute", "updateRoute"} => obj.id # 0
  /\ pc \in {"saveId", "claim"} =>
       obj.id # 0 /\ (Exists(obj.id) => posted[obj.id].request = obj.spec.request)

\* What is stored follows the copy, unless the key will be reconciled again.
CopyFollows ==
  Working /\ pc \notin {"saveId", "claim"} => Again(key) \/ Follows(obj, routes[key])

WakeupInv ==
  IdsInv /\ QuietFollows /\ MarkedOK /\ IdleKey /\ CopyKnown /\ CopyFollows /\ NoLostWakeup

-----------------------------------------------------------------------------
(* The versions on their way. *)

\* A version follows itself, and what follows one that follows it.
LEMMA FollowsOrder ==
  /\ \A a : Follows(a, a)
  /\ \A a, b, c : Follows(a, b) /\ Follows(b, c) => Follows(a, c)
BY DEF Follows

\* No event is coming when it is quiet from the cached version on.
LEMMA EventsComing ==
  ASSUME TypeInv, NEW k \in Keys
  PROVE  EventComing(k) <=> ~QuietFrom(k, 0)
<1>1. Len(pending[k]) \in Nat
  BY DEF TypeInv, StoreTypeOK
<1>2. \A j \in 1 .. Len(pending[k]) :
        Version(k, j - 1) = (IF j = 1 THEN cache[k] ELSE pending[k][j - 1])
        /\ Version(k, j) = pending[k][j]
  BY <1>1 DEF Version
<1> QED
  BY <1>1, <1>2 DEF EventComing, QuietFrom

\* What a step of the worker changes in the store.
LEMMA WorkerWrites ==
  ASSUME CopyInv, Reconcile, NEW k \in Keys, routes'[k] # routes[k]
  PROVE  /\ k = key /\ Working /\ fresh
         /\ routes[k] \in Routes /\ SameObject(obj, routes[k])
         /\ Written(routes'[k]) /\ routes'[k] \in MaybeRoutes
<1>1. routes \in [Keys -> MaybeRoutes]
  BY DEF CopyInv, TypeInv, StoreTypeOK, MaybeRoutes
<1>2. Working /\ fresh /\ key \in Keys
  BY WorkerStores
<1>3. PICK r \in MaybeRoutes : Written(r) /\ Store(key, r)
  BY WorkerStores
<1>4. k = key /\ routes'[k] = r
  BY <1>1, <1>2, <1>3 DEF Store
<1>5. routes[k] \in Routes /\ SameObject(obj, routes[k])
  BY <1>1, <1>2, <1>4 DEF CopyInv, CopyOK, MaybeRoutes
<1> QED
  BY <1>2, <1>3, <1>4, <1>5

\* And a write of users.
LEMMA UsersChange ==
  ASSUME TypeInv, NEW j \in Keys, UsersWrite(j), NEW k \in Keys, routes'[k] # routes[k]
  PROVE  /\ k = j
         /\ \/ routes'[k] = Nil /\ Taken(k)
            \/ routes'[k] \in Routes /\ (Made(k, routes'[k]) \/ Changed(k, routes'[k]))
<1>1. PICK r \in MaybeRoutes :
        /\ Store(j, r)
        /\ \/ r = Nil /\ Taken(j)
           \/ r \in Routes /\ (Made(j, r) \/ Changed(j, r))
  BY UsersShape
<1>2. k = j /\ routes'[k] = r
  BY <1>1 DEF Store, TypeInv, StoreTypeOK
<1> QED
  BY <1>1, <1>2

\* Who writes to the store.
LEMMA Writers ==
  ASSUME [Next]_vars
  PROVE  UNCHANGED routes \/ Reconcile \/ \E j \in Keys : UsersWrite(j)
BY Kinds DEF Restart, Dequeue, Deliver, storeVars

\* The next version follows the stored one, or is an event.
LEMMA StepFollows ==
  ASSUME CopyInv, [Next]_vars, NEW k \in Keys, ~PassesPredicate(routes[k], routes'[k])
  PROVE  Follows(routes[k], routes'[k])
<1>1. CASE routes'[k] = routes[k]
  BY <1>1, FollowsOrder
<1>2. CASE routes'[k] # routes[k]
  <2>1. /\ routes[k] # Nil /\ routes'[k] # Nil
        /\ routes'[k].spec = routes[k].spec /\ routes'[k].deleting = routes[k].deleting
    BY DEF PassesPredicate
  <2>2. CASE Reconcile
    <3>1. /\ k = key /\ Working /\ fresh /\ routes[k] \in Routes /\ Written(routes'[k])
      BY <1>2, <2>2, WorkerWrites
    <3>2. obj.deleting \/ pc # "release"
      BY DEF CopyInv, StepOK, DelSteps
    <3>3. routes'[k].id = obj.id /\ (obj.finalizer = TRUE => routes'[k].finalizer = TRUE)
      BY <2>1, <3>1, <3>2 DEF Written
    <3>4. routes[k].finalizer = TRUE => obj.finalizer = TRUE
      BY <3>1 DEF CopyInv, CopyOK, StepOK
    <3>5. routes[k].id # 0 => routes[k].id = obj.id
      BY <3>1 DEF CopyInv, CopyOK
    <3> QED
      BY <2>1, <3>2, <3>3, <3>4, <3>5 DEF Follows
  <2>3. CASE \E j \in Keys : UsersWrite(j)
    <3>1. Made(k, routes'[k]) \/ Changed(k, routes'[k])
      BY <1>2, <2>1, <2>3, UsersChange DEF CopyInv
    <3> QED
      BY <2>1, <3>1 DEF Made, Changed, Follows
  <2> QED
    BY <1>2, <2>2, <2>3, Writers
<1> QED
  BY <1>1, <1>2

\* A store step adds a version at the end, or none.
LEMMA StoreFollows ==
  ASSUME TypeInv, Synced, QuietFollows, NEW k \in Keys, NEW r \in MaybeRoutes, Store(k, r),
         UNCHANGED cache,
         ~PassesPredicate(routes[k], r) => Follows(routes[k], r)
  PROVE  QuietFollows'
<1> SUFFICES ASSUME NEW j \in Keys, NEW i \in 0 .. Len(pending'[j]), QuietFrom(j, i)'
             PROVE  Follows(Version(j, i)', routes'[j])
  BY DEF QuietFollows
<1>1. /\ routes' = [routes EXCEPT ![k] = r]
      /\ r # routes[k] => pending' = [pending EXCEPT ![k] = Append(pending[k], r)]
      /\ r = routes[k] => pending' = pending
      /\ routes \in [Keys -> MaybeRoutes]
      /\ pending \in [Keys -> Seq(MaybeRoutes)]
  BY DEF Store, TypeInv, StoreTypeOK, MaybeRoutes
<1>2. CASE j # k \/ r = routes[k]
  <2>1. pending'[j] = pending[j] /\ routes'[j] = routes[j] /\ cache'[j] = cache[j]
    BY <1>1, <1>2
  <2>2. \A m : Version(j, m)' = Version(j, m)
    BY <2>1 DEF Version
  <2>3. QuietFrom(j, i)
    BY <2>1, <2>2 DEF QuietFrom
  <2> QED
    BY <2>1, <2>2, <2>3 DEF QuietFollows
<1>3. CASE j = k /\ r # routes[k]
  <2> DEFINE p == pending[k]
             q == Append(p, r)
  <2>0. p \in Seq(MaybeRoutes) /\ pending'[k] = q /\ routes'[k] = r
    BY <1>1, <1>3
  <2>1. PICK n \in Nat : n = Len(p)
    BY <2>0
  <2>2. /\ Len(q) = n + 1
        /\ \A m \in 1 .. n : q[m] = p[m]
        /\ q[n + 1] = r
    BY <2>0, <2>1
  <2>3. \A m \in 0 .. n : Version(k, m)' = Version(k, m)
    BY <2>0, <2>1, <2>2, <1>1 DEF Version
  <2>4. Version(k, n) = routes[k]
    <3>1. p = <<>> <=> n = 0
      BY <2>0, <2>1, EmptySeq
    <3> QED
      BY <2>1, <3>1 DEF Version, Synced
  <2> HIDE DEF p, q
  <2>5. CASE i = n + 1
    <3>1. Version(j, i)' = r
      BY <1>3, <2>0, <2>1, <2>2, <2>5 DEF Version
    <3> QED
      BY <1>3, <2>0, <3>1, FollowsOrder
  <2>6. CASE i \in 0 .. n
    <3>1. ASSUME NEW m \in i + 1 .. n + 1
          PROVE  ~PassesPredicate(Version(k, m - 1)', Version(k, m)')
      BY <1>3, <2>0, <2>2, <2>6, <3>1 DEF QuietFrom
    <3>2. QuietFrom(k, i)
      <4> SUFFICES ASSUME NEW m \in i + 1 .. n
                   PROVE  ~PassesPredicate(Version(k, m - 1), Version(k, m))
        BY <2>1 DEF QuietFrom, p
      <4>1. m \in i + 1 .. n + 1 /\ m \in 0 .. n /\ m - 1 \in 0 .. n
        BY <2>1, <2>6
      <4> QED
        BY <2>3, <3>1, <4>1
    <3>3. ~PassesPredicate(routes[k], r)
      <4>1. n + 1 \in i + 1 .. n + 1 /\ n \in 0 .. n /\ (n + 1) - 1 = n
        BY <2>1, <2>6
      <4>2. ~PassesPredicate(Version(k, n)', Version(k, n + 1)')
        BY <3>1, <4>1
      <4>3. Version(k, n + 1)' = r
        BY <2>0, <2>1, <2>2 DEF Version
      <4> QED
        BY <2>3, <2>4, <4>1, <4>2, <4>3
    <3>4. Follows(Version(k, i), routes[k])
      BY <2>1, <2>6, <3>2 DEF QuietFollows, p
    <3>5. Follows(Version(k, i), r)
      BY <3>3, <3>4, FollowsOrder
    <3> QED
      BY <1>3, <2>0, <2>3, <2>6, <3>5
  <2> QED
    BY <1>3, <2>0, <2>1, <2>2, <2>5, <2>6
<1> QED
  BY <1>2, <1>3

\* A delivery moves every version of its key one forward.
LEMMA DeliverFollows ==
  ASSUME TypeInv, QuietFollows, NEW k \in Keys, NextVersion(k), UNCHANGED routes
  PROVE  /\ QuietFollows'
         /\ \A j \in Keys \ {k} : QuietFrom(j, 0) => QuietFrom(j, 0)'
         /\ QuietFrom(k, 0)' => QuietFrom(k, 1)
<1>1. /\ pending[k] # <<>>
      /\ cache' = [cache EXCEPT ![k] = Head(pending[k])]
      /\ pending' = [pending EXCEPT ![k] = Tail(pending[k])]
      /\ cache \in [Keys -> MaybeRoutes]
      /\ pending \in [Keys -> Seq(MaybeRoutes)]
  BY DEF NextVersion, TypeInv, StoreTypeOK, MaybeRoutes
<1>2. ASSUME NEW j \in Keys, j # k
      PROVE  /\ Len(pending'[j]) = Len(pending[j])
             /\ \A i : Version(j, i)' = Version(j, i) /\ (QuietFrom(j, i)' <=> QuietFrom(j, i))
  <2>1. pending'[j] = pending[j] /\ cache'[j] = cache[j]
    BY <1>1, <1>2
  <2>2. \A i : Version(j, i)' = Version(j, i)
    BY <2>1 DEF Version
  <2> QED
    BY <2>1, <2>2 DEF QuietFrom
<1> DEFINE n == Len(pending[k])
<1>3. /\ n \in Nat /\ n > 0 /\ Len(pending'[k]) = n - 1
      /\ cache'[k] = pending[k][1]
      /\ \A i \in 1 .. n - 1 : pending'[k][i] = pending[k][i + 1]
  <2>1. pending[k] \in Seq(MaybeRoutes) /\ pending[k] # <<>>
    BY <1>1
  <2> QED
    BY <1>1, <2>1
<1> HIDE DEF n
<1>4. \A i \in 0 .. n - 1 : Version(k, i)' = Version(k, i + 1)
  BY <1>3 DEF Version
<1>5. ASSUME NEW i \in 0 .. n - 1, QuietFrom(k, i)'
      PROVE  QuietFrom(k, i + 1)
  <2> SUFFICES ASSUME NEW m \in i + 2 .. n
               PROVE  ~PassesPredicate(Version(k, m - 1), Version(k, m))
    BY <1>3 DEF QuietFrom, n
  <2>1. m - 1 \in i + 1 .. n - 1 /\ (m - 1) - 1 \in 0 .. n - 1 /\ m - 1 \in 0 .. n - 1
        /\ (m - 1) + 1 = m /\ ((m - 1) - 1) + 1 = m - 1
    BY <1>3
  <2>2. ~PassesPredicate(Version(k, (m - 1) - 1)', Version(k, m - 1)')
    BY <1>3, <1>5, <2>1 DEF QuietFrom
  <2> QED
    BY <1>4, <2>1, <2>2
<1>6. QuietFollows'
  <2> SUFFICES ASSUME NEW j \in Keys, NEW i \in 0 .. Len(pending'[j]), QuietFrom(j, i)'
               PROVE  Follows(Version(j, i)', routes'[j])
    BY DEF QuietFollows
  <2>1. CASE j # k
    BY <1>2, <2>1 DEF QuietFollows
  <2>2. CASE j = k
    <3>1. i \in 0 .. n - 1 /\ i + 1 \in 0 .. n
      BY <1>3, <2>2
    <3>2. Follows(Version(k, i + 1), routes[k])
      BY <1>5, <2>2, <3>1 DEF QuietFollows, n
    <3> QED
      BY <1>4, <2>2, <3>1, <3>2
  <2> QED
    BY <2>1, <2>2
<1>7. QuietFrom(k, 0)' => QuietFrom(k, 1)
  <2>1. 0 \in 0 .. n - 1 /\ 0 + 1 = 1
    BY <1>3
  <2> QED
    BY <1>5, <2>1
<1> QED
  BY <1>2, <1>6, <1>7

\* Every step keeps the informer's quiet meaningful.
LEMMA NextQuietFollows ==
  ASSUME CopyInv, QuietFollows, [Next]_vars
  PROVE  QuietFollows'
<1>1. CASE UNCHANGED <<routes, cache, pending>>
  BY <1>1 DEF QuietFollows, QuietFrom, Version
<1>2. CASE \E k \in Keys, r \in MaybeRoutes : Store(k, r) /\ UNCHANGED cache
  <2>1. PICK k \in Keys, r \in MaybeRoutes : Store(k, r) /\ UNCHANGED cache
    BY <1>2
  <2>2. routes'[k] = r
    BY <2>1 DEF Store, CopyInv, TypeInv, StoreTypeOK
  <2>3. ~PassesPredicate(routes[k], r) => Follows(routes[k], r)
    BY <2>2, StepFollows
  <2> QED
    BY <2>1, <2>3, StoreFollows DEF CopyInv
<1>3. CASE Reconcile
  <2>1. UNCHANGED cache
    BY <1>3, ReconcileShape DEF CopyInv
  <2> QED
    BY <1>1, <1>2, <1>3, <2>1, WorkerStores
<1>4. CASE \E k \in Keys : UsersWrite(k)
  BY <1>2, <1>4, UsersShape DEF CopyInv
<1>5. CASE \E k \in Keys : Deliver(k)
  <2>1. PICK k \in Keys : NextVersion(k) /\ UNCHANGED routes
    BY <1>5 DEF Deliver
  <2> QED
    BY <2>1, DeliverFollows DEF CopyInv
<1>6. CASE Restart
  <2> SUFFICES ASSUME NEW k \in Keys, NEW i \in 0 .. Len(pending'[k])
               PROVE  Follows(Version(k, i)', routes'[k])
    BY DEF QuietFollows
  <2>1. pending'[k] = <<>> /\ cache'[k] = routes[k] /\ routes'[k] = routes[k]
    BY <1>6 DEF Restart
  <2>2. i = 0
    BY <2>1
  <2>3. Version(k, i)' = routes[k]
    BY <2>1, <2>2 DEF Version
  <2> QED
    BY <2>1, <2>3, FollowsOrder
<1>7. CASE \E k \in Keys : Dequeue(k)
  BY <1>1, <1>7 DEF Dequeue, storeVars
<1> QED
  BY <1>1, <1>3, <1>4, <1>5, <1>6, <1>7, Kinds

\* What the informer holds after a step it held before, or it is what the step
\* stored.
LEMMA VersionsStep ==
  ASSUME CopyInv, [Next]_vars, NEW k \in Keys, NEW d, d \in Versions(k)'
  PROVE  d \in Versions(k) \/ d = routes'[k]
<1>1. ASSUME UNCHANGED <<cache, pending>> PROVE Versions(k)' = Versions(k)
  BY <1>1 DEF Versions
<1>2. CASE \E j \in Keys, r \in MaybeRoutes : Store(j, r) /\ UNCHANGED cache
  BY <1>2, VersionsStore DEF CopyInv
<1>3. CASE Reconcile
  <2>1. UNCHANGED cache
    BY <1>3, ReconcileShape DEF CopyInv
  <2> QED
    BY <1>1, <1>2, <1>3, <2>1, WorkerStores
<1>4. CASE \E j \in Keys : UsersWrite(j)
  BY <1>2, <1>4, UsersShape DEF CopyInv
<1>5. CASE Restart
  BY <1>5, VersionsRestart DEF CopyInv
<1>6. CASE \E j \in Keys : Deliver(j)
  BY <1>6, VersionsDeliver DEF CopyInv
<1>7. CASE (\E j \in Keys : Dequeue(j)) \/ UNCHANGED <<routes, cache, pending, uids, workerVars>>
  BY <1>1, <1>7 DEF Dequeue, storeVars
<1> QED
  BY <1>3, <1>4, <1>5, <1>6, <1>7, Kinds

\* A Route that is marked has the finalizer.
LEMMA MarkedStays ==
  ASSUME CopyInv, MarkedOK, [Next]_vars
  PROVE  MarkedOK'
<1> SUFFICES ASSUME NEW k \in Keys, NEW d \in Routes, d = routes'[k] \/ d \in Versions(k)',
                    d.deleting
             PROVE  d.finalizer = TRUE
  BY DEF MarkedOK
<1>1. CASE d = routes[k] \/ d \in Versions(k)
  BY <1>1 DEF MarkedOK
<1>2. CASE d = routes'[k] /\ d # routes[k]
  <2>1. CASE Reconcile
    <3>1. Written(d) /\ fresh /\ k = key /\ routes[k] \in Routes /\ SameObject(obj, routes[k])
      BY <1>2, <2>1, WorkerWrites
    <3>2. SameObject(d, obj) /\ pc # "release"
          /\ (d.finalizer = obj.finalizer \/ d.finalizer = TRUE)
      BY <3>1, RouteStoreAssumption DEF Written, SameObject
    <3>3. routes[k].finalizer = TRUE
      BY <3>1, <3>2 DEF SameObject, MarkedOK
    <3>4. obj.finalizer = TRUE
      BY <3>1, <3>3 DEF CopyInv, CopyOK, StepOK
    <3> QED
      BY <3>2, <3>4
  <2>2. CASE \E j \in Keys : UsersWrite(j)
    <3>1. Made(k, d) \/ Changed(k, d)
      BY <1>2, <2>2, UsersChange, RouteStoreAssumption DEF CopyInv
    <3>2. Changed(k, d) /\ (routes[k].deleting \/ d.finalizer)
      BY <3>1 DEF Made, Changed
    <3>3. routes[k] \in Routes /\ d.finalizer = routes[k].finalizer
      BY <3>2 DEF Changed, CopyInv, TypeInv, StoreTypeOK
    <3>4. routes[k].deleting => routes[k].finalizer = TRUE
      BY <3>3 DEF MarkedOK
    <3>5. d.finalizer \in BOOLEAN
      BY DEF Routes
    <3> QED
      BY <3>2, <3>3, <3>4, <3>5
  <2> QED
    BY <1>2, <2>1, <2>2, Writers
<1> QED
  BY <1>1, <1>2, VersionsStep

\* Events that were coming are still coming after a store step, and so is the
\* new version's.
LEMMA StoreEvents ==
  ASSUME TypeInv, Synced, NEW j \in Keys, NEW r \in MaybeRoutes, Store(j, r), UNCHANGED cache,
         NEW k \in Keys
  PROVE  /\ EventComing(k) => EventComing(k)'
         /\ k = j /\ r # routes[k] /\ PassesPredicate(routes[k], r) => EventComing(k)'
<1>1. /\ r # routes[j] => pending' = [pending EXCEPT ![j] = Append(pending[j], r)]
      /\ r = routes[j] => pending' = pending
      /\ pending \in [Keys -> Seq(MaybeRoutes)]
  BY DEF Store, TypeInv, StoreTypeOK, MaybeRoutes
<1>2. CASE k # j \/ r = routes[j]
  <2>1. pending'[k] = pending[k] /\ cache'[k] = cache[k]
    BY <1>1, <1>2
  <2> QED
    BY <1>2, <2>1 DEF EventComing
<1>3. CASE k = j /\ r # routes[j]
  <2>1. PICK n \in Nat : n = Len(pending[k])
    BY <1>1
  <2>2. /\ Len(pending'[k]) = n + 1
        /\ \A i \in 1 .. n : pending'[k][i] = pending[k][i]
        /\ pending'[k][n + 1] = r
    BY <1>1, <1>3, <2>1
  <2>3. ASSUME EventComing(k) PROVE EventComing(k)'
    <3>1. PICK i \in 1 .. n :
            PassesPredicate(IF i = 1 THEN cache[k] ELSE pending[k][i - 1], pending[k][i])
      BY <2>1, <2>3 DEF EventComing
    <3>2. i \in 1 .. n + 1 /\ (i # 1 => i - 1 \in 1 .. n)
      OBVIOUS
    <3>3. PassesPredicate(IF i = 1 THEN cache'[k] ELSE pending'[k][i - 1], pending'[k][i])
      BY <2>2, <3>1, <3>2
    <3> QED
      BY <2>2, <3>2, <3>3 DEF EventComing, PassesPredicate
  <2>4. ASSUME PassesPredicate(routes[k], r) PROVE EventComing(k)'
    <3>1. (IF n + 1 = 1 THEN cache'[k] ELSE pending'[k][(n + 1) - 1]) = routes[k]
      <4>1. CASE n = 0
        <5>1. pending[k] = <<>>
          BY <1>1, <2>1, <4>1, EmptySeq
        <5> QED
          BY <4>1, <5>1 DEF Synced
      <4>2. CASE n # 0
        <5>1. pending[k] # <<>>
          BY <2>1, <4>2
        <5>2. n \in 1 .. n /\ (n + 1) - 1 = n /\ n + 1 # 1
          BY <4>2
        <5> QED
          BY <2>1, <2>2, <5>1, <5>2 DEF Synced
      <4> QED
        BY <4>1, <4>2
    <3>2. n + 1 \in 1 .. n + 1
      OBVIOUS
    <3> QED
      BY <2>2, <2>4, <3>1, <3>2 DEF EventComing, PassesPredicate
  <2> QED
    BY <1>3, <2>3, <2>4
<1> QED
  BY <1>2, <1>3

\* A delivery queues the key, or leaves the events that were coming.
LEMMA DeliverAgain ==
  ASSUME CopyInv, QuietFollows, NEW j \in Keys, Deliver(j), NEW k \in Keys, Again(k)
  PROVE  Again(k)'
<1>1. /\ UNCHANGED <<routes, delayed>> /\ NextVersion(j)
      /\ queue' = IF PassesPredicate(cache[j], cache'[j]) THEN queue \cup {j} ELSE queue
  BY DEF Deliver
<1>2. TypeInv /\ TypeInv'
  BY NextTyped DEF CopyInv, Next
<1>3. CASE k \in queue \cup delayed
  BY <1>1, <1>3 DEF Again
<1>4. CASE EventComing(k) /\ k \notin queue'
  <2>1. ~QuietFrom(k, 0)
    BY <1>2, <1>4, EventsComing
  <2>2. ~QuietFrom(k, 0)'
    <3>1. CASE k # j
      <4>1. pending'[k] = pending[k] /\ cache'[k] = cache[k]
        BY <1>1, <1>2, <3>1 DEF NextVersion, TypeInv, StoreTypeOK
      <4> QED
        BY <2>1, <4>1 DEF QuietFrom, Version
    <3>2. CASE k = j
      <4>1. ~PassesPredicate(cache[k], cache'[k])
        BY <1>1, <1>4, <3>2
      <4>2. cache'[k] = pending[k][1] /\ Len(pending[k]) \in Nat
        BY <1>1, <1>2, <3>2 DEF NextVersion, TypeInv, StoreTypeOK
      <4>3. ~QuietFrom(k, 1)
        <5> SUFFICES ASSUME QuietFrom(k, 1) PROVE QuietFrom(k, 0)
          BY <2>1
        <5> SUFFICES ASSUME NEW m \in 1 .. Len(pending[k])
                     PROVE  ~PassesPredicate(Version(k, m - 1), Version(k, m))
          BY <4>2 DEF QuietFrom
        <5>1. CASE m = 1
          BY <4>1, <4>2, <5>1 DEF Version
        <5>2. CASE m # 1
          BY <4>2, <5>2 DEF QuietFrom
        <5> QED
          BY <5>1, <5>2
      <4> QED
        BY <1>1, <1>2, <3>2, <4>3, DeliverFollows
    <3> QED
      BY <3>1, <3>2
  <2>3. (EventComing(k) <=> ~QuietFrom(k, 0))'
    BY <1>2, EventsComing, PTL
  <2> QED
    BY <2>2, <2>3 DEF Again
<1> QED
  BY <1>3, <1>4 DEF Again

\* Every step leaves a worker without a key that is idle.
LEMMA NextIdleKey ==
  ASSUME IdleKey, [Next]_vars
  PROVE  IdleKey'
<1>1. CASE Reconcile
  BY <1>1
  DEF Reconcile, Get, AddFinalizer, GetDomain, SaveWait, GetRoute, UpdateRoute,
      SaveUpdateFailed, CreateRoute, SaveCreateFailed, SaveId, Claim, DelGetRoute, DeleteRoute,
      SaveDeleteFailed, Release, Provide, SendRequest, Call, Return, Requeue, Idle, IdleKey
<1>2. CASE Restart \/ \E k \in Keys : Dequeue(k)
  BY <1>2 DEF Restart, Dequeue, Idle, IdleKey
<1>3. CASE \/ \E k \in Keys : Deliver(k) \/ TimerFires(k) \/ UsersWrite(k)
           \/ MailgunMoves \/ UNCHANGED vars
  BY <1>3 DEF Deliver, TimerFires, UsersWrite, MailgunMoves, vars, workerVars, IdleKey
<1> QED
  BY <1>1, <1>2, <1>3 DEF Next

-----------------------------------------------------------------------------
(* Requests. *)

\* A request that does not differ from what is there is not out of date, nor is
\* one that has just been sent.
LEMMA MergedAgain ==
  ASSUME NEW there \in Requests, NEW wanted \in Requests
  PROVE  /\ ~Differs(there, wanted) => ~Differs(there, Merged(there, wanted))
         /\ LET now == Merged(there, wanted) IN ~Differs(now, Merged(now, wanted))
         /\ ~Differs(there, Merged(there, there))
<1>1. \A a, b \in Requests :
        /\ Merged(a, b).body = b.body
        /\ Merged(a, b).priority = IF b.priority = 0 THEN a.priority ELSE b.priority
        /\ Merged(a, b).actions = IF b.actions = <<>> THEN a.actions ELSE b.actions
  BY DEF Merged, Requests
<1>2. Merged(there, wanted) \in Requests
  BY MergedTyped
<1>3. ASSUME ~Differs(there, wanted) PROVE ~Differs(there, Merged(there, wanted))
  BY <1>1, <1>3 DEF Differs
<1>4. LET now == Merged(there, wanted) IN ~Differs(now, Merged(now, wanted))
  <2> DEFINE now == Merged(there, wanted)
  <2>1. now \in Requests
    BY <1>2
  <2>2. now.body = wanted.body
        /\ now.priority = (IF wanted.priority = 0 THEN there.priority ELSE wanted.priority)
        /\ now.actions = (IF wanted.actions = <<>> THEN there.actions ELSE wanted.actions)
    BY <1>1
  <2> HIDE DEF now
  <2>3. ~Differs(now, Merged(now, wanted))
    BY <1>1, <2>1, <2>2 DEF Differs
  <2> QED
    BY <2>3 DEF now
<1>5. ~Differs(there, Merged(there, there))
  BY <1>1 DEF Differs
<1> QED
  BY <1>3, <1>4, <1>5

-----------------------------------------------------------------------------
(* The wakeups. *)

\* A key that will be reconciled again will be, unless the manager restarts,
\* until the worker takes it up.
LEMMA AgainStays ==
  ASSUME CopyInv, QuietFollows, [Next]_vars, NEW k \in Keys, Again(k)
  PROVE  Again(k)' \/ Restart \/ (key' = k /\ pc' = "get")
<1>1. CASE UNCHANGED <<cache, pending>> /\ queue \cup delayed \subseteq queue' \cup delayed'
  BY <1>1 DEF Again, EventComing
<1>2. CASE /\ queue \cup delayed \subseteq queue' \cup delayed'
           /\ UNCHANGED cache
           /\ \E j \in Keys, r \in MaybeRoutes : Store(j, r)
  BY <1>2, StoreEvents DEF Again, CopyInv
<1>3. CASE Reconcile
  <2>1. UNCHANGED cache
    BY <1>3, ReconcileShape DEF CopyInv
  <2>2. queue' = queue /\ delayed \subseteq delayed'
    BY <1>3
    DEF Reconcile, Get, AddFinalizer, GetDomain, SaveWait, GetRoute, UpdateRoute,
        SaveUpdateFailed, CreateRoute, SaveCreateFailed, SaveId, Claim, DelGetRoute, DeleteRoute,
        SaveDeleteFailed, Release, Provide, SendRequest, Call, Return, Requeue, ReadStep,
        StoreStep, MailgunStep
  <2> QED
    BY <1>1, <1>2, <1>3, <2>1, <2>2, WorkerStores
<1>4. CASE \E j \in Keys : UsersWrite(j)
  <2>1. UNCHANGED <<cache, queue, delayed>>
    BY <1>4 DEF UsersWrite
  <2>2. \E j \in Keys, r \in MaybeRoutes : Store(j, r)
    BY <1>4, UsersShape DEF CopyInv
  <2> QED
    BY <1>2, <2>1, <2>2
<1>5. CASE \E j \in Keys : Deliver(j)
  BY <1>5, DeliverAgain
<1>6. CASE \E j \in Keys : Dequeue(j)
  BY <1>1, <1>6 DEF Dequeue, storeVars, Again, EventComing
<1>7. CASE (\E j \in Keys : TimerFires(j)) \/ MailgunMoves \/ UNCHANGED vars
  BY <1>1, <1>7 DEF TimerFires, MailgunMoves, vars, storeVars
<1> QED
  BY <1>3, <1>4, <1>5, <1>6, <1>7 DEF Next

\* A key that will not be reconciled again has a Route that follows the one it
\* had before the step.
LEMMA QuietStep ==
  ASSUME CopyInv, QuietFollows, [Next]_vars, NEW k \in Keys, ~Again(k)'
  PROVE  \/ Restart
         \/ key' = k /\ pc' = "get"
         \/ ~Again(k) /\ Follows(routes[k], routes'[k])
<1>1. CASE Again(k)
  BY <1>1, AgainStays
<1>2. CASE ~Again(k) /\ routes'[k] = routes[k]
  BY <1>2, FollowsOrder
<1>3. CASE ~Again(k) /\ routes'[k] # routes[k]
  <2>1. PICK j \in Keys, r \in MaybeRoutes : Store(j, r) /\ UNCHANGED cache
    <3>1. CASE Reconcile
      <4>1. UNCHANGED cache
        BY <3>1, ReconcileShape DEF CopyInv
      <4> QED
        BY <1>3, <3>1, <4>1, WorkerStores
    <3>2. CASE \E j \in Keys : UsersWrite(j)
      BY <3>2, UsersShape DEF CopyInv
    <3> QED
      BY <1>3, <3>1, <3>2, Writers
  <2>2. k = j /\ routes'[k] = r
    BY <1>3, <2>1 DEF Store, CopyInv, TypeInv, StoreTypeOK
  <2>3. ~PassesPredicate(routes[k], r)
    BY <1>3, <2>1, <2>2, StoreEvents DEF Again, CopyInv
  <2> QED
    BY <1>3, <2>2, <2>3, StepFollows
<1> QED
  BY <1>1, <1>2, <1>3

\* A Route with an id shows the route to the worker that last compared it.
LEMMA CopyFollowsStays ==
  ASSUME CopyInv, QuietFollows, CopyFollows, [Next]_vars
  PROVE  CopyFollows'
<1> SUFFICES ASSUME Working', pc' \notin {"saveId", "claim"}, ~Again(key)'
             PROVE  Follows(obj, routes[key])'
  BY DEF CopyFollows
<1>1. TypeInv /\ TypeInv'
  BY NextTyped DEF CopyInv
<1>2. PICK k \in Keys : k = key'
  BY <1>1 DEF TypeInv, WorkerTypeOK, Working
<1>3. ~Again(k)'
  BY <1>2
<1>4. ~Restart /\ pc' # "get"
  BY DEF Restart, Idle, Working
<1>5. ~Again(k) /\ Follows(routes[k], routes'[k])
  BY <1>3, <1>4, QuietStep
<1>6. CASE Reconcile
  <2>1. CASE Reading
    <3>1. key = k /\ obj' = cache[k] /\ routes'[k] = routes[k]
      BY <1>2, <2>1 DEF Reading
    <3>2. QuietFrom(k, 0)
      BY <1>1, <1>5, EventsComing DEF Again
    <3>3. Len(pending[k]) \in Nat
      BY <1>1 DEF TypeInv, StoreTypeOK
    <3>4. Follows(Version(k, 0), routes[k])
      BY <3>2, <3>3 DEF QuietFollows
    <3> QED
      BY <1>2, <3>1, <3>4 DEF Version
  <2>2. CASE GoingOn
    <3>1. key = k /\ Working /\ obj' \in Routes /\ SameObject(obj', obj) /\ obj \in Routes
      BY <1>1, <1>2, <2>2 DEF GoingOn, TypeInv, WorkerTypeOK, Working
    <3>2. CASE UNCHANGED <<routes, pending>> /\ obj'.finalizer = obj.finalizer /\ obj'.id = obj.id
               /\ pc \notin {"saveId", "claim"}
      <4>1. Follows(obj, routes[k])
        BY <1>5, <3>1, <3>2 DEF CopyFollows
      <4>2. Follows(obj', routes[k])
        BY <3>1, <3>2, <4>1, RouteStoreAssumption DEF Follows, SameObject
      <4> QED
        BY <1>2, <3>2, <4>2
    <3>3. CASE \E r \in Routes : /\ Store(key, r)
                                 /\ SameObject(r, obj') /\ r.id = obj'.id
                                 /\ r.finalizer = obj'.finalizer
      <4>1. PICK r \in Routes : /\ Store(k, r)
                                /\ SameObject(r, obj') /\ r.id = obj'.id
                                /\ r.finalizer = obj'.finalizer
        BY <3>1, <3>3
      <4>2. routes'[k] = r
        BY <1>1, <4>1 DEF Store, TypeInv, StoreTypeOK
      <4>3. Follows(obj', r)
        BY <3>1, <4>1, RouteStoreAssumption DEF Follows, SameObject
      <4> QED
        BY <1>2, <4>2, <4>3
    <3> QED
      BY <2>2, <3>2, <3>3 DEF GoingOn
  <2> QED
    BY <1>1, <1>6, <2>1, <2>2, ReconcileShape DEF Ending, Working
<1>7. CASE ~Reconcile
  <2>1. UNCHANGED <<pc, key, obj>>
    BY <1>1, <1>4, <1>7, Kinds, UsersShape DEF Dequeue, Deliver, workerVars, Working
  <2>2. Follows(obj, routes[k])
    BY <1>2, <1>5, <2>1 DEF CopyFollows, Working
  <2>3. Follows(obj', routes'[k])
    BY <1>5, <2>1, <2>2, FollowsOrder
  <2> QED
    BY <1>2, <2>3
<1> QED
  BY <1>6, <1>7

\* A creation that is answered posts what the Route in memory asks for.
LEMMA PostedRequest ==
  ASSUME TypeInv, Reconcile, pc = "createRoute", pc' = "saveId"
  PROVE  /\ obj' = [obj EXCEPT !.id = Len(posted')]
         /\ posted'[Len(posted')].request = obj.spec.request
<1>1. posted \in Seq(PostedRoutes \cup {Nil}) /\ obj \in Routes
  BY DEF TypeInv, MailgunTypeOK, WorkerTypeOK
<1>2. CreateRoute
  BY DEF Reconcile, Get, AddFinalizer, GetDomain, SaveWait, GetRoute, UpdateRoute,
         SaveUpdateFailed, SaveCreateFailed, SaveId, Claim, DelGetRoute, DeleteRoute,
         SaveDeleteFailed, Release
<1> DEFINE p == [owner |-> obj.uid, request |-> obj.spec.request, domain |-> obj.spec.domain]
<1>3. posted' = Append(posted, p)
  BY <1>2 DEF CreateRoute, Call, Post
<1>4. p \in PostedRoutes /\ p.request = obj.spec.request
  BY <1>1 DEF PostedRoutes, Routes, Specs
<1> HIDE DEF p
<1>5. /\ Len(posted') = Len(posted) + 1 /\ Len(posted) \in Nat
      /\ posted'[Len(posted) + 1] = p
  BY <1>1, <1>3, <1>4
<1> QED
  BY <1>2, <1>4, <1>5 DEF CreateRoute, Call

\* The worker takes up a copy it can provide for: it is not marked, and has the
\* finalizer if it has an id.
LEMMA GetKnown ==
  ASSUME CopyInv, MarkedOK, Get
  PROVE  CopyKnown'
<1>1. key \in Keys /\ pc = "get"
  BY DEF Get, CopyInv, TypeInv, WorkerTypeOK
<1>2. PICK r \in MaybeRoutes : r = cache[key]
  BY <1>1 DEF CopyInv, TypeInv, StoreTypeOK, MaybeRoutes
<1>3. r # Nil => r \in Routes /\ (r.deleting => r.finalizer = TRUE)
  <2>1. r \in Versions(key)
    BY <1>2 DEF Versions
  <2> QED
    BY <1>1, <2>1 DEF MaybeRoutes, MarkedOK
<1>4. CASE r = Nil /\ Return
  BY <1>4 DEF Return, Idle, CopyKnown, Working
<1>5. CASE r # Nil /\ ~r.deleting /\ Call("addFinalizer", r, pending[key] = <<>>)
  <2>1. r.deleting = FALSE
    BY <1>3, <1>5 DEF Routes
  <2> QED
    BY <1>5, <2>1 DEF Call, CopyKnown, Working
<1>6. CASE /\ r # Nil
           /\ IF r.deleting THEN ~r.finalizer ELSE r.finalizer \/ r.id = 0
           /\ Provide(r, pending[key] = <<>>)
  <2>1. r.deleting = FALSE /\ (r.id # 0 => r.finalizer = TRUE)
    BY <1>3, <1>6 DEF Routes
  <2>2. pc' \in {"getDomain", "getRoute", "createRoute"} /\ obj' = r
    BY <1>6, ProvideShape
  <2>3. pc' = "getRoute" => r.id # 0
    BY <1>6 DEF Provide, SendRequest, Call
  <2> QED
    BY <2>1, <2>2, <2>3 DEF CopyKnown, Working
<1>7. CASE r # Nil /\ Call(IF r.id = 0 THEN "release" ELSE "delGetRoute", r, pending[key] = <<>>)
  BY <1>7 DEF Call, CopyKnown, Working, DelSteps
<1> QED
  BY <1>2, <1>4, <1>5, <1>6, <1>7 DEF Get

\* What the worker knows of its copy it knows at the next call.
LEMMA CopyKnownStays ==
  ASSUME CopyInv, MarkedOK, CopyKnown, [Next]_vars
  PROVE  CopyKnown'
<1>1. TypeInv /\ TypeInv' /\ (Working => obj \in Routes)
  BY NextTyped DEF CopyInv, TypeInv, WorkerTypeOK, Working
<1>2. CASE Reconcile /\ ~Get
  <2>0. CASE pc' = "idle"
    BY <2>0 DEF CopyKnown, Working
  <2>1. CASE pc' # "idle"
    <3>1. Working /\ SameObject(obj', obj) /\ obj \in Routes /\ obj' \in Routes
      <4>1. GoingOn
        BY <1>1, <1>2, <2>1, SaveStepsShape, AddFinalizerShape, CallsShape DEF Reconcile, Ending
      <4> QED
        BY <1>1, <4>1 DEF GoingOn
    <3>2. pc \in DelSteps => pc' \in DelSteps
      BY <1>2, <2>1
      DEF Reconcile, AddFinalizer, GetDomain, SaveWait, GetRoute, UpdateRoute, DelSteps,
          SaveUpdateFailed, CreateRoute, SaveCreateFailed, SaveId, Claim, DelGetRoute,
          DeleteRoute, SaveDeleteFailed, Release, Call, Return, Requeue, Idle
    <3>3. pc' \notin DelSteps => obj'.deleting = FALSE
      BY <3>1, <3>2 DEF CopyKnown, SameObject
    <3>4. CASE pc' \in {"getDomain", "getRoute", "updateRoute"}
      <4>1. CASE AddFinalizer
        <5>1. obj'.finalizer = TRUE
          BY <2>1, <3>1, <4>1 DEF AddFinalizer, Provide, SendRequest, Call, Requeue, Idle, Routes
        <5>2. pc' # "updateRoute" /\ (pc' = "getRoute" => obj'.id # 0)
          BY <2>1, <4>1 DEF AddFinalizer, Provide, SendRequest, Call, Requeue, Idle
        <5> QED
          BY <3>3, <3>4, <5>1, <5>2 DEF CopyKnown, DelSteps
      <4>2. CASE ~AddFinalizer
        <5>1. /\ obj' = obj /\ pc \in {"getDomain", "getRoute"}
              /\ pc = "getDomain" => pc' = "getRoute" /\ obj.id # 0
          BY <1>2, <2>1, <3>4, <4>2
          DEF Reconcile, GetDomain, SaveWait, GetRoute, UpdateRoute, SaveUpdateFailed,
              CreateRoute, SaveCreateFailed, SaveId, Claim, DelGetRoute, DeleteRoute,
              SaveDeleteFailed, Release, SendRequest, Call, Return, Requeue, Idle
        <5> QED
          BY <3>3, <3>4, <5>1 DEF CopyKnown, DelSteps
      <4> QED
        BY <4>1, <4>2
    <3>5. CASE pc' = "saveId"
      <4>1. pc = "createRoute"
        BY <1>2, <3>5
        DEF Reconcile, AddFinalizer, GetDomain, SaveWait, GetRoute, UpdateRoute,
            SaveUpdateFailed, CreateRoute, SaveCreateFailed, SaveId, Claim, DelGetRoute,
            DeleteRoute, SaveDeleteFailed, Release, Provide, SendRequest, Call, Return, Requeue,
            Idle
      <4>2. /\ Len(posted') # 0
            /\ posted'[Len(posted')].request = obj.spec.request
            /\ obj' = [obj EXCEPT !.id = Len(posted')]
        BY <1>1, <1>2, <3>5, <4>1, PostedNew, PostedRequest
      <4>3. obj'.id = Len(posted') /\ obj'.spec = obj.spec
        BY <3>1, <4>2 DEF Routes
      <4> QED
        BY <3>3, <3>5, <4>2, <4>3 DEF CopyKnown, DelSteps
    <3>6. CASE pc' = "claim"
      <4>1. /\ pc = "saveId" /\ posted' = posted
            /\ obj' = [obj EXCEPT !.finalizer = TRUE]
        BY <1>2, <3>6
        DEF Reconcile, AddFinalizer, GetDomain, SaveWait, GetRoute, UpdateRoute,
            SaveUpdateFailed, CreateRoute, SaveCreateFailed, SaveId, Claim, DelGetRoute,
            DeleteRoute, SaveDeleteFailed, Release, Provide, SendRequest, Call, Return, Requeue,
            Idle, StoreStep, mailgunVars
      <4>2. obj'.id = obj.id /\ obj'.spec = obj.spec
        BY <3>1, <4>1 DEF Routes
      <4> QED
        BY <3>3, <3>6, <4>1, <4>2 DEF CopyKnown, DelSteps, Exists
    <3>7. CASE pc' \notin {"getDomain", "getRoute", "updateRoute", "saveId", "claim"}
      BY <3>3, <3>7 DEF CopyKnown
    <3> QED
      BY <3>4, <3>5, <3>6, <3>7
  <2> QED
    BY <2>0, <2>1
<1>3. CASE ~Reconcile /\ UNCHANGED <<pc, obj>>
  <2>1. posted \in Seq(PostedRoutes \cup {Nil})
    BY <1>1 DEF TypeInv, MailgunTypeOK
  <2>2. UNCHANGED posted \/ \E i \in DOMAIN posted : RemovedByHand(i)
    BY <1>3
    DEF Next, Restart, Dequeue, Deliver, TimerFires, UsersWrite, MailgunMoves, DomainMoves,
        mailgunVars, vars
  <2>3. \A i \in Nat : Exists(i)' => Exists(i) /\ posted'[i] = posted[i]
    BY <2>1, <2>2 DEF RemovedByHand, Remove, Exists
  <2>4. Working => obj.id \in Nat
    BY <1>1 DEF Routes
  <2> QED
    BY <1>3, <2>3, <2>4 DEF CopyKnown, Working, Exists
<1>4. CASE ~Reconcile /\ ~UNCHANGED <<pc, obj>>
  <2>1. ~Working'
    BY <1>1, <1>4, Kinds, UsersShape DEF Restart, Idle, Dequeue, Deliver, workerVars, Working
  <2> QED
    BY <2>1 DEF CopyKnown, Working
<1> QED
  BY <1>2, <1>3, <1>4, GetKnown DEF Reconcile

\* The route of another Route is changed only by its deletion at Mailgun.
LEMMA OthersRoutes ==
  ASSUME IdsInv, [Next]_vars, NEW k \in Keys, routes[k] # Nil, routes[k].id # 0, key # k,
         posted'[routes[k].id] # Nil, routes[k].id \in DOMAIN posted
  PROVE  posted'[routes[k].id] = posted[routes[k].id]
<1> DEFINE i == routes[k].id
<1>1. posted \in Seq(PostedRoutes \cup {Nil}) /\ i \in DOMAIN posted
  BY DEF IdsInv, CopyInv, TypeInv, MailgunTypeOK
<1>2. CASE UNCHANGED posted
  BY <1>2
<1>3. CASE UpdateRoute /\ Put(obj)
  <2>1. obj \in Routes /\ key \in Keys /\ Working
    BY <1>3 DEF UpdateRoute, IdsInv, CopyInv, TypeInv, WorkerTypeOK, Working
  <2>2. routes[k] \in Routes
    BY DEF IdsInv, CopyInv, TypeInv, StoreTypeOK
  <2>3. Known(key, obj) /\ Known(k, routes[k])
    BY <2>1, RouteStoreAssumption DEF Known
  <2>4. obj.uid # routes[k].uid
    BY <2>1, <2>2, <2>3 DEF IdsInv, UidsOK
  <2>5. posted[obj.id] # Nil /\ obj.id \in DOMAIN posted
    BY <1>3 DEF Put, Exists
  <2>6. obj.id # i
    <3> SUFFICES ASSUME obj.id = i PROVE FALSE
      OBVIOUS
    <3>1. posted[i].owner = routes[k].uid
      BY <2>2, <2>3, <2>5 DEF IdsInv, KnownOK, OwnId
    <3>2. posted[i].owner = obj.uid
      BY <2>1, <2>3, <2>5 DEF IdsInv, KnownOK, OwnId
    <3> QED
      BY <2>4, <3>1, <3>2
  <2>7. \A m \in DOMAIN posted : m # obj.id => posted'[m] = posted[m]
    BY <1>1, <1>3 DEF Put
  <2> QED
    BY <1>1, <2>6, <2>7
<1>4. CASE Post(obj)
  <2>1. \E p : posted' = Append(posted, p)
    BY <1>4 DEF Post
  <2> QED
    BY <1>1, <2>1
<1>5. CASE Remove(obj.id)
  BY <1>1, <1>5 DEF Remove, Exists
<1>6. CASE \E m \in DOMAIN posted : RemovedByHand(m)
  BY <1>1, <1>6 DEF RemovedByHand, Remove, Exists
<1>7. CASE Reconcile
  <2>1. CASE UpdateRoute \/ CreateRoute \/ DeleteRoute
    BY <1>2, <1>3, <1>4, <1>5, <2>1 DEF UpdateRoute, CreateRoute, DeleteRoute
  <2>2. CASE ~(UpdateRoute \/ CreateRoute \/ DeleteRoute)
    BY <1>2, <1>7, <2>2
    DEF Reconcile, Get, AddFinalizer, GetDomain, SaveWait, GetRoute, SaveUpdateFailed,
        SaveCreateFailed, SaveId, Claim, DelGetRoute, SaveDeleteFailed, Release, ReadStep,
        StoreStep, mailgunVars
  <2> QED
    BY <2>1, <2>2
<1>8. CASE Restart \/ (\E j \in Keys : Dequeue(j) \/ Deliver(j) \/ TimerFires(j) \/ UsersWrite(j))
  BY <1>2, <1>8 DEF Restart, Dequeue, Deliver, TimerFires, UsersWrite, mailgunVars
<1>9. CASE (\E n \in Domains : DomainMoves(n)) \/ UNCHANGED vars
  BY <1>2, <1>9 DEF DomainMoves, vars, mailgunVars
<1> QED
  BY <1>6, <1>7, <1>8, <1>9 DEF Next, MailgunMoves

\* A Route nobody works on and nothing wakes has no more work than it had.
LEMMA OthersCovered ==
  ASSUME IdsInv, [Next]_vars, NEW k \in Keys, key # k, ~NeedsWork(k),
         Follows(routes[k], routes'[k])
  PROVE  ~NeedsWork(k)'
<1> SUFFICES ASSUME routes'[k] # Nil PROVE ~NeedsWork(k)'
  BY DEF NeedsWork, Live
<1>1. routes[k] # Nil
  BY DEF Follows
<1>2. routes[k] \in Routes /\ posted \in Seq(PostedRoutes \cup {Nil})
  BY <1>1 DEF IdsInv, CopyInv, TypeInv, StoreTypeOK, MailgunTypeOK
<1>3. ~routes[k].deleting /\ routes[k].id # 0 /\ routes[k].finalizer /\ ~OutOfDate(k)
  BY <1>1 DEF NeedsWork, Live
<1>4. routes[k].finalizer = TRUE
  BY <1>2, <1>3 DEF Routes
<1>5. /\ ~routes'[k].deleting /\ routes'[k].id = routes[k].id /\ routes'[k].finalizer
      /\ routes'[k].spec = routes[k].spec
  BY <1>1, <1>3, <1>4 DEF Follows
<1>6. PICK i \in Nat : i = routes[k].id
  BY <1>2 DEF Routes
<1>7. i \in DOMAIN posted
  <2>1. Known(k, routes[k])
    BY <1>1 DEF Known
  <2> QED
    BY <1>2, <1>3, <1>6, <2>1 DEF IdsInv, KnownOK, OwnId
<1>8. ~OutOfDate(k)'
  <2> SUFFICES ASSUME Exists(i)'
               PROVE  ~Differs(posted'[i].request,
                               Merged(posted'[i].request, routes'[k].spec.request))
    BY <1>5, <1>6 DEF OutOfDate, Differs, Merged
  <2>1. posted'[i] = posted[i] /\ Exists(i)
    BY <1>1, <1>3, <1>6, <1>7, OthersRoutes DEF Exists
  <2> QED
    BY <1>3, <1>5, <1>6, <2>1 DEF OutOfDate
<1> QED
  BY <1>3, <1>5, <1>8 DEF NeedsWork, Live

\* A reconcile that ends without a requeue leaves no work at its key.
LEMMA EndsDone ==
  ASSUME AnsweredOnUpdate, WakeupInv, Reconcile, NEW k \in Keys, k = key, key' # k,
         ~Again(k)', Follows(routes[k], routes'[k]), ~Again(k)
  PROVE  ~NeedsWork(k)'
<1> USE RouteStoreAssumption
<1>1. /\ routes \in [Keys -> MaybeRoutes] /\ posted \in Seq(PostedRoutes \cup {Nil})
      /\ Len(pending[k]) \in Nat
  BY DEF WakeupInv, IdsInv, CopyInv, TypeInv, StoreTypeOK, MailgunTypeOK, MaybeRoutes
<1>2. Return /\ k \notin delayed'
  BY DEF Reconcile, Get, AddFinalizer, GetDomain, SaveWait, GetRoute, UpdateRoute,
         SaveUpdateFailed, CreateRoute, SaveCreateFailed, SaveId, Claim, DelGetRoute, DeleteRoute,
         SaveDeleteFailed, Release, Provide, SendRequest, Call, Requeue, Again
<1>3. \/ Get \/ GetRoute \/ UpdateRoute \/ Claim \/ Release
  BY <1>2
  DEF Reconcile, AddFinalizer, GetDomain, SaveWait, SaveUpdateFailed, CreateRoute,
      SaveCreateFailed, SaveId, DelGetRoute, DeleteRoute, SaveDeleteFailed, Provide, SendRequest,
      Call, Return, Requeue, Idle, Again
<1>4. CASE Get
  <2>1. cache[k] = Nil /\ routes' = routes
    BY <1>2, <1>4 DEF Get, Provide, SendRequest, Call, Return, Idle, ReadStep, storeVars
  <2>2. QuietFrom(k, 0)
    BY EventsComing DEF Again, WakeupInv, IdsInv, CopyInv
  <2>3. Follows(Version(k, 0), routes[k])
    BY <1>1, <2>2 DEF WakeupInv, QuietFollows
  <2>4. routes[k] = Nil
    BY <2>1, <2>3 DEF Follows, Version
  <2> QED
    BY <2>1, <2>4 DEF NeedsWork, Live
<1>5. CASE GetRoute \/ UpdateRoute
  <2>1. obj \in Routes /\ pc \in {"getRoute", "updateRoute"}
    BY <1>5 DEF GetRoute, UpdateRoute, WakeupInv, IdsInv, CopyInv, TypeInv, WorkerTypeOK
  <2>2. Follows(obj, routes[k])
    BY <2>1 DEF WakeupInv, CopyFollows, Working
  <2>3. obj.deleting = FALSE /\ obj.id # 0 /\ obj.finalizer = TRUE
    BY <2>1 DEF WakeupInv, CopyKnown, Working, DelSteps
  <2>4. routes'[k] = routes[k]
    BY <1>5 DEF GetRoute, UpdateRoute, ReadStep, MailgunStep, storeVars
  <2>5. /\ routes[k].deleting = FALSE /\ routes[k].id = obj.id /\ routes[k].finalizer = TRUE
        /\ routes[k].spec = obj.spec /\ routes[k] # Nil
    BY <2>1, <2>2, <2>3 DEF Follows
  <2>6. PICK i \in Nat, w \in Requests : i = obj.id /\ w = obj.spec.request
    BY <2>1 DEF Routes, Specs
  <2>7. ASSUME Exists(i)' PROVE ~Differs(posted'[i].request, Merged(posted'[i].request, w))
    <3>1. CASE GetRoute
      <4>1. posted' = posted /\ ~Differs(posted[i].request, w)
        BY <1>2, <2>6, <2>7, <3>1
        DEF GetRoute, Call, Return, Idle, FailsUnless, Fault, AnsweredOnUpdate, ReadStep,
            mailgunVars, Exists
      <4>2. posted[i].request \in Requests
        BY <1>1, <2>7, <4>1 DEF Exists, PostedRoutes
      <4> QED
        BY <4>1, <4>2, MergedAgain
    <3>2. CASE UpdateRoute
      <4>1. Put(obj)
        BY <1>2, <3>2 DEF UpdateRoute, Call, Return, Idle
      <4>2. i \in DOMAIN posted /\ posted[i] \in PostedRoutes
        BY <1>1, <2>6, <4>1 DEF Put, Exists
      <4>3. PICK old \in Requests : old = posted[i].request
        BY <4>2 DEF PostedRoutes
      <4>4. posted'[i].request = Merged(old, w)
        BY <1>1, <2>6, <4>1, <4>2, <4>3 DEF Put, PostedRoutes
      <4> QED
        BY <4>3, <4>4, MergedAgain
    <3> QED
      BY <1>5, <3>1, <3>2
  <2>8. ~OutOfDate(k)'
    BY <2>4, <2>5, <2>6, <2>7 DEF OutOfDate, Differs, Merged
  <2> QED
    BY <2>3, <2>4, <2>5, <2>8 DEF NeedsWork, Live
<1>6. CASE Claim
  <2>1. obj \in Routes /\ pc = "claim"
    BY <1>6 DEF Claim, WakeupInv, IdsInv, CopyInv, TypeInv, WorkerTypeOK
  <2>2. Saved(obj)
    BY <1>2, <1>6 DEF Claim, Requeue, Again
  <2>3. routes'[k] = obj /\ posted' = posted
    BY <1>1, <1>6, <2>2 DEF Claim, Saved, Store, StoreStep, mailgunVars
  <2>4. /\ obj.deleting = FALSE /\ obj.id # 0
        /\ Exists(obj.id) => posted[obj.id].request = obj.spec.request
    BY <2>1 DEF WakeupInv, CopyKnown, Working, DelSteps
  <2>5. obj.finalizer = TRUE
    BY <2>1 DEF WakeupInv, IdsInv, CopyInv, StepOK
  <2>6. obj.spec.request \in Requests
    BY <2>1 DEF Routes, Specs
  <2>7. PICK i \in Nat, w \in Requests : i = obj.id /\ w = obj.spec.request
    BY <2>1, <2>6 DEF Routes
  <2>8. ~Differs(w, Merged(w, w))
    BY MergedAgain
  <2>9. ~OutOfDate(k)'
    BY <2>3, <2>4, <2>7, <2>8 DEF OutOfDate, Differs, Merged, Exists
  <2> QED
    BY <2>3, <2>4, <2>5, <2>9 DEF NeedsWork, Live
<1>7. CASE Release
  <2>1. Saved(Released(obj))
    BY <1>2, <1>7 DEF Release, Requeue, Again
  <2>2. obj.deleting
    BY <1>7 DEF Release, WakeupInv, IdsInv, CopyInv, StepOK, DelSteps
  <2>3. routes'[k] = Nil
    BY <1>1, <2>1, <2>2 DEF Saved, Store, Released
  <2> QED
    BY <2>3 DEF NeedsWork, Live
<1> QED
  BY <1>3, <1>4, <1>5, <1>6, <1>7

\* Initially nothing is stored, cached or copied.
LEMMA InitWakeupInv == Init => WakeupInv
<1> SUFFICES ASSUME Init PROVE WakeupInv
  OBVIOUS
<1>1. IdsInv
  BY InitIdsInv
<1>2. IdleKey /\ CopyKnown /\ CopyFollows /\ NoLostWakeup
  BY DEF Init, StoreInit, IdleKey, CopyKnown, CopyFollows, Working, NoLostWakeup, NeedsWork, Live
<1>3. \A k \in Keys : routes[k] = Nil /\ cache[k] = Nil /\ pending[k] = <<>>
  BY DEF Init, StoreInit
<1>4. MarkedOK
  BY <1>3, RouteStoreAssumption DEF MarkedOK, Versions
<1>5. QuietFollows
  BY <1>3 DEF QuietFollows, Version, Follows
<1> QED
  BY <1>1, <1>2, <1>4, <1>5 DEF WakeupInv

\* Every step keeps it.
LEMMA NextWakeupInv ==
  ASSUME AnsweredOnUpdate, WakeupInv, [Next]_vars
  PROVE  WakeupInv'
<1>1. CopyInv /\ IdsInv /\ QuietFollows /\ MarkedOK /\ CopyKnown /\ CopyFollows /\ IdleKey
  BY DEF WakeupInv, IdsInv
<1>2. IdsInv' /\ QuietFollows' /\ MarkedOK' /\ IdleKey' /\ CopyKnown' /\ CopyFollows'
  BY <1>1, NextIdsInv, NextQuietFollows, MarkedStays, NextIdleKey, CopyKnownStays,
     CopyFollowsStays
<1>3. ASSUME NEW k \in Keys, ~Again(k)', key' # k PROVE ~NeedsWork(k)'
  <2>1. CASE Restart
    BY <1>3, <2>1 DEF Restart, Again, NeedsWork, Live
  <2>2. CASE ~Restart
    <3>1. ~Again(k) /\ Follows(routes[k], routes'[k])
      BY <1>1, <1>3, <2>2, QuietStep
    <3>2. CASE key # k
      <4>1. ~NeedsWork(k)
        BY <3>1, <3>2 DEF WakeupInv, NoLostWakeup, Again
      <4> QED
        BY <1>1, <3>1, <3>2, <4>1, OthersCovered
    <3>3. CASE key = k
      <4>1. Reconcile
        <5>1. key # Nil
          BY <3>3, RouteStoreAssumption
        <5> QED
          BY <1>1, <1>3, <2>2, <3>3, <5>1
          DEF Next, Dequeue, Deliver, TimerFires, UsersWrite, MailgunMoves, vars, workerVars,
              IdleKey
      <4> QED
        BY <1>3, <3>1, <3>3, <4>1, EndsDone
    <3> QED
      BY <3>2, <3>3
  <2> QED
    BY <2>1, <2>2
<1>4. NoLostWakeup'
  BY <1>3 DEF NoLostWakeup, Again
<1> QED
  BY <1>2, <1>4 DEF WakeupInv

\* Reconcile is level triggered, but the predicate hides the status changes it
\* makes itself.  Where the lookup before an update only fails for a route that
\* is not there: whatever conflicts, errors, restarts and stale reads happen, a
\* Route with work left is queued, waits for a timer, is being reconciled, or has
\* an event coming that queues it.
THEOREM WakeupsNotLost == ASSUME AnsweredOnUpdate PROVE Spec => []NoLostWakeup
<1>1. WakeupInv /\ [Next]_vars => WakeupInv'
  BY NextWakeupInv
<1>2. WakeupInv => NoLostWakeup
  BY DEF WakeupInv
<1> QED
  BY <1>1, <1>2, InitWakeupInv, PTL DEF Spec
=============================================================================
