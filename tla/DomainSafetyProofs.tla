------------------------- MODULE DomainSafetyProofs -------------------------
(***************************************************************************)
(* The ground of the proofs about the Domain controller, for every value   *)
(* of the constants: its types, what a copy that may still be saved says   *)
(* of the stored object, and that the worker never takes back what users   *)
(* did.  TypeOK is not inductive: the steps between two calls use key and  *)
(* obj without a test, so the invariant says when they are set.            *)
(***************************************************************************)
EXTENDS DomainProperties, SequenceTheorems, TLAPS

-----------------------------------------------------------------------------
(* Types. *)

MaybeObjects == Objects \cup {Nil}

WorkerTypeOK ==
  /\ pc \in Steps
  /\ key \in Keys \cup {Nil}
  /\ obj \in MaybeObjects
  /\ fresh \in BOOLEAN
  /\ delayed \subseteq Keys
  /\ pc # "idle" => key \in Keys
  /\ pc \notin {"idle", "get"} => obj \in Objects

RestTypeOK ==
  /\ queue \subseteq Keys
  /\ faults \in Nat
  /\ restarts \in Nat

\* The inductive form of TypeOK.
TypeInv == StoreTypeOK /\ MailgunTypeOK /\ WorkerTypeOK /\ RestTypeOK

-----------------------------------------------------------------------------
(* Objects. *)

\* A new object is an object.
LEMMA NewObjectTyped ==
  ASSUME NEW uid \in Nat, NEW spec \in Specs
  PROVE  NewObject(uid, spec) \in Objects
BY DEF NewObject, Objects, Statuses, States, Finalizers

\* Setting the state keeps the rest of an object.
LEMMA WithStateTyped ==
  ASSUME NEW o \in Objects, NEW s \in States
  PROVE  /\ WithState(o, s) \in Objects
         /\ WithState(o, s).uid = o.uid
         /\ WithState(o, s).spec = o.spec
         /\ WithState(o, s).deleting = o.deleting
         /\ WithState(o, s).finalizers = o.finalizers
         /\ WithState(o, s).status.state = s
BY DEF WithState, Objects, Statuses

\* So does setting a flag of the status.
LEMMA FlagsTyped ==
  ASSUME NEW o \in Objects
  PROVE  LET marked == [o EXCEPT !.status.notManaged = TRUE]
             created == [o EXCEPT !.status.dnsCreated = TRUE]
         IN  \A p \in {marked, created} :
               /\ p \in Objects
               /\ p.uid = o.uid
               /\ p.spec = o.spec
               /\ p.deleting = o.deleting
               /\ p.finalizers = o.finalizers
               /\ p.status.state = o.status.state
BY DEF Objects, Statuses

\* Adding a finalizer keeps the rest of an object.
LEMMA WithFinalizerTyped ==
  ASSUME NEW o \in Objects, NEW f \in Finalizers
  PROVE  /\ WithFinalizer(o, f) \in Objects
         /\ WithFinalizer(o, f).uid = o.uid
         /\ WithFinalizer(o, f).spec = o.spec
         /\ WithFinalizer(o, f).deleting = o.deleting
         /\ WithFinalizer(o, f).finalizers = o.finalizers \cup {f}
         /\ WithFinalizer(o, f).status = o.status
BY DEF WithFinalizer, Objects

\* Taking a finalizer off an object keeps the rest, or takes the object away.
LEMMA WithoutFinalizerTyped ==
  ASSUME NEW o \in Objects, NEW f
  PROVE  \/ /\ WithoutFinalizer(o, f) = Nil
            /\ o.deleting /\ o.finalizers \subseteq {f}
         \/ /\ WithoutFinalizer(o, f) \in Objects
            /\ ~(o.deleting /\ o.finalizers \subseteq {f})
            /\ WithoutFinalizer(o, f).uid = o.uid
            /\ WithoutFinalizer(o, f).spec = o.spec
            /\ WithoutFinalizer(o, f).deleting = o.deleting
            /\ WithoutFinalizer(o, f).finalizers = o.finalizers \ {f}
            /\ WithoutFinalizer(o, f).status = o.status
BY DEF WithoutFinalizer, Objects

\* Deletion marks an object that has finalizers, and takes the others away.
LEMMA DeletedTyped ==
  ASSUME NEW o \in Objects, NEW mode
  PROVE  \/ Deleted(o, mode) = Nil /\ o.finalizers = {}
         \/ /\ Deleted(o, mode) \in Objects
            /\ Deleted(o, mode).uid = o.uid
            /\ Deleted(o, mode).spec = o.spec
            /\ Deleted(o, mode).deleting
            /\ Deleted(o, mode).finalizers =
                 o.finalizers \cup (IF mode = "foreground" THEN {"foreground"} ELSE {})
            /\ Deleted(o, mode).finalizers # {}
            /\ Deleted(o, mode).status = o.status
<1> DEFINE kept == IF mode = "foreground" THEN WithFinalizer(o, "foreground") ELSE o
<1>1. /\ kept \in Objects
      /\ kept.uid = o.uid
      /\ kept.spec = o.spec
      /\ kept.finalizers = o.finalizers \cup (IF mode = "foreground" THEN {"foreground"} ELSE {})
      /\ kept.status = o.status
  BY WithFinalizerTyped DEF Finalizers
<1>2. Deleted(o, mode) = IF kept.finalizers = {} THEN Nil ELSE [kept EXCEPT !.deleting = TRUE]
  BY DEF Deleted
<1> HIDE DEF kept
<1> QED
  BY <1>1, <1>2 DEF Objects

-----------------------------------------------------------------------------
(* The parts steps are made of. *)

\* A store step puts an object, or none, at a key.
LEMMA StoreTyped ==
  ASSUME StoreTypeOK, NEW k \in Keys, NEW o \in MaybeObjects, Store(k, o)
  PROVE  /\ domains' \in [Keys -> MaybeObjects]
         /\ pending' \in [Keys -> Seq(MaybeObjects)]
<1>1. Append(pending[k], o) \in Seq(MaybeObjects)
  BY DEF StoreTypeOK, MaybeObjects
<1> QED
  BY <1>1 DEF Store, StoreTypeOK, MaybeObjects

\* The worker goes on with another call.
LEMMA CallTyped ==
  ASSUME TypeInv, pc # "idle",
         NEW step \in Steps \ {"idle"}, NEW o \in Objects, NEW current \in BOOLEAN,
         Call(step, o, current)
  PROVE  WorkerTypeOK'
BY DEF Call, TypeInv, WorkerTypeOK, MaybeObjects

\* The worker ends its reconcile.
LEMMA ReturnTyped ==
  ASSUME TypeInv, pc # "idle", Return \/ ReturnError \/ RequeueAfterVerify
  PROVE  WorkerTypeOK'
BY DEF Return, ReturnError, RequeueAfterVerify, Idle, TypeInv, WorkerTypeOK, MaybeObjects, Steps

\* An update of the Domain, whatever becomes of it, keeps every type but the
\* worker's.
LEMMA SaveTyped ==
  ASSUME TypeInv, pc # "idle", NEW o \in MaybeObjects, StoreStep,
         Saved(o) \/ SaveFails(o)
  PROVE  StoreTypeOK' /\ MailgunTypeOK' /\ RestTypeOK'
<1>1. key \in Keys
  BY DEF TypeInv, WorkerTypeOK
<1>2. faults' \in Nat
  BY DEF Saved, SaveFails, NoFault, Fault, TypeInv, RestTypeOK
<1>3. /\ domains' \in [Keys -> MaybeObjects]
      /\ pending' \in [Keys -> Seq(MaybeObjects)]
  <2>1. CASE Store(key, o)
    BY <1>1, <2>1, StoreTyped DEF TypeInv
  <2>2. CASE UNCHANGED <<domains, pending>>
    BY <2>2 DEF TypeInv, StoreTypeOK, MaybeObjects
  <2> QED
    BY <2>1, <2>2 DEF Saved, SaveFails
<1> QED
  BY <1>2, <1>3 DEF StoreStep, mailgunVars, TypeInv, StoreTypeOK, MailgunTypeOK, RestTypeOK,
                    MaybeObjects

\* Nor does a step that only reads change them.
LEMMA ReadTyped ==
  ASSUME TypeInv, ReadStep, NoFault \/ Fault
  PROVE  StoreTypeOK' /\ MailgunTypeOK' /\ RestTypeOK'
BY DEF ReadStep, storeVars, mailgunVars, NoFault, Fault, TypeInv, StoreTypeOK,
       MailgunTypeOK, RestTypeOK

\* Reconcile goes on after the finalizer, or ends.
LEMMA ProvisionTyped ==
  ASSUME TypeInv, pc # "idle", NEW o \in Objects, NEW current \in BOOLEAN,
         Provision(o, current) \/ Continue(o, current)
  PROVE  WorkerTypeOK'
<1>1. CASE Return
  BY <1>1, ReturnTyped
<1>2. CASE \E step \in {"lookup", "createEndpoint", "fetch"} : Call(step, o, current)
  BY <1>2, CallTyped DEF Steps
<1> QED
  BY <1>1, <1>2 DEF Provision, Continue

-----------------------------------------------------------------------------
(* The steps of the worker. *)

\* Get: the copy is what the cache holds.
LEMMA GetTyped ==
  ASSUME TypeInv, Get
  PROVE  TypeInv'
<1>1. pc = "get" /\ NoFault /\ ReadStep
  BY DEF Get
<1>2. WorkerTypeOK'
  <2> DEFINE o == cache[key]
             current == pending[key] = <<>>
  <2>1. CASE Return
    BY <2>1, <1>1, ReturnTyped
  <2>2. ASSUME o # Nil PROVE o \in Objects
    BY <2>2, <1>1 DEF TypeInv, WorkerTypeOK, StoreTypeOK
  <2>3. CASE o # Nil /\ \E step \in {"addFinalizer", "delGetEndpoint"} : Call(step, o, current)
    BY <2>3, <2>2, <1>1, CallTyped DEF Steps
  <2>4. CASE o # Nil /\ Provision(o, current)
    BY <2>4, <2>2, <1>1, ProvisionTyped
  <2> QED
    BY <2>1, <2>3, <2>4 DEF Get
<1> QED
  BY <1>1, <1>2, ReadTyped DEF TypeInv

\* AddFinalizer: the copy with its finalizer.
LEMMA AddFinalizerTyped ==
  ASSUME TypeInv, AddFinalizer
  PROVE  TypeInv'
<1> DEFINE o == WithFinalizer(obj, "domain")
<1>1. pc = "addFinalizer" /\ o \in Objects
  BY WithFinalizerTyped DEF AddFinalizer, TypeInv, WorkerTypeOK, Finalizers
<1>2. StoreStep /\ (Saved(o) \/ SaveFails(o)) /\ (Provision(o, TRUE) \/ ReturnError)
  BY DEF AddFinalizer
<1> HIDE DEF o
<1>3. WorkerTypeOK'
  BY <1>1, <1>2, ProvisionTyped, ReturnTyped
<1> QED
  BY <1>1, <1>2, <1>3, SaveTyped DEF TypeInv, MaybeObjects

\* The steps that save the copy and end the reconcile either way, or go on.
LEMMA SaveStepsTyped ==
  ASSUME TypeInv,
         \/ MarkExisting \/ SaveFailed \/ SaveEndpoint \/ SaveNotFound \/ SaveStatus
         \/ SaveDeleteFailed
  PROVE  TypeInv'
<1>1. /\ pc \in {"markExisting", "saveFailed", "saveEndpoint", "saveNotFound",
                 "saveStatus", "saveDeleteFailed"}
      /\ Saved(obj) \/ SaveFails(obj)
      /\ StoreStep
      /\ Return \/ ReturnError \/ RequeueAfterVerify \/ Call("fetch", obj, TRUE)
  BY DEF MarkExisting, SaveFailed, SaveEndpoint, SaveNotFound, SaveStatus, SaveDeleteFailed
<1>2. pc # "idle" /\ obj \in Objects
  BY <1>1 DEF TypeInv, WorkerTypeOK
<1>3. WorkerTypeOK'
  BY <1>1, <1>2, ReturnTyped, CallTyped DEF Steps
<1> QED
  BY <1>1, <1>2, <1>3, SaveTyped DEF TypeInv, MaybeObjects

\* SaveRecords: a failed save is saved as a failure.
LEMMA SaveRecordsTyped ==
  ASSUME TypeInv, SaveRecords
  PROVE  TypeInv'
<1>1. pc = "saveRecords" /\ obj \in Objects /\ StoreStep /\ (Saved(obj) \/ SaveFails(obj))
  BY DEF SaveRecords, TypeInv, WorkerTypeOK
<1>2. /\ WithState(obj, "created") \in Objects
      /\ WithState(obj, "failed") \in Objects
  BY <1>1, WithStateTyped DEF States
<1>3. WorkerTypeOK'
  <2>1. CASE Continue(WithState(obj, "created"), TRUE)
    BY <2>1, <1>1, <1>2, ProvisionTyped
  <2>2. CASE Call("saveFailed", WithState(obj, "failed"), fresh /\ pending' = pending)
    <3>1. (fresh /\ pending' = pending) \in BOOLEAN
      BY DEF TypeInv, WorkerTypeOK
    <3> QED
      BY <3>1, <2>2, <1>1, <1>2, CallTyped DEF Steps
  <2> QED
    BY <2>1, <2>2 DEF SaveRecords
<1> QED
  BY <1>1, <1>3, SaveTyped DEF TypeInv, MaybeObjects

\* The steps that ask Mailgun something, and NoteEndpoint.
LEMMA ReadStepsTyped ==
  ASSUME TypeInv,
         Lookup \/ Fetch \/ Verify \/ CheckMX \/ NoteEndpoint \/ DelLookup
  PROVE  TypeInv'
<1>1. pc # "idle" /\ obj \in Objects /\ ReadStep /\ (NoFault \/ Fault) /\ fresh \in BOOLEAN
  BY DEF Lookup, Fetch, Verify, CheckMX, NoteEndpoint, DelLookup, FailsUnless,
         TypeInv, WorkerTypeOK
<1>2. /\ [WithState(obj, "failed") EXCEPT !.status.notManaged = TRUE] \in Objects
      /\ WithState(obj, "failed") \in Objects
      /\ WithState(obj, "activated") \in Objects
  BY <1>1, WithStateTyped, FlagsTyped DEF States
<1>3. WorkerTypeOK'
  <2>1. CASE Lookup
    BY <2>1, <1>1, <1>2, CallTyped DEF Lookup, Steps
  <2>2. CASE Fetch
    BY <2>2, <1>1, <1>2, CallTyped DEF Fetch, Steps
  <2>3. CASE Verify
    BY <2>3, <1>1, <1>2, CallTyped, ReturnTyped DEF Verify, Steps
  <2>4. CASE CheckMX
    BY <2>4, <1>1, <1>2, CallTyped DEF CheckMX, Steps
  <2>5. CASE NoteEndpoint
    BY <2>5, <1>1, CallTyped, ReturnTyped DEF NoteEndpoint, Steps
  <2>6. CASE DelLookup
    BY <2>6, <1>1, CallTyped DEF DelLookup, Steps
  <2> QED
    BY <2>1, <2>2, <2>3, <2>4, <2>5, <2>6
<1> QED
  BY <1>1, <1>3, ReadTyped DEF TypeInv

\* The steps that register a domain at Mailgun or take it away.
LEMMA MailgunStepsTyped ==
  ASSUME TypeInv, Create \/ DelDomain
  PROVE  TypeInv'
<1>1. pc # "idle" /\ obj \in Objects /\ fresh \in BOOLEAN
  BY DEF Create, DelDomain, TypeInv, WorkerTypeOK
<1>2. name \in Names /\ WithState(obj, "failed") \in Objects
  BY <1>1, WithStateTyped DEF name, Objects, Specs, States
<1>3. WorkerTypeOK'
  <2>1. CASE Create
    BY <2>1, <1>1, <1>2, CallTyped DEF Create, Steps
  <2>2. CASE DelDomain
    BY <2>2, <1>1, <1>2, CallTyped DEF DelDomain, Steps
  <2> QED
    BY <2>1, <2>2
<1>4. MailgunStep /\ (NoFault \/ Fault)
  BY DEF Create, DelDomain, FailsUnless
<1>5. MailgunTypeOK'
  <2>1. passwords' \in Nat
    BY DEF Create, DelDomain, TypeInv, MailgunTypeOK
  <2>2. mailgun' \in [Names -> Registrations \cup {Nil}]
    <3>1. CASE UNCHANGED mailgun
      BY <3>1 DEF TypeInv, MailgunTypeOK
    <3>2. CASE Register(name, obj.uid, passwords + 1)
      <4>1. [owner |-> obj.uid, password |-> passwords + 1] \in Registrations
        BY <1>1 DEF Registrations, Objects, TypeInv, MailgunTypeOK
      <4> QED
        BY <4>1, <3>2 DEF Register, TypeInv, MailgunTypeOK
    <3>3. CASE Unregister(name)
      BY <3>3 DEF Unregister, TypeInv, MailgunTypeOK
    <3> QED
      BY <3>1, <3>2, <3>3 DEF Create, DelDomain, FailsUnless
  <2> QED
    BY <2>1, <2>2, <1>4 DEF MailgunStep, TypeInv, MailgunTypeOK
<1> QED
  BY <1>3, <1>4, <1>5 DEF MailgunStep, storeVars, NoFault, Fault, TypeInv, StoreTypeOK, RestTypeOK

\* Export: the Secret holds a password.
LEMMA ExportTyped ==
  ASSUME TypeInv, Export
  PROVE  TypeInv'
<1>1. pc # "idle" /\ obj \in Objects /\ fresh \in BOOLEAN /\ key \in Keys /\ passwords \in Nat
  BY DEF Export, TypeInv, WorkerTypeOK, MailgunTypeOK
<1>2. WithState(obj, "failed") \in Objects
  BY <1>1, WithStateTyped DEF States
<1>3. WorkerTypeOK'
  BY <1>1, <1>2, CallTyped, ReturnTyped DEF Export, Steps
<1>4. secrets' \in [Keys -> Nat]
  BY <1>1 DEF Export, TypeInv, StoreTypeOK
<1> QED
  BY <1>3, <1>4 DEF Export, mailgunVars, NoFault, Fault, TypeInv, StoreTypeOK, MailgunTypeOK,
                    RestTypeOK

\* The steps on the DNSEndpoint.
LEMMA EndpointStepsTyped ==
  ASSUME TypeInv, CreateEndpoint \/ DelGetEndpoint \/ DelEndpoint
  PROVE  TypeInv'
<1>1. /\ pc # "idle" /\ obj \in Objects /\ fresh \in BOOLEAN /\ key \in Keys
      /\ obj.uid \in Nat
  BY DEF CreateEndpoint, DelGetEndpoint, DelEndpoint, TypeInv, WorkerTypeOK, Objects
<1>2. [obj EXCEPT !.status.dnsCreated = TRUE] \in Objects
  BY <1>1, FlagsTyped
<1>3. CASE CreateEndpoint
  <2>1. WorkerTypeOK'
    BY <1>1, <1>2, <1>3, CallTyped, ReturnTyped DEF CreateEndpoint, Steps
  <2>2. endpoints' \in [Keys -> Nat]
    BY <1>1, <1>3 DEF CreateEndpoint, TypeInv, StoreTypeOK
  <2> QED
    BY <2>1, <2>2, <1>3 DEF CreateEndpoint, FailsUnless, mailgunVars, NoFault, Fault, TypeInv,
                            StoreTypeOK, MailgunTypeOK, RestTypeOK
<1>4. CASE DelGetEndpoint
  <2>1. WorkerTypeOK'
    BY <1>1, <1>4, CallTyped, ReturnTyped DEF DelGetEndpoint, Steps
  <2>2. epSynced' \in BOOLEAN /\ epCache' \in [Keys -> Nat]
    BY <1>4 DEF DelGetEndpoint, TypeInv, StoreTypeOK
  <2> QED
    BY <2>1, <2>2, <1>4 DEF DelGetEndpoint, mailgunVars, NoFault, Fault, TypeInv,
                            StoreTypeOK, MailgunTypeOK, RestTypeOK
<1>5. CASE DelEndpoint
  <2>1. WorkerTypeOK'
    BY <1>1, <1>5, CallTyped DEF DelEndpoint, Steps
  <2>2. endpoints' \in [Keys -> Nat]
    BY <1>1, <1>5 DEF DelEndpoint, TypeInv, StoreTypeOK
  <2> QED
    BY <2>1, <2>2, <1>5 DEF DelEndpoint, FailsUnless, mailgunVars, NoFault, Fault, TypeInv,
                            StoreTypeOK, MailgunTypeOK, RestTypeOK
<1> QED
  BY <1>3, <1>4, <1>5

\* RemoveFinalizer: the object without its finalizer, or none.
LEMMA RemoveFinalizerTyped ==
  ASSUME TypeInv, RemoveFinalizer
  PROVE  TypeInv'
<1> DEFINE o == WithoutFinalizer(obj, "domain")
<1>1. pc # "idle" /\ obj \in Objects
  BY DEF RemoveFinalizer, TypeInv, WorkerTypeOK
<1>2. o \in MaybeObjects
  BY <1>1, WithoutFinalizerTyped DEF MaybeObjects
<1>3. StoreStep /\ (Saved(o) \/ SaveFails(o)) /\ (Return \/ ReturnError)
  BY DEF RemoveFinalizer
<1> HIDE DEF o
<1> QED
  BY <1>1, <1>2, <1>3, SaveTyped, ReturnTyped DEF TypeInv

\* Every step of the worker.
LEMMA ReconcileTyped ==
  ASSUME TypeInv, Reconcile
  PROVE  TypeInv'
BY GetTyped, AddFinalizerTyped, SaveStepsTyped, SaveRecordsTyped, ReadStepsTyped,
   MailgunStepsTyped, ExportTyped, EndpointStepsTyped, RemoveFinalizerTyped
DEF Reconcile

-----------------------------------------------------------------------------
(* The steps of the manager, of users and of Mailgun. *)

\* The queue, the timers and the informers.
LEMMA ManagerTyped ==
  ASSUME TypeInv, NEW k \in Keys,
         Dequeue(k) \/ Deliver(k) \/ DeliverEndpoint(k) \/ TimerFires(k)
  PROVE  TypeInv'
<1>1. CASE Dequeue(k)
  BY <1>1 DEF Dequeue, storeVars, mailgunVars, TypeInv, StoreTypeOK, MailgunTypeOK,
              WorkerTypeOK, RestTypeOK, Steps
<1>2. CASE Deliver(k)
  <2>1. /\ Head(pending[k]) \in MaybeObjects
        /\ Tail(pending[k]) \in Seq(MaybeObjects)
    BY <1>2 DEF Deliver, NextVersion, TypeInv, StoreTypeOK, MaybeObjects
  <2>2. cache' \in [Keys -> MaybeObjects] /\ pending' \in [Keys -> Seq(MaybeObjects)]
    BY <2>1, <1>2 DEF Deliver, NextVersion, TypeInv, StoreTypeOK, MaybeObjects
  <2> QED
    BY <2>2, <1>2 DEF Deliver, mailgunVars, workerVars, TypeInv, StoreTypeOK, MailgunTypeOK,
                      WorkerTypeOK, RestTypeOK, MaybeObjects
<1>3. CASE DeliverEndpoint(k)
  BY <1>3 DEF DeliverEndpoint, mailgunVars, workerVars, TypeInv, StoreTypeOK, MailgunTypeOK,
              WorkerTypeOK, RestTypeOK
<1>4. CASE TimerFires(k)
  BY <1>4 DEF TimerFires, storeVars, mailgunVars, workerVars, TypeInv, StoreTypeOK,
              MailgunTypeOK, WorkerTypeOK, RestTypeOK
<1> QED
  BY <1>1, <1>2, <1>3, <1>4

\* A restart.
LEMMA RestartTyped ==
  ASSUME TypeInv, Restart
  PROVE  TypeInv'
<1>1. WorkerTypeOK' /\ RestTypeOK'
  <2>1. delayed' \subseteq Keys /\ queue' \subseteq Keys
    BY DEF Restart
  <2>2. restarts' \in Nat /\ faults' \in Nat
    BY DEF Restart, TypeInv, RestTypeOK
  <2>3. pc' = "idle" /\ key' = Nil /\ obj' = Nil /\ fresh' = FALSE
    BY DEF Restart, Idle
  <2> QED
    BY <2>1, <2>2, <2>3 DEF WorkerTypeOK, RestTypeOK, Steps, MaybeObjects
<1>2. <<>> \in Seq(MaybeObjects)
  OBVIOUS
<1>3. pending' \in [Keys -> Seq(MaybeObjects)] /\ epCache' \in [Keys -> Nat]
  BY <1>2 DEF Restart
<1> QED
  BY <1>1, <1>3 DEF Restart, mailgunVars, TypeInv, StoreTypeOK, MailgunTypeOK, MaybeObjects

\* What users and the garbage collector store.
LEMMA OthersWriteTyped ==
  ASSUME TypeInv, NEW k \in Keys, OthersWrite(k)
  PROVE  TypeInv'
<1>1. \E o \in MaybeObjects : Store(k, o)
  <2>1. CASE UserCreate(k)
    <3>1. PICK s \in SpecsOf[k] : Store(k, NewObject(uids + 1, s))
      BY <2>1 DEF UserCreate
    <3>2. s \in Specs /\ uids + 1 \in Nat
      BY StoreAssumption DEF TypeInv, StoreTypeOK
    <3> QED
      BY <3>1, <3>2, NewObjectTyped DEF MaybeObjects
  <2>2. CASE UserEdit(k)
    <3>1. PICK s \in SpecsOf[k] : Store(k, [domains[k] EXCEPT !.spec = s])
      BY <2>2 DEF UserEdit
    <3>2. s \in Specs /\ domains[k] \in Objects
      BY <2>2, StoreAssumption DEF UserEdit, TypeInv, StoreTypeOK
    <3>3. [domains[k] EXCEPT !.spec = s] \in Objects
      BY <3>2 DEF Objects
    <3> QED
      BY <3>1, <3>3 DEF MaybeObjects
  <2>3. CASE UserDelete(k)
    <3>1. domains[k] \in Objects
      BY <2>3 DEF UserDelete, TypeInv, StoreTypeOK
    <3> QED
      BY <3>1, <2>3, DeletedTyped DEF UserDelete, MaybeObjects
  <2>4. CASE GarbageCollect(k)
    <3>1. domains[k] \in Objects
      BY <2>4 DEF GarbageCollect, TypeInv, StoreTypeOK
    <3> QED
      BY <3>1, <2>4, WithoutFinalizerTyped DEF GarbageCollect, MaybeObjects
  <2> QED
    BY <2>1, <2>2, <2>3, <2>4 DEF OthersWrite
<1>2. /\ domains' \in [Keys -> MaybeObjects]
      /\ pending' \in [Keys -> Seq(MaybeObjects)]
  BY <1>1, StoreTyped DEF TypeInv
<1>3. uids' \in Nat /\ edits' \in Nat
  BY DEF OthersWrite, UserCreate, UserEdit, UserDelete, GarbageCollect, TypeInv, StoreTypeOK
<1>4. fresh' \in BOOLEAN
  BY DEF OthersWrite
<1> QED
  BY <1>2, <1>3, <1>4 DEF OthersWrite, mailgunVars, TypeInv, StoreTypeOK, MailgunTypeOK,
                          WorkerTypeOK, RestTypeOK, MaybeObjects

\* What happens at Mailgun without the operator.
LEMMA MailgunMovesTyped ==
  ASSUME TypeInv, NEW n \in Names, MailgunMoves(n)
  PROVE  TypeInv'
<1>1. MailgunTypeOK'
  <2>1. mailgun' \in [Names -> Registrations \cup {Nil}]
    <3>1. [owner |-> 0, password |-> 0] \in Registrations
      BY DEF Registrations
    <3> QED
      BY <3>1 DEF MailgunMoves, PublishDNS, PublishMX, OutsideCreate, OutsideDelete,
                  Register, Unregister, TypeInv, MailgunTypeOK
  <2> QED
    BY <2>1 DEF MailgunMoves, PublishDNS, PublishMX, OutsideCreate, OutsideDelete,
                TypeInv, MailgunTypeOK
<1> QED
  BY <1>1 DEF MailgunMoves, storeVars, workerVars, TypeInv, StoreTypeOK, WorkerTypeOK, RestTypeOK

-----------------------------------------------------------------------------
\* The initial state has the types.
LEMMA InitTyped == Init => TypeInv
<1> SUFFICES ASSUME Init PROVE TypeInv
  OBVIOUS
<1>1. <<>> \in Seq(MaybeObjects)
  OBVIOUS
<1> QED
  BY <1>1 DEF Init, StoreInit, MailgunInit, TypeInv, StoreTypeOK, MailgunTypeOK, WorkerTypeOK,
              RestTypeOK, Steps, MaybeObjects

\* Every step keeps them.
LEMMA NextTyped == TypeInv /\ [Next]_vars => TypeInv'
<1> SUFFICES ASSUME TypeInv, [Next]_vars PROVE TypeInv'
  OBVIOUS
<1>1. CASE Next
  BY <1>1, ReconcileTyped, RestartTyped, ManagerTyped, OthersWriteTyped, MailgunMovesTyped
  DEF Next
<1>2. CASE UNCHANGED vars
  BY <1>2 DEF vars, storeVars, mailgunVars, workerVars, TypeInv, StoreTypeOK, MailgunTypeOK,
              WorkerTypeOK, RestTypeOK
<1> QED
  BY <1>1, <1>2

\* The inductive invariant behind TypeOK.
THEOREM TypeInvariance == Spec => []TypeInv
BY InitTyped, NextTyped, PTL DEF Spec

\* Whatever calls fail, whoever writes and whenever the manager restarts, the
\* objects in the store, in the caches and in memory are Domain objects, and the
\* worker is at one of its calls.
THEOREM TypeCorrect == Spec => []TypeOK
<1>1. TypeInv => TypeOK
  BY DEF TypeInv, WorkerTypeOK, RestTypeOK, TypeOK, MaybeObjects
<1> QED
  BY <1>1, TypeInvariance, PTL

-----------------------------------------------------------------------------
(* The copy. *)

Working == pc \notin {"idle", "get"}

SameCore(a, b) ==
  /\ a.uid = b.uid
  /\ a.spec = b.spec
  /\ a.deleting = b.deleting
  /\ a.finalizers = b.finalizers

\* What the worker may store at its key.
Written(o) ==
  \/ o = Nil /\ pc = "removeFinalizer"
  \/ /\ o \in Objects
     /\ o.uid = obj.uid /\ o.spec = obj.spec /\ o.deleting = obj.deleting
     /\ o.finalizers \subseteq obj.finalizers \cup {"domain"}
     /\ \/ obj.finalizers \subseteq o.finalizers
        \/ /\ pc = "removeFinalizer"
           /\ ~(obj.deleting /\ obj.finalizers \subseteq {"domain"})

\* The three kinds of worker steps: it ends, it reads its copy, it goes on.
Ending ==
  /\ pc' = "idle" /\ ~fresh'
  /\ \/ UNCHANGED <<domains, pending>>
     \/ Working /\ fresh /\ \E o \in MaybeObjects : Written(o) /\ Store(key, o)

Reading ==
  /\ pc = "get" /\ Working'
  /\ cache[key] # Nil /\ obj' = cache[key] /\ key' = key
  /\ fresh' <=> pending[key] = <<>>
  /\ UNCHANGED <<domains, pending>>

GoingOn ==
  /\ Working /\ Working'
  /\ key' = key
  /\ obj'.uid = obj.uid /\ obj'.spec = obj.spec /\ obj'.deleting = obj.deleting
  /\ \/ /\ UNCHANGED <<domains, pending>>
        /\ obj'.finalizers = obj.finalizers
        /\ fresh' => fresh
     \/ /\ fresh
        /\ \E o \in Objects : Written(o) /\ Store(key, o) /\ SameCore(o, obj')

\* The outcomes of an update of the Domain.
LEMMA SaveShape ==
  ASSUME NEW o, Saved(o) \/ SaveFails(o)
  PROVE  UNCHANGED <<domains, pending>> \/ (fresh /\ Store(key, o))
BY DEF Saved, SaveFails

\* A save of the copy as it is ends the reconcile or goes on.
LEMMA SaveStepsShape ==
  ASSUME TypeInv,
         \/ MarkExisting \/ SaveFailed \/ SaveEndpoint \/ SaveNotFound \/ SaveStatus
         \/ SaveDeleteFailed
  PROVE  Ending \/ GoingOn
<1>1. /\ Working
      /\ Saved(obj) \/ SaveFails(obj)
      /\ \/ Return \/ ReturnError \/ RequeueAfterVerify
         \/ Saved(obj) /\ Call("fetch", obj, TRUE)
  BY DEF MarkExisting, SaveFailed, SaveEndpoint, SaveNotFound, SaveStatus, SaveDeleteFailed,
         Working
<1>2. obj \in Objects /\ Written(obj)
  BY <1>1 DEF Working, Written, TypeInv, WorkerTypeOK
<1>3. CASE Return \/ ReturnError \/ RequeueAfterVerify
  BY <1>1, <1>2, <1>3, SaveShape
  DEF Return, ReturnError, RequeueAfterVerify, Idle, Ending, MaybeObjects
<1>4. CASE Saved(obj) /\ Call("fetch", obj, TRUE)
  BY <1>1, <1>2, <1>4 DEF Saved, Call, GoingOn, Working, SameCore
<1> QED
  BY <1>1, <1>3, <1>4

\* Provision and Continue end the reconcile or make a call with their argument.
LEMMA ProvisionShape ==
  ASSUME NEW o, NEW current, Provision(o, current) \/ Continue(o, current)
  PROVE  \/ pc' = "idle" /\ ~fresh'
         \/ /\ pc' \in {"lookup", "createEndpoint", "fetch"}
            /\ obj' = o /\ key' = key /\ fresh' = current
BY DEF Provision, Continue, Return, Idle, Call

\* Every worker step is of one of the three kinds.
LEMMA ReconcileShape ==
  ASSUME TypeInv, Reconcile
  PROVE  UNCHANGED <<cache, uids, edits>> /\ (Ending \/ Reading \/ GoingOn)
<1>1. CASE Get
  <2>1. UNCHANGED <<domains, pending, cache, uids, edits>> /\ pc = "get"
    BY <1>1 DEF Get, ReadStep, storeVars
  <2>2. CASE Return
    BY <2>1, <2>2 DEF Return, Idle, Ending
  <2>3. CASE /\ cache[key] # Nil
             /\ \E step \in {"addFinalizer", "delGetEndpoint"} :
                  Call(step, cache[key], pending[key] = <<>>)
    BY <2>1, <2>3 DEF Call, Reading, Working
  <2>4. CASE cache[key] # Nil /\ Provision(cache[key], pending[key] = <<>>)
    BY <2>1, <2>4, ProvisionShape DEF Ending, Reading, Working
  <2> QED
    BY <1>1, <2>1, <2>2, <2>3, <2>4 DEF Get
<1>2. CASE AddFinalizer
  <2> DEFINE o == WithFinalizer(obj, "domain")
  <2>1. Working /\ obj \in Objects
    BY <1>2 DEF AddFinalizer, Working, TypeInv, WorkerTypeOK
  <2>2. /\ o \in Objects
        /\ o.uid = obj.uid /\ o.spec = obj.spec /\ o.deleting = obj.deleting
        /\ obj.finalizers \subseteq o.finalizers
        /\ o.finalizers \subseteq obj.finalizers \cup {"domain"}
    BY <2>1, WithFinalizerTyped DEF Finalizers
  <2>3. /\ UNCHANGED <<cache, uids, edits>>
        /\ \/ Saved(o) /\ Provision(o, TRUE)
           \/ SaveFails(o) /\ ReturnError
    BY <1>2 DEF AddFinalizer, StoreStep
  <2> HIDE DEF o
  <2>4. CASE Saved(o) /\ Provision(o, TRUE)
    <3>1. fresh /\ Store(key, o) /\ Written(o) /\ SameCore(o, o) /\ o \in MaybeObjects
      BY <2>2, <2>4 DEF Saved, Written, SameCore, MaybeObjects
    <3>2. CASE pc' = "idle" /\ ~fresh'
      BY <2>1, <2>3, <3>1, <3>2 DEF Ending
    <3>3. CASE /\ pc' \in {"lookup", "createEndpoint", "fetch"}
               /\ obj' = o /\ key' = key
      BY <2>1, <2>2, <2>3, <3>1, <3>3 DEF GoingOn, Working
    <3> QED
      BY <2>3, <2>4, <3>2, <3>3, ProvisionShape
  <2>5. CASE SaveFails(o) /\ ReturnError
    BY <2>1, <2>2, <2>3, <2>5, SaveShape DEF ReturnError, Idle, Ending, Written, MaybeObjects
  <2> QED
    BY <2>3, <2>4, <2>5
<1>3. CASE \/ MarkExisting \/ SaveFailed \/ SaveEndpoint \/ SaveNotFound \/ SaveStatus
           \/ SaveDeleteFailed
  BY <1>3, SaveStepsShape
  DEF MarkExisting, SaveFailed, SaveEndpoint, SaveNotFound, SaveStatus, SaveDeleteFailed, StoreStep
<1>4. CASE SaveRecords
  <2>1. /\ Working /\ obj \in Objects /\ Written(obj)
        /\ UNCHANGED <<cache, uids, edits>>
    BY <1>4 DEF SaveRecords, StoreStep, Working, Written, TypeInv, WorkerTypeOK
  <2>2. /\ WithState(obj, "created") \in Objects
        /\ SameCore(obj, WithState(obj, "created"))
        /\ SameCore(obj, WithState(obj, "failed"))
    BY <2>1, WithStateTyped DEF States, SameCore
  <2>3. CASE Saved(obj) /\ Continue(WithState(obj, "created"), TRUE)
    <3>1. fresh /\ Store(key, obj)
      BY <2>3 DEF Saved
    <3>2. CASE pc' = "idle" /\ ~fresh'
      BY <2>1, <3>1, <3>2 DEF Ending, MaybeObjects
    <3>3. CASE /\ pc' \in {"lookup", "createEndpoint", "fetch"}
               /\ obj' = WithState(obj, "created") /\ key' = key
      BY <2>1, <2>2, <3>1, <3>3 DEF GoingOn, Working, SameCore
    <3> QED
      BY <2>3, <3>2, <3>3, ProvisionShape
  <2>4. CASE /\ SaveFails(obj)
             /\ Call("saveFailed", WithState(obj, "failed"), fresh /\ pending' = pending)
    <3>1. /\ Working' /\ key' = key /\ obj' = WithState(obj, "failed")
          /\ fresh' => fresh
      BY <2>4 DEF Call, Working
    <3>2. CASE UNCHANGED <<domains, pending>>
      BY <2>1, <2>2, <3>1, <3>2 DEF GoingOn, SameCore
    <3>3. CASE fresh /\ Store(key, obj)
      BY <2>1, <2>2, <3>1, <3>3 DEF GoingOn, SameCore
    <3> QED
      BY <2>4, <3>2, <3>3, SaveShape
  <2> QED
    BY <1>4, <2>3, <2>4 DEF SaveRecords
<1>5. CASE RemoveFinalizer
  <2> DEFINE o == WithoutFinalizer(obj, "domain")
  <2>1. Working /\ obj \in Objects /\ pc = "removeFinalizer"
    BY <1>5 DEF RemoveFinalizer, Working, TypeInv, WorkerTypeOK
  <2>2. Written(o) /\ o \in MaybeObjects
    BY <2>1, WithoutFinalizerTyped DEF Written, MaybeObjects
  <2>3. /\ UNCHANGED <<cache, uids, edits>>
        /\ Saved(o) \/ SaveFails(o)
        /\ pc' = "idle" /\ ~fresh'
    BY <1>5 DEF RemoveFinalizer, StoreStep, Return, ReturnError, Idle
  <2> HIDE DEF o
  <2> QED
    BY <2>1, <2>2, <2>3, SaveShape DEF Ending
<1>6. CASE \/ Lookup \/ Fetch \/ Verify \/ CheckMX \/ NoteEndpoint \/ DelLookup
           \/ Create \/ DelDomain \/ Export \/ CreateEndpoint \/ DelGetEndpoint \/ DelEndpoint
  <2>1. Working /\ obj \in Objects /\ UNCHANGED <<domains, pending, cache, uids, edits>>
    BY <1>6 DEF Lookup, Fetch, Verify, CheckMX, NoteEndpoint, DelLookup, Create, DelDomain, Export,
                CreateEndpoint, DelGetEndpoint, DelEndpoint, ReadStep, MailgunStep, storeVars,
                Working, TypeInv, WorkerTypeOK
  <2> DEFINE Copies ==
        {obj, WithState(obj, "failed"), WithState(obj, "activated"),
         [obj EXCEPT !.status.dnsCreated = TRUE],
         [WithState(obj, "failed") EXCEPT !.status.notManaged = TRUE]}
  <2>2. \A o \in Copies : SameCore(o, obj)
    <3>1. /\ WithState(obj, "failed") \in Objects /\ SameCore(WithState(obj, "failed"), obj)
          /\ SameCore(WithState(obj, "activated"), obj)
      BY <2>1, WithStateTyped DEF States, SameCore
    <3>2. \A o \in Objects : /\ SameCore([o EXCEPT !.status.dnsCreated = TRUE], o)
                             /\ SameCore([o EXCEPT !.status.notManaged = TRUE], o)
      BY FlagsTyped DEF SameCore
    <3> QED
      BY <2>1, <3>1, <3>2 DEF SameCore
  <2>3. \/ Return \/ ReturnError
        \/ \E step \in Steps \ {"idle", "get"}, o \in Copies, current \in BOOLEAN :
             Call(step, o, current) /\ (current => fresh)
    <3>1. fresh \in BOOLEAN
      BY DEF TypeInv, WorkerTypeOK
    <3> HIDE DEF Copies
    <3>2. /\ obj \in Copies /\ WithState(obj, "failed") \in Copies
          /\ WithState(obj, "activated") \in Copies
          /\ [obj EXCEPT !.status.dnsCreated = TRUE] \in Copies
          /\ [WithState(obj, "failed") EXCEPT !.status.notManaged = TRUE] \in Copies
      BY DEF Copies
    <3>3. \A step \in Steps \ {"idle", "get"}, o \in Copies :
            Call(step, o, fresh) =>
              \E t \in Steps \ {"idle", "get"}, p \in Copies, current \in BOOLEAN :
                Call(t, p, current) /\ (current => fresh)
      BY <3>1
    <3>4. CASE Lookup \/ Fetch \/ Verify \/ CheckMX
      BY <3>2, <3>3, <3>4 DEF Lookup, Fetch, Verify, CheckMX, Steps
    <3>5. CASE NoteEndpoint \/ DelLookup \/ DelDomain
      BY <3>1, <3>2, <3>3, <3>5 DEF NoteEndpoint, DelLookup, DelDomain, Steps
    <3>6. CASE Create \/ Export
      BY <3>2, <3>3, <3>6 DEF Create, Export, Steps
    <3>7. CASE CreateEndpoint \/ DelGetEndpoint \/ DelEndpoint
      BY <3>2, <3>3, <3>7 DEF CreateEndpoint, DelGetEndpoint, DelEndpoint, Steps
    <3> QED
      BY <1>6, <3>4, <3>5, <3>6, <3>7
  <2> HIDE DEF Copies
  <2> QED
    BY <2>1, <2>2, <2>3
    DEF Return, ReturnError, Idle, Call, Ending, GoingOn, Working, SameCore
<1> QED
  BY <1>1, <1>2, <1>3, <1>4, <1>5, <1>6 DEF Reconcile

-----------------------------------------------------------------------------
(* What users and the garbage collector store. *)

Created(k, o) ==
  /\ domains[k] = Nil
  /\ uids' = uids + 1 /\ edits' = edits
  /\ o.uid = uids + 1 /\ o.spec \in SpecsOf[k] /\ ~o.deleting /\ o.finalizers = {}

Edited(k, o) ==
  /\ domains[k] # Nil
  /\ uids' = uids /\ edits' = edits + 1
  /\ o.uid = domains[k].uid /\ o.spec \in SpecsOf[k]
  /\ o.deleting = domains[k].deleting /\ o.finalizers = domains[k].finalizers

\* Marked for deletion, or one finalizer of the collector less.
Moved(k, o) ==
  /\ domains[k] # Nil
  /\ uids' = uids /\ edits' = edits
  /\ o.uid = domains[k].uid /\ o.spec = domains[k].spec /\ o.deleting
  /\ \/ ~domains[k].deleting /\ domains[k].finalizers \subseteq o.finalizers
     \/ "foreground" \in domains[k].finalizers
  /\ "domain" \in domains[k].finalizers => "domain" \in o.finalizers
  /\ o.finalizers \subseteq domains[k].finalizers \cup DeleteModes
  /\ o.finalizers # {}

Gone(k) ==
  /\ domains[k] # Nil
  /\ uids' = uids /\ edits' = edits
  /\ "domain" \notin domains[k].finalizers

\* Whoever writes besides the worker creates, edits, marks or takes away.
LEMMA OthersShape ==
  ASSUME TypeInv, NEW k \in Keys, OthersWrite(k)
  PROVE  /\ UNCHANGED <<cache, pc, key, obj, mailgun>>
         /\ fresh' = (fresh /\ key # k)
         /\ \E o \in MaybeObjects :
              /\ Store(k, o)
              /\ \/ o = Nil /\ Gone(k)
                 \/ o \in Objects /\ (Created(k, o) \/ Edited(k, o) \/ Moved(k, o))
<1>1. UNCHANGED <<cache, pc, key, obj, mailgun>> /\ fresh' = (fresh /\ key # k)
  BY DEF OthersWrite, mailgunVars
<1>2. CASE UserCreate(k)
  <2>1. PICK s \in SpecsOf[k] : Store(k, NewObject(uids + 1, s))
    BY <1>2 DEF UserCreate
  <2>2. s \in Specs /\ uids + 1 \in Nat
    BY StoreAssumption DEF TypeInv, StoreTypeOK
  <2>3. NewObject(uids + 1, s) \in Objects
    BY <2>2, NewObjectTyped
  <2>4. Created(k, NewObject(uids + 1, s))
    BY <1>2, <2>1 DEF UserCreate, Created, NewObject
  <2> QED
    BY <1>1, <2>1, <2>3, <2>4 DEF MaybeObjects
<1>3. CASE UserEdit(k)
  <2>1. PICK s \in SpecsOf[k] : Store(k, [domains[k] EXCEPT !.spec = s])
    BY <1>3 DEF UserEdit
  <2>2. s \in Specs /\ domains[k] \in Objects
    BY <1>3, StoreAssumption DEF UserEdit, TypeInv, StoreTypeOK
  <2>3. [domains[k] EXCEPT !.spec = s] \in Objects
    BY <2>2 DEF Objects
  <2>4. Edited(k, [domains[k] EXCEPT !.spec = s])
    BY <1>3, <2>1, <2>2 DEF UserEdit, Edited, Objects
  <2> QED
    BY <1>1, <2>1, <2>3, <2>4 DEF MaybeObjects
<1>4. CASE UserDelete(k)
  <2>1. domains[k] \in Objects /\ domains[k] # Nil /\ ~domains[k].deleting
    BY <1>4 DEF UserDelete, TypeInv, StoreTypeOK
  <2>2. PICK mode \in DeleteModes : Store(k, Deleted(domains[k], mode))
    BY <1>4 DEF UserDelete
  <2> DEFINE o == Deleted(domains[k], mode)
  <2>3. CASE o = Nil /\ domains[k].finalizers = {}
    BY <1>1, <1>4, <2>1, <2>2, <2>3 DEF UserDelete, Gone, MaybeObjects
  <2>4. CASE /\ o \in Objects
             /\ o.uid = domains[k].uid /\ o.spec = domains[k].spec /\ o.deleting
             /\ o.finalizers = domains[k].finalizers
                  \cup (IF mode = "foreground" THEN {"foreground"} ELSE {})
             /\ o.finalizers # {}
    <3> HIDE DEF o
    <3>1. Moved(k, o)
      BY <1>4, <2>1, <2>2, <2>4 DEF UserDelete, Moved
    <3> QED
      BY <1>1, <2>2, <2>4, <3>1 DEF MaybeObjects, o
  <2> QED
    BY <2>1, <2>3, <2>4, DeletedTyped
<1>5. CASE GarbageCollect(k)
  <2>1. domains[k] \in Objects /\ domains[k] # Nil /\ domains[k].deleting
        /\ "foreground" \in domains[k].finalizers
    BY <1>5 DEF GarbageCollect, TypeInv, StoreTypeOK
  <2> DEFINE o == WithoutFinalizer(domains[k], "foreground")
  <2>2. CASE domains[k].finalizers \subseteq {"foreground"}
    <3>1. o = Nil
      BY <2>1, <2>2 DEF WithoutFinalizer
    <3> QED
      BY <1>1, <1>5, <2>1, <2>2, <3>1 DEF GarbageCollect, Gone, MaybeObjects
  <2>3. CASE ~(domains[k].finalizers \subseteq {"foreground"})
    <3>1. /\ o \in Objects
          /\ o.uid = domains[k].uid /\ o.spec = domains[k].spec /\ o.deleting
          /\ o.finalizers = domains[k].finalizers \ {"foreground"}
      BY <2>1, <2>3, WithoutFinalizerTyped
    <3> HIDE DEF o
    <3>2. Moved(k, o)
      BY <1>5, <2>1, <2>3, <3>1 DEF GarbageCollect, Moved
    <3> QED
      BY <1>1, <1>5, <3>1, <3>2 DEF GarbageCollect, MaybeObjects, o
  <2> QED
    BY <2>2, <2>3
<1> QED
  BY <1>2, <1>3, <1>4, <1>5 DEF OthersWrite

-----------------------------------------------------------------------------
(* The copy in memory. *)

\* With nothing on its way to the informer, the cache holds what is stored.
Synced ==
  \A k \in Keys : IF pending[k] = <<>>
                  THEN cache[k] = domains[k]
                  ELSE pending[k][Len(pending[k])] = domains[k]

\* A copy that may be saved is of the object that is stored, and differs from
\* it in its status alone.
CopyOK == fresh => Working /\ domains[key] # Nil /\ SameCore(obj, domains[key])

CopyInv == TypeInv /\ Synced /\ CopyOK

\* A store step leaves the informer one version behind.
LEMMA StoreSynced ==
  ASSUME TypeInv, Synced, NEW k \in Keys, NEW o \in MaybeObjects, Store(k, o), UNCHANGED cache
  PROVE  Synced'
<1> SUFFICES ASSUME NEW j \in Keys
             PROVE  IF pending'[j] = <<>> THEN cache'[j] = domains'[j]
                    ELSE pending'[j][Len(pending'[j])] = domains'[j]
  BY DEF Synced
<1>1. /\ domains' = [domains EXCEPT ![k] = o]
      /\ pending' = [pending EXCEPT ![k] = Append(pending[k], o)]
      /\ domains \in [Keys -> MaybeObjects]
      /\ pending \in [Keys -> Seq(MaybeObjects)]
  BY DEF Store, TypeInv, StoreTypeOK, MaybeObjects
<1>2. CASE j = k
  <2>1. /\ Append(pending[k], o) # <<>>
        /\ Append(pending[k], o)[Len(Append(pending[k], o))] = o
    BY <1>1
  <2> QED
    BY <1>1, <1>2, <2>1
<1>3. CASE j # k
  BY <1>1, <1>3 DEF Synced
<1> QED
  BY <1>2, <1>3

\* A delivery leaves it one less behind.
LEMMA DeliverSynced ==
  ASSUME TypeInv, Synced, NEW k \in Keys, Deliver(k)
  PROVE  Synced'
<1> SUFFICES ASSUME NEW j \in Keys
             PROVE  IF pending'[j] = <<>> THEN cache'[j] = domains'[j]
                    ELSE pending'[j][Len(pending'[j])] = domains'[j]
  BY DEF Synced
<1>1. /\ pending[k] # <<>>
      /\ cache' = [cache EXCEPT ![k] = Head(pending[k])]
      /\ pending' = [pending EXCEPT ![k] = Tail(pending[k])]
      /\ domains' = domains
      /\ cache \in [Keys -> MaybeObjects]
      /\ pending \in [Keys -> Seq(MaybeObjects)]
  BY DEF Deliver, NextVersion, TypeInv, StoreTypeOK, MaybeObjects
<1>2. CASE j = k
  <2> DEFINE p == pending[k]
  <2>1. p \in Seq(MaybeObjects) /\ p # <<>> /\ p[Len(p)] = domains[k]
    BY <1>1 DEF Synced
  <2>2. IF Tail(p) = <<>> THEN Head(p) = p[Len(p)] ELSE Tail(p)[Len(Tail(p))] = p[Len(p)]
    <3> HIDE DEF p
    <3>1. /\ Len(p) \in Nat /\ Len(p) > 0
          /\ Len(Tail(p)) = Len(p) - 1
          /\ Head(p) = p[1]
          /\ Tail(p) \in Seq(MaybeObjects)
          /\ \A i \in 1..Len(p) - 1 : Tail(p)[i] = p[i + 1]
      BY <2>1
    <3>4. Tail(p) = <<>> <=> Len(Tail(p)) = 0
      BY <3>1, EmptySeq
    <3>2. CASE Len(p) = 1
      BY <3>1, <3>2, <3>4
    <3>3. CASE Len(p) # 1
      <4>1. Len(p) - 1 \in 1..Len(p) - 1 /\ Tail(p) # <<>>
        BY <3>1, <3>3, <3>4
      <4> QED
        BY <3>1, <4>1
    <3> QED
      BY <3>2, <3>3
  <2> QED
    BY <1>1, <1>2, <2>1, <2>2
<1>3. CASE j # k
  BY <1>1, <1>3 DEF Synced
<1> QED
  BY <1>2, <1>3

\* A worker step keeps the informer's versions in step with the store.
LEMMA ReconcileSynced ==
  ASSUME TypeInv, Synced, Reconcile
  PROVE  Synced'
<1>1. UNCHANGED cache
  BY ReconcileShape
<1>2. CASE UNCHANGED <<domains, pending>>
  BY <1>1, <1>2 DEF Synced
<1>3. CASE Working /\ \E o \in MaybeObjects : Store(key, o)
  <2>1. key \in Keys
    BY <1>3 DEF Working, TypeInv, WorkerTypeOK
  <2> QED
    BY <1>1, <1>3, <2>1, StoreSynced
<1> QED
  BY <1>2, <1>3, ReconcileShape DEF Ending, Reading, GoingOn, MaybeObjects

\* And the copy in step with the stored object.
LEMMA ReconcileCopyOK ==
  ASSUME CopyInv, Reconcile
  PROVE  CopyOK'
<1>1. domains \in [Keys -> MaybeObjects] /\ (pc # "idle" => key \in Keys)
  BY DEF CopyInv, TypeInv, StoreTypeOK, WorkerTypeOK, MaybeObjects
<1>2. CASE Ending
  BY <1>2 DEF Ending, CopyOK
<1>3. CASE Reading
  BY <1>1, <1>3 DEF Reading, CopyOK, CopyInv, Synced, SameCore
<1>4. CASE GoingOn
  <2>1. CASE UNCHANGED <<domains, pending>> /\ obj'.finalizers = obj.finalizers /\ (fresh' => fresh)
    BY <1>4, <2>1 DEF GoingOn, CopyOK, CopyInv, SameCore
  <2>2. CASE \E o \in Objects : Store(key, o) /\ SameCore(o, obj')
    <3>1. PICK o \in Objects : Store(key, o) /\ SameCore(o, obj')
      BY <2>2
    <3>2. key \in Keys /\ key' = key /\ Working'
      BY <1>1, <1>4 DEF GoingOn, Working
    <3>3. domains'[key] = o /\ o # Nil
      BY <1>1, <3>1, <3>2, ObjectsAssumption DEF Store
    <3> QED
      BY <3>1, <3>2, <3>3 DEF CopyOK, SameCore
  <2> QED
    BY <1>4, <2>1, <2>2 DEF GoingOn
<1> QED
  BY <1>2, <1>3, <1>4, ReconcileShape DEF CopyInv

\* Initially nothing is stored, cached or copied.
LEMMA InitCopyInv == Init => CopyInv
BY InitTyped DEF Init, StoreInit, CopyInv, Synced, CopyOK

\* Every step keeps the informer and the copy in step.
LEMMA NextCopyInv == CopyInv /\ [Next]_vars => CopyInv'
<1> SUFFICES ASSUME CopyInv, [Next]_vars PROVE Synced' /\ CopyOK'
  BY NextTyped DEF CopyInv
<1>1. CASE Reconcile
  BY <1>1, ReconcileSynced, ReconcileCopyOK DEF CopyInv
<1>2. CASE Restart
  BY <1>2 DEF Restart, Idle, Synced, CopyOK
<1>3. CASE \E k \in Keys : Deliver(k)
  <2>1. Synced'
    BY <1>3, DeliverSynced DEF CopyInv
  <2>2. UNCHANGED <<domains, workerVars>>
    BY <1>3 DEF Deliver
  <2> QED
    BY <2>1, <2>2 DEF workerVars, CopyInv, CopyOK, Working
<1>4. CASE \E k \in Keys : Dequeue(k)
  BY <1>4 DEF Dequeue, storeVars, CopyInv, Synced, CopyOK, Working
<1>5. CASE \/ \E k \in Keys : DeliverEndpoint(k) \/ TimerFires(k)
           \/ \E n \in Names : MailgunMoves(n)
           \/ UNCHANGED vars
  <2>1. UNCHANGED <<domains, cache, pending, workerVars>>
    BY <1>5 DEF DeliverEndpoint, TimerFires, MailgunMoves, vars, storeVars
  <2> QED
    BY <2>1 DEF workerVars, CopyInv, Synced, CopyOK, Working
<1>6. CASE \E k \in Keys : OthersWrite(k)
  <2>1. PICK k \in Keys : OthersWrite(k)
    BY <1>6
  <2>2. PICK o \in MaybeObjects : Store(k, o)
    BY <2>1, OthersShape DEF CopyInv
  <2>3. UNCHANGED <<cache, pc, key, obj>> /\ fresh' = (fresh /\ key # k)
    BY <2>1, OthersShape DEF CopyInv
  <2>4. Synced'
    BY <2>2, <2>3, StoreSynced DEF CopyInv
  <2>5. CopyOK'
    <3>1. SUFFICES ASSUME fresh, key # k
                   PROVE  Working' /\ domains'[key'] # Nil /\ SameCore(obj', domains'[key'])
      BY <2>3 DEF CopyOK
    <3>2. domains'[key] = domains[key]
      BY <2>2, <3>1 DEF Store, CopyInv, CopyOK, Working, TypeInv, StoreTypeOK, WorkerTypeOK
    <3> QED
      BY <2>3, <3>1, <3>2 DEF CopyInv, CopyOK, Working
  <2> QED
    BY <2>4, <2>5
<1> QED
  BY <1>1, <1>2, <1>3, <1>4, <1>5, <1>6 DEF Next

\* The inductive invariant behind the optimistic lock.
THEOREM CopyInvariance == Spec => []CopyInv
BY InitCopyInv, NextCopyInv, PTL DEF Spec

-----------------------------------------------------------------------------
(* Users. *)

\* What the worker stores at its key has the spec and the deletion mark that
\* are stored.
LEMMA ReconcileKeepsIntent ==
  ASSUME CopyInv, Reconcile, NEW k \in Keys, SameDomain(k)
  PROVE  domains'[k].spec = domains[k].spec /\ domains'[k].deleting = domains[k].deleting
<1>1. CASE UNCHANGED domains
  BY <1>1
<1>2. CASE Working /\ fresh /\ \E o \in MaybeObjects : /\ Store(key, o)
                                                       /\ \/ o = Nil
                                                          \/ o.spec = obj.spec /\ o.deleting = obj.deleting
  <2>1. key \in Keys /\ domains \in [Keys -> MaybeObjects]
    BY <1>2 DEF Working, CopyInv, TypeInv, StoreTypeOK, WorkerTypeOK, MaybeObjects
  <2>2. SameCore(obj, domains[key])
    BY <1>2 DEF CopyInv, CopyOK
  <2>3. CASE k = key
    BY <1>2, <2>1, <2>2, <2>3 DEF Store, SameDomain, SameCore
  <2>4. CASE k # key
    BY <1>2, <2>1, <2>4 DEF Store
  <2> QED
    BY <2>3, <2>4
<1>3. Ending \/ Reading \/ GoingOn
  BY ReconcileShape DEF CopyInv
<1> QED
  BY <1>1, <1>2, <1>3 DEF Ending, Reading, GoingOn, Written, SameCore, MaybeObjects

\* The worker writes whole objects from its copy: it never takes back an edit
\* of the spec, nor a deletion, that happened since it read the copy.
THEOREM UserIntentSafe == Spec => UserIntentKept
<1> DEFINE Kept == \A k \in Keys : SameDomain(k) =>
                     /\ domains'[k].spec # domains[k].spec => edits' # edits
                     /\ domains[k].deleting => domains'[k].deleting
<1>1. CopyInv /\ [Next]_vars => [Kept]_vars
  <2> SUFFICES ASSUME CopyInv, Next, NEW k \in Keys, SameDomain(k)
               PROVE  /\ domains'[k].spec # domains[k].spec => edits' # edits
                      /\ domains[k].deleting => domains'[k].deleting
    OBVIOUS
  <2>1. CASE Reconcile
    BY <2>1, ReconcileKeepsIntent
  <2>2. CASE UNCHANGED domains
    BY <2>2
  <2>3. CASE \E j \in Keys : OthersWrite(j)
    <3>1. PICK j \in Keys : OthersWrite(j)
      BY <2>3
    <3>2. PICK o \in MaybeObjects :
            /\ Store(j, o)
            /\ \/ o = Nil /\ Gone(j)
               \/ o \in Objects /\ (Created(j, o) \/ Edited(j, o) \/ Moved(j, o))
      BY <3>1, OthersShape DEF CopyInv
    <3>3. domains \in [Keys -> MaybeObjects] /\ edits \in Nat
      BY DEF CopyInv, TypeInv, StoreTypeOK, MaybeObjects
    <3>4. CASE k = j
      <4>1. domains'[k] = o /\ domains[k] # Nil /\ o # Nil
        BY <3>2, <3>3, <3>4 DEF Store, SameDomain
      <4> QED
        BY <3>2, <3>3, <3>4, <4>1 DEF Created, Edited, Moved
    <3>5. CASE k # j
      BY <3>2, <3>3, <3>5 DEF Store
    <3> QED
      BY <3>4, <3>5
  <2>4. Restart \/ (\E j \in Keys : Dequeue(j) \/ Deliver(j) \/ DeliverEndpoint(j) \/ TimerFires(j))
          \/ (\E n \in Names : MailgunMoves(n)) => UNCHANGED domains
    BY DEF Restart, Dequeue, Deliver, DeliverEndpoint, TimerFires, MailgunMoves, storeVars
  <2> QED
    BY <2>1, <2>2, <2>3, <2>4 DEF Next
<1> QED
  BY <1>1, CopyInvariance, PTL DEF Spec, UserIntentKept
=============================================================================
