------------------------- MODULE DomainStatusProofs -------------------------
(***************************************************************************)
(* What the status of a Domain says, for every value of the constants: how *)
(* its state moves, when it becomes activated, that no Domain with work    *)
(* left is forgotten, and that the DNSEndpoint and the Mailgun domain a    *)
(* status speaks of are there.                                             *)
(***************************************************************************)
EXTENDS DomainOrphanProofs

-----------------------------------------------------------------------------
(* The state in the copy and the state that is stored. *)

\* The calls of a Domain that is created, and those that save its copy as it is.
CreatedSteps == {"createEndpoint", "saveEndpoint", "fetch", "verify", "checkMX"}

PlainSaves == {"markExisting", "saveRecords", "saveFailed", "saveEndpoint", "saveNotFound",
               "saveStatus", "saveDeleteFailed"}

\* The state of the copy at each call.
StepState ==
  /\ pc \in {"lookup", "create", "export", "saveRecords"} => obj.status.state = ""
  /\ pc \in {"markExisting", "saveFailed", "saveNotFound", "saveDeleteFailed"} =>
       obj.status.state = "failed"
  /\ pc \in CreatedSteps => obj.status.state = "created"
  /\ pc = "checkMX" => obj.spec.name \in dnsReady
  /\ pc = "saveStatus" =>
       \/ obj.status.state = "created"
       \/ /\ obj.status.state = "activated"
          /\ obj.spec.name \in dnsReady
          /\ obj.spec.forceMX => obj.spec.name \in mxReady

\* The deletion mark and the finalizer of the copy.
StepMark ==
  /\ pc = "addFinalizer" => ~obj.deleting
  /\ pc \in DelSteps => obj.deleting
  /\ pc \in ProvisionSteps => obj.deleting # ("domain" \in obj.finalizers)

\* The state that is stored while the copy may still be saved.
StoredState ==
  fresh =>
    LET stored == domains[key].status.state
    IN  /\ pc \in ({"addFinalizer"} \cup DelSteps) \ {"saveDeleteFailed"} =>
             stored = obj.status.state
        /\ pc \in {"lookup", "markExisting", "create", "export", "saveRecords", "saveFailed"} =>
             stored = ""
        /\ pc \in CreatedSteps \cup {"saveStatus", "saveNotFound"} => stored \in {"", "created"}

StatusInv == StepState /\ StepMark /\ StoredState

-----------------------------------------------------------------------------
(* Who writes what. *)

\* The object an update of the worker carries.
Carried(o) ==
  \/ pc \in PlainSaves /\ o = obj
  \/ pc = "addFinalizer" /\ o = WithFinalizer(obj, "domain")
  \/ pc = "removeFinalizer" /\ o = WithoutFinalizer(obj, "domain")

\* A carried object is the copy with another finalizer at most.
LEMMA CarriedTyped ==
  ASSUME TypeInv, NEW o, Carried(o)
  PROVE  /\ key \in Keys /\ obj \in Objects /\ Working
         /\ \/ o = Nil /\ pc = "removeFinalizer"
            \/ /\ o \in Objects
               /\ o.uid = obj.uid /\ o.spec = obj.spec /\ o.deleting = obj.deleting
               /\ o.status = obj.status
               /\ o.finalizers = CASE pc = "addFinalizer" -> obj.finalizers \cup {"domain"}
                                   [] pc = "removeFinalizer" -> obj.finalizers \ {"domain"}
                                   [] OTHER -> obj.finalizers
<1>1. key \in Keys /\ obj \in Objects /\ Working
  BY DEF Carried, PlainSaves, Working, TypeInv, WorkerTypeOK
<1>2. CASE pc \in PlainSaves /\ o = obj
  BY <1>1, <1>2 DEF PlainSaves
<1>3. CASE pc = "addFinalizer" /\ o = WithFinalizer(obj, "domain")
  BY <1>1, <1>3, WithFinalizerTyped DEF Finalizers
<1>4. CASE pc = "removeFinalizer" /\ o = WithoutFinalizer(obj, "domain")
  BY <1>1, <1>4, WithoutFinalizerTyped
<1> QED
  BY <1>1, <1>2, <1>3, <1>4 DEF Carried

\* A worker step stores nothing, or what it carries.
LEMMA WorkerWrites ==
  ASSUME TypeInv, Reconcile
  PROVE  \/ UNCHANGED <<domains, pending>>
         \/ fresh /\ \E o \in MaybeObjects : Carried(o) /\ Store(key, o)
<1>1. CASE \/ MarkExisting \/ SaveRecords \/ SaveFailed \/ SaveEndpoint \/ SaveNotFound
           \/ SaveStatus \/ SaveDeleteFailed
  <2>1. Carried(obj) /\ obj \in MaybeObjects /\ (Saved(obj) \/ SaveFails(obj))
    BY <1>1 DEF MarkExisting, SaveRecords, SaveFailed, SaveEndpoint, SaveNotFound, SaveStatus,
                SaveDeleteFailed, Carried, PlainSaves, TypeInv, WorkerTypeOK
  <2> QED
    BY <2>1, SaveShape
<1>2. CASE AddFinalizer
  <2> DEFINE o == WithFinalizer(obj, "domain")
  <2>1. Carried(o) /\ (Saved(o) \/ SaveFails(o))
    BY <1>2 DEF AddFinalizer, Carried
  <2>2. o \in MaybeObjects
    BY <2>1, CarriedTyped DEF MaybeObjects
  <2> QED
    BY <2>1, <2>2, SaveShape
<1>3. CASE RemoveFinalizer
  <2> DEFINE o == WithoutFinalizer(obj, "domain")
  <2>1. Carried(o) /\ (Saved(o) \/ SaveFails(o))
    BY <1>3 DEF RemoveFinalizer, Carried
  <2>2. o \in MaybeObjects
    BY <2>1, CarriedTyped DEF MaybeObjects
  <2> QED
    BY <2>1, <2>2, SaveShape
<1>4. CASE \/ Get \/ Lookup \/ Create \/ Export \/ CreateEndpoint \/ Fetch \/ Verify \/ CheckMX
           \/ DelGetEndpoint \/ DelEndpoint \/ NoteEndpoint \/ DelLookup \/ DelDomain
  BY <1>4 DEF Get, Lookup, Create, Export, CreateEndpoint, Fetch, Verify, CheckMX,
              DelGetEndpoint, DelEndpoint, NoteEndpoint, DelLookup, DelDomain, ReadStep,
              MailgunStep, storeVars
<1> QED
  BY <1>1, <1>2, <1>3, <1>4 DEF Reconcile

\* Nobody but the worker writes a status.
LEMMA OthersKeepStatus ==
  ASSUME TypeInv, NEW k \in Keys, OthersWrite(k), domains[k] # Nil, domains'[k] # Nil
  PROVE  domains'[k].status = domains[k].status
<1>1. domains[k] \in Objects /\ domains \in [Keys -> MaybeObjects]
  BY DEF TypeInv, StoreTypeOK, MaybeObjects
<1>2. ~UserCreate(k)
  BY DEF UserCreate
<1>3. CASE UserEdit(k)
  BY <1>1, <1>3 DEF UserEdit, Store, Objects
<1>4. CASE UserDelete(k)
  BY <1>1, <1>4, DeletedTyped DEF UserDelete, Store
<1>5. CASE GarbageCollect(k)
  BY <1>1, <1>5, WithoutFinalizerTyped DEF GarbageCollect, Store
<1> QED
  BY <1>2, <1>3, <1>4, <1>5 DEF OthersWrite

\* How the object at a key gets from one version to the next.
LEMMA DomainStep ==
  ASSUME TypeInv, [Next]_vars, NEW k \in Keys, domains'[k] # domains[k]
  PROVE  \/ Reconcile /\ k = key /\ fresh /\ Carried(domains'[k])
         \/ OthersWrite(k)
<1>1. domains \in [Keys -> MaybeObjects]
  BY DEF TypeInv, StoreTypeOK, MaybeObjects
<1>2. CASE Reconcile
  <2>1. PICK o \in MaybeObjects : fresh /\ Carried(o) /\ Store(key, o)
    BY <1>2, WorkerWrites
  <2>2. key \in Keys
    BY <2>1, CarriedTyped
  <2> QED
    BY <1>1, <1>2, <2>1, <2>2 DEF Store
<1>3. CASE \E j \in Keys : OthersWrite(j)
  <2>1. PICK j \in Keys : OthersWrite(j)
    BY <1>3
  <2>2. \E o : Store(j, o)
    BY <2>1, OthersShape
  <2> QED
    BY <1>1, <2>1, <2>2 DEF Store
<1>4. CASE \/ Restart
           \/ \E j \in Keys : Dequeue(j) \/ Deliver(j)
           \/ UNCHANGED <<domains, cache, pending, uids, workerVars>>
  BY <1>4 DEF Restart, Dequeue, Deliver, storeVars
<1> QED
  BY <1>2, <1>3, <1>4, Kinds

-----------------------------------------------------------------------------
(* The worker keeps StatusInv. *)

\* Between two reconciles nothing is asked of the copy.
LEMMA IdleStatus ==
  ASSUME pc' \in {"idle", "get"}, ~fresh'
  PROVE  StatusInv'
BY DEF StatusInv, StepState, StepMark, StoredState, CreatedSteps, DelSteps, ProvisionSteps

\* After the finalizer a Domain is created, verified or done with.
LEMMA ProvisionStatus ==
  ASSUME NEW o, NEW current, Provision(o, current) \/ Continue(o, current)
  PROVE  \/ pc' = "idle" /\ ~fresh' /\ o.status.state \in {"failed", "activated"}
         \/ /\ obj' = o /\ key' = key /\ fresh' = current
            /\ \/ pc' = "lookup" /\ o.status.state = ""
               \/ pc' \in {"createEndpoint", "fetch"} /\ o.status.state = "created"
BY DEF Provision, Continue, Return, Idle, Call

\* What follows the finalizer keeps the invariant, when the object it goes on
\* with is the one that is stored, but for the state created.
LEMMA EnterStatus ==
  ASSUME NEW o, NEW current, Provision(o, current) \/ Continue(o, current),
         o.deleting # ("domain" \in o.finalizers),
         current => \/ domains'[key].status.state = o.status.state
                    \/ o.status.state = "created" /\ domains'[key].status.state = ""
  PROVE  StatusInv'
<1>1. CASE pc' = "idle" /\ ~fresh'
  BY <1>1, IdleStatus
<1>2. CASE pc' = "lookup" /\ o.status.state = "" /\ obj' = o /\ key' = key /\ fresh' = current
  BY <1>2
  DEF StatusInv, StepState, StepMark, StoredState, CreatedSteps, DelSteps, ProvisionSteps
<1>3. CASE /\ pc' \in {"createEndpoint", "fetch"} /\ o.status.state = "created"
           /\ obj' = o /\ key' = key /\ fresh' = current
  BY <1>3
  DEF StatusInv, StepState, StepMark, StoredState, CreatedSteps, DelSteps, ProvisionSteps
<1> QED
  BY <1>1, <1>2, <1>3, ProvisionStatus

\* The first call of a reconcile, on a copy of the cached version.
LEMMA GetStatus ==
  ASSUME CopyInv, StatusInv, Get
  PROVE  StatusInv'
<1> DEFINE o == cache[key]
<1>1. /\ key \in Keys /\ UNCHANGED domains
      /\ pending[key] = <<>> => o = domains[key]
  BY DEF Get, CopyInv, TypeInv, WorkerTypeOK, Synced, ReadStep, storeVars
<1>2. o # Nil => o \in Objects
  BY <1>1 DEF CopyInv, TypeInv, StoreTypeOK
<1>3. CASE o # Nil /\ o.deleting # ("domain" \in o.finalizers)
            /\ Provision(o, pending[key] = <<>>)
  BY <1>1, <1>2, <1>3, EnterStatus
<1>4. CASE Return
  BY <1>4, IdleStatus DEF Return, Idle
<1>5. CASE o # Nil /\ ~o.deleting /\ Call("addFinalizer", o, pending[key] = <<>>)
  BY <1>1, <1>2, <1>5
  DEF Call, StatusInv, StepState, StepMark, StoredState, CreatedSteps, DelSteps, ProvisionSteps
<1>6. CASE o # Nil /\ o.deleting /\ Call("delGetEndpoint", o, pending[key] = <<>>)
  BY <1>1, <1>2, <1>6
  DEF Call, StatusInv, StepState, StepMark, StoredState, CreatedSteps, DelSteps, ProvisionSteps
<1> QED
  BY <1>3, <1>4, <1>5, <1>6 DEF Get

\* The finalizer, and what follows when it is saved.
LEMMA AddFinalizerStatus ==
  ASSUME CopyInv, StatusInv, AddFinalizer
  PROVE  StatusInv'
<1> DEFINE o == WithFinalizer(obj, "domain")
<1>1. obj \in Objects /\ key \in Keys /\ domains \in [Keys -> MaybeObjects]
  BY DEF AddFinalizer, CopyInv, TypeInv, WorkerTypeOK, StoreTypeOK, MaybeObjects
<1>2. ~obj.deleting
  BY DEF AddFinalizer, StatusInv, StepMark
<1>3. o.status = obj.status /\ ~o.deleting /\ "domain" \in o.finalizers
  BY <1>1, <1>2, WithFinalizerTyped DEF Finalizers
<1>4. CASE Saved(o) /\ Provision(o, TRUE)
  <2>1. domains'[key] = o
    BY <1>1, <1>4 DEF Saved, Store
  <2> QED
    BY <1>3, <1>4, <2>1, EnterStatus
<1>5. CASE ReturnError
  BY <1>5, IdleStatus DEF ReturnError, Idle
<1> QED
  BY <1>4, <1>5 DEF AddFinalizer

\* The steps that only end the reconcile.
LEMMA EndStatus ==
  ASSUME \/ MarkExisting \/ SaveFailed \/ SaveNotFound \/ SaveStatus \/ SaveDeleteFailed
         \/ RemoveFinalizer
  PROVE  StatusInv'
BY IdleStatus
DEF MarkExisting, SaveFailed, SaveNotFound, SaveStatus, SaveDeleteFailed, RemoveFinalizer,
    Return, ReturnError, RequeueAfterVerify, Idle

\* The two saves that may go on.
LEMMA SaveGoesOnStatus ==
  ASSUME CopyInv, StatusInv, SaveRecords \/ SaveEndpoint
  PROVE  StatusInv'
<1>1. obj \in Objects /\ key \in Keys /\ domains \in [Keys -> MaybeObjects]
  BY DEF SaveRecords, SaveEndpoint, CopyInv, TypeInv, WorkerTypeOK, StoreTypeOK, MaybeObjects
<1>2. obj.deleting # ("domain" \in obj.finalizers)
  BY DEF SaveRecords, SaveEndpoint, StatusInv, StepMark, ProvisionSteps, DelSteps, Steps
<1>3. CASE SaveRecords
  <2>1. obj.status.state = ""
    BY <1>3 DEF SaveRecords, StatusInv, StepState
  <2> DEFINE created == WithState(obj, "created")
             failed == WithState(obj, "failed")
  <2>2. /\ created.deleting = obj.deleting /\ created.finalizers = obj.finalizers
        /\ created.status.state = "created"
        /\ failed.deleting = obj.deleting /\ failed.finalizers = obj.finalizers
        /\ failed.status.state = "failed"
    BY <1>1, WithStateTyped DEF States
  <2> HIDE DEF created, failed
  <2>3. CASE Saved(obj) /\ Continue(created, TRUE)
    <3>1. domains'[key] = obj
      BY <1>1, <2>3 DEF Saved, Store
    <3> QED
      BY <1>2, <2>1, <2>2, <2>3, <3>1, EnterStatus
  <2>4. CASE SaveFails(obj) /\ Call("saveFailed", failed, fresh /\ pending' = pending)
    <3>1. fresh' => UNCHANGED domains /\ domains[key].status.state = ""
      <4>1. fresh' => fresh /\ pending' = pending
        BY <2>4 DEF Call
      <4>2. ~(pending' = pending /\ Store(key, obj))
        <5>1. pending[key] \in Seq(MaybeObjects) /\ pending \in [Keys -> Seq(MaybeObjects)]
          BY <1>1 DEF CopyInv, TypeInv, StoreTypeOK, MaybeObjects
        <5>2. Len(Append(pending[key], obj)) = Len(pending[key]) + 1 /\ Len(pending[key]) \in Nat
          BY <1>1, <5>1 DEF MaybeObjects
        <5>3. Append(pending[key], obj) # pending[key]
          BY <5>2
        <5> QED
          BY <1>1, <5>1, <5>3 DEF Store
      <4> QED
        BY <1>3, <2>4, <4>1, <4>2 DEF SaveFails, StatusInv, StoredState, SaveRecords
    <3> QED
      BY <1>1, <1>2, <2>2, <2>4, <3>1
      DEF Call, StatusInv, StepState, StepMark, StoredState, CreatedSteps, DelSteps, ProvisionSteps
  <2> QED
    BY <1>3, <2>3, <2>4 DEF SaveRecords, created, failed
<1>4. CASE SaveEndpoint
  <2>1. obj.status.state = "created"
    BY <1>4 DEF SaveEndpoint, StatusInv, StepState, CreatedSteps
  <2>2. CASE Saved(obj) /\ Call("fetch", obj, TRUE)
    <3>1. domains'[key] = obj
      BY <1>1, <2>2 DEF Saved, Store
    <3> QED
      BY <1>2, <2>1, <2>2, <3>1
      DEF Call, StatusInv, StepState, StepMark, StoredState, CreatedSteps, DelSteps, ProvisionSteps
  <2>3. CASE ReturnError
    BY <2>3, IdleStatus DEF ReturnError, Idle
  <2> QED
    BY <1>4, <2>2, <2>3 DEF SaveEndpoint
<1> QED
  BY <1>3, <1>4

\* The steps that leave the Domain alone.
LEMMA CallStatus ==
  ASSUME CopyInv, StatusInv,
         \/ Lookup \/ Create \/ Export \/ CreateEndpoint \/ Fetch \/ Verify \/ CheckMX
         \/ DelGetEndpoint \/ DelEndpoint \/ NoteEndpoint \/ DelLookup \/ DelDomain
  PROVE  StatusInv'
<1> DEFINE failed == WithState(obj, "failed")
           activated == WithState(obj, "activated")
           marked == [failed EXCEPT !.status.notManaged = TRUE]
           flagged == [obj EXCEPT !.status.dnsCreated = TRUE]
           Same(o) == o.deleting = obj.deleting /\ o.finalizers = obj.finalizers /\ o.spec = obj.spec
           From(steps) == pc \in steps /\ pc' \in steps
           Leads(o) == obj' = o /\ key' = key /\ fresh' = fresh
<1>1. obj \in Objects /\ UNCHANGED domains
  BY DEF Lookup, Create, Export, CreateEndpoint, Fetch, Verify, CheckMX, DelGetEndpoint,
         DelEndpoint, NoteEndpoint, DelLookup, DelDomain, ReadStep, MailgunStep, storeVars,
         CopyInv, TypeInv, WorkerTypeOK
<1>2. /\ failed \in Objects /\ Same(failed) /\ failed.status.state = "failed"
      /\ Same(activated) /\ activated.status.state = "activated"
  BY <1>1, WithStateTyped DEF States
<1>3. Same(flagged) /\ flagged.status.state = obj.status.state
  BY <1>1, FlagsTyped
<1>4. Same(marked) /\ marked.status.state = "failed"
  <2> HIDE DEF failed
  <2> QED
    BY <1>2, FlagsTyped
<1> HIDE DEF failed, activated, marked, flagged
<1>5. ASSUME Return \/ ReturnError PROVE StatusInv'
  BY <1>5, IdleStatus DEF Return, ReturnError, Idle
\* A call goes on within the creation, or within the deletion.
<1>6. ASSUME NEW o, Leads(o), Same(o), From(ProvisionSteps) \/ From(DelSteps)
      PROVE  StepMark'
  BY <1>6 DEF StatusInv, StepMark, ProvisionSteps, DelSteps
<1>7. CASE Lookup
  <2>1. /\ pc = "lookup"
        /\ \/ pc' = "markExisting" /\ Leads(marked)
           \/ pc' = "create" /\ Leads(obj)
    BY <1>7 DEF Lookup, Call, marked, failed
  <2>2. StepMark'
    BY <1>4, <1>6, <2>1 DEF ProvisionSteps, DelSteps, Steps
  <2>3. StepState'
    BY <1>1, <1>4, <2>1 DEF StatusInv, StepState, CreatedSteps
  <2>4. StoredState'
    BY <1>1, <1>4, <2>1 DEF StatusInv, StepState, StoredState, CreatedSteps, DelSteps
  <2> QED
    BY <2>2, <2>3, <2>4 DEF StatusInv
<1>8. CASE Create
  <2>1. /\ pc = "create"
        /\ \/ pc' \in {"saveRecords", "export"} /\ Leads(obj)
           \/ pc' = "saveFailed" /\ Leads(failed)
    BY <1>8 DEF Create, Call, failed
  <2>2. StepMark'
    BY <1>2, <1>6, <2>1 DEF ProvisionSteps, DelSteps, Steps
  <2>3. StepState'
    BY <1>1, <1>2, <2>1 DEF StatusInv, StepState, CreatedSteps
  <2>4. StoredState'
    BY <1>1, <1>2, <2>1 DEF StatusInv, StepState, StoredState, CreatedSteps, DelSteps
  <2> QED
    BY <2>2, <2>3, <2>4 DEF StatusInv
<1>9. CASE Export /\ ~ReturnError
  <2>1. /\ pc = "export"
        /\ \/ pc' = "saveRecords" /\ Leads(obj)
           \/ pc' = "saveFailed" /\ Leads(failed)
    BY <1>9 DEF Export, Call, failed
  <2>2. StepMark'
    BY <1>2, <1>6, <2>1 DEF ProvisionSteps, DelSteps, Steps
  <2>3. StepState'
    BY <1>1, <1>2, <2>1 DEF StatusInv, StepState, CreatedSteps
  <2>4. StoredState'
    BY <1>1, <1>2, <2>1 DEF StatusInv, StepState, StoredState, CreatedSteps, DelSteps
  <2> QED
    BY <2>2, <2>3, <2>4 DEF StatusInv
<1>10. CASE CreateEndpoint /\ ~ReturnError
  <2>1. pc = "createEndpoint" /\ pc' = "saveEndpoint" /\ Leads(flagged)
    BY <1>10 DEF CreateEndpoint, Call, flagged
  <2>2. StepMark'
    BY <1>3, <1>6, <2>1 DEF ProvisionSteps, DelSteps, Steps
  <2>3. StepState'
    BY <1>1, <1>3, <2>1 DEF StatusInv, StepState, CreatedSteps
  <2>4. StoredState'
    BY <1>1, <1>3, <2>1 DEF StatusInv, StepState, StoredState, CreatedSteps, DelSteps
  <2> QED
    BY <2>2, <2>3, <2>4 DEF StatusInv
<1>11. CASE Fetch
  <2>1. /\ pc = "fetch"
        /\ \/ pc' = "verify" /\ Leads(obj)
           \/ pc' = "saveNotFound" /\ Leads(failed)
    BY <1>11 DEF Fetch, Call, failed
  <2>2. StepMark'
    BY <1>2, <1>6, <2>1 DEF ProvisionSteps, DelSteps, Steps
  <2>3. StepState'
    BY <1>1, <1>2, <2>1 DEF StatusInv, StepState, CreatedSteps
  <2>4. StoredState'
    BY <1>1, <1>2, <2>1 DEF StatusInv, StepState, StoredState, CreatedSteps, DelSteps
  <2> QED
    BY <2>2, <2>3, <2>4 DEF StatusInv
<1>12. CASE (Verify \/ CheckMX) /\ ~ReturnError
  <2>1. /\ pc \in {"verify", "checkMX"} /\ UNCHANGED <<dnsReady, mxReady>>
        /\ \/ pc' = "checkMX" /\ Leads(obj) /\ obj.spec.name \in dnsReady
           \/ pc' = "saveStatus" /\ Leads(obj)
           \/ /\ pc' = "saveStatus" /\ Leads(activated)
              /\ obj.spec.name \in dnsReady
              /\ obj.spec.forceMX => obj.spec.name \in mxReady
    <3>1. CASE Verify
      BY <1>12, <3>1
      DEF Verify, Call, activated, VerifiedActive, name, ReadStep, mailgunVars
    <3>2. CASE CheckMX
      BY <3>2
      DEF CheckMX, Call, activated, ReceivingValid, name, StatusInv, StepState, ReadStep,
          mailgunVars
    <3> QED
      BY <1>12, <3>1, <3>2
  <2>2. StepMark'
    BY <1>2, <1>6, <2>1 DEF ProvisionSteps, DelSteps, Steps
  <2>3. StepState'
    BY <1>1, <1>2, <2>1 DEF StatusInv, StepState, CreatedSteps
  <2>4. StoredState'
    BY <1>1, <1>2, <2>1 DEF StatusInv, StepState, StoredState, CreatedSteps, DelSteps
  <2> QED
    BY <2>2, <2>3, <2>4 DEF StatusInv
<1>13. CASE (DelGetEndpoint \/ DelEndpoint \/ NoteEndpoint \/ DelLookup \/ DelDomain) /\ ~ReturnError
  <2>1. /\ pc \in DelSteps \ {"saveDeleteFailed"}
        /\ \/ pc' \in DelSteps \ {"saveDeleteFailed"} /\ Leads(obj)
           \/ pc' = "saveDeleteFailed" /\ Leads(failed)
    BY <1>13 DEF DelGetEndpoint, DelEndpoint, NoteEndpoint, DelLookup, DelDomain, Call, failed,
                 CopyInv, TypeInv, WorkerTypeOK, DelSteps
  <2>2. StepMark'
    BY <1>2, <1>6, <2>1 DEF DelSteps
  <2>3. StepState'
    BY <1>1, <1>2, <2>1 DEF StatusInv, StepState, CreatedSteps, DelSteps
  <2>4. StoredState'
    BY <1>1, <1>2, <2>1 DEF StatusInv, StepState, StoredState, CreatedSteps, DelSteps
  <2> QED
    BY <2>2, <2>3, <2>4 DEF StatusInv
<1> QED
  BY <1>5, <1>7, <1>8, <1>9, <1>10, <1>11, <1>12, <1>13

\* Every step keeps what StatusInv says.
LEMMA NextStatusInv ==
  ASSUME CopyInv, StatusInv, [Next]_vars
  PROVE  StatusInv'
<1>1. CASE Reconcile
  BY <1>1, GetStatus, AddFinalizerStatus, EndStatus, SaveGoesOnStatus, CallStatus DEF Reconcile
<1>2. CASE Restart \/ \E k \in Keys : Dequeue(k)
  <2>1. pc' \in {"idle", "get"} /\ ~fresh'
    BY <1>2 DEF Restart, Dequeue, Idle, CopyInv, CopyOK, Working
  <2> QED
    BY <2>1, IdleStatus
<1>3. ASSUME UNCHANGED <<pc, key, obj>>, dnsReady \subseteq dnsReady', mxReady \subseteq mxReady',
             fresh' => /\ fresh
                       /\ domains'[key].status = domains[key].status
      PROVE  StatusInv'
  <2>1. StepState'
    BY <1>3 DEF StatusInv, StepState
  <2>2. StepMark'
    BY <1>3 DEF StatusInv, StepMark
  <2>3. StoredState'
    BY <1>3 DEF StatusInv, StoredState
  <2> QED
    BY <2>1, <2>2, <2>3 DEF StatusInv
<1>4. CASE \E k \in Keys : OthersWrite(k)
  <2>1. PICK k \in Keys : OthersWrite(k)
    BY <1>4
  <2>2. UNCHANGED <<pc, key, obj, dnsReady, mxReady>> /\ fresh' = (fresh /\ key # k)
    BY <2>1 DEF OthersWrite, mailgunVars
  <2>3. fresh /\ key # k => domains'[key] = domains[key]
    <3>1. \E o : Store(k, o)
      BY <2>1, OthersShape DEF CopyInv
    <3>2. fresh => key \in Keys
      BY DEF CopyInv, CopyOK, Working, TypeInv, WorkerTypeOK
    <3> QED
      BY <3>1, <3>2 DEF Store, CopyInv, TypeInv, StoreTypeOK
  <2> QED
    BY <1>3, <2>2, <2>3
<1>5. CASE \/ \E k \in Keys : Deliver(k) \/ DeliverEndpoint(k) \/ TimerFires(k)
           \/ \E n \in Names : MailgunMoves(n)
           \/ UNCHANGED vars
  <2>1. UNCHANGED <<domains, pc, key, obj, fresh>>
    BY <1>5 DEF Deliver, DeliverEndpoint, TimerFires, MailgunMoves, vars, storeVars, workerVars
  <2>2. dnsReady \subseteq dnsReady' /\ mxReady \subseteq mxReady'
    BY <1>5 DEF Deliver, DeliverEndpoint, TimerFires, MailgunMoves, PublishDNS, PublishMX,
                OutsideCreate, OutsideDelete, vars, mailgunVars
  <2> QED
    BY <1>3, <2>1, <2>2
<1> QED
  BY <1>1, <1>2, <1>3, <1>4, <1>5 DEF Next

\* What CopyInv and StatusInv say of the object and its state holds throughout.
LEMMA StatusInvariance == Spec => [](CopyInv /\ StatusInv)
<1>1. Init => StatusInv
  BY DEF Init, StatusInv, StepState, StepMark, StoredState, CreatedSteps, DelSteps, ProvisionSteps
<1> QED
  BY <1>1, InitCopyInv, NextCopyInv, NextStatusInv, PTL DEF Spec

-----------------------------------------------------------------------------
(* How a state moves. *)

\* The worker stores a state that follows the stored one.
LEMMA WorkerStates ==
  ASSUME CopyInv, StatusInv, fresh, NEW o, Carried(o), o # Nil
  PROVE  LET from == domains[key].status.state
         IN  \/ o.status.state = from
             \/ from = ""
             \/ from = "created" /\ o.status.state \in {"activated", "failed"}
             \/ o.status.state = "failed" /\ domains[key].deleting
<1>1. o.status = obj.status /\ obj \in Objects
  BY CarriedTyped DEF CopyInv
<1>2. obj.deleting = domains[key].deleting
  BY DEF CopyInv, CopyOK, SameCore
<1>3. CASE pc \in {"addFinalizer", "removeFinalizer"}
  BY <1>1, <1>3 DEF StatusInv, StoredState, DelSteps
<1>4. CASE pc \in {"markExisting", "saveRecords", "saveFailed"}
  BY <1>1, <1>4 DEF StatusInv, StoredState
<1>5. CASE pc = "saveDeleteFailed"
  BY <1>1, <1>2, <1>5 DEF StatusInv, StepState, StepMark, DelSteps
<1>6. CASE pc \in {"saveEndpoint", "saveNotFound", "saveStatus"}
  BY <1>1, <1>6 DEF StatusInv, StepState, StoredState, CreatedSteps
<1> QED
  BY <1>3, <1>4, <1>5, <1>6 DEF Carried, PlainSaves

\* Status.State only moves forward, whatever copies the worker writes from:
\* a failed Domain stays failed, and an activated one fails only on deletion.
THEOREM StateMovesForward == Spec => StatusMachine
<1> DEFINE Forward == \A k \in Keys : SameDomain(k) =>
                        LET from == domains[k].status.state
                            to == domains'[k].status.state
                        IN  \/ from = to
                            \/ from = ""
                            \/ from = "created" /\ to \in {"activated", "failed"}
                            \/ from = "activated" /\ to = "failed" /\ domains[k].deleting
<1>1. CopyInv /\ StatusInv /\ [Next]_vars => [Forward]_vars
  <2> SUFFICES ASSUME CopyInv, StatusInv, [Next]_vars, NEW k \in Keys, SameDomain(k),
                      domains'[k] # domains[k]
               PROVE  LET from == domains[k].status.state
                          to == domains'[k].status.state
                      IN  \/ from = to
                          \/ from = ""
                          \/ from = "created" /\ to \in {"activated", "failed"}
                          \/ from = "activated" /\ to = "failed" /\ domains[k].deleting
    OBVIOUS
  <2>1. domains[k] \in Objects /\ domains[k] # Nil /\ domains'[k] # Nil
    BY DEF SameDomain, CopyInv, TypeInv, StoreTypeOK
  <2>2. domains[k].status.state \in {"", "created", "activated", "failed"}
    BY <2>1 DEF Objects, Statuses, States
  <2>3. CASE OthersWrite(k)
    BY <2>1, <2>3, OthersKeepStatus DEF CopyInv
  <2>4. CASE Reconcile /\ k = key /\ fresh /\ Carried(domains'[k])
    BY <2>1, <2>2, <2>4, WorkerStates
  <2> QED
    BY <2>3, <2>4, DomainStep DEF CopyInv
<1> QED
  BY <1>1, StatusInvariance, PTL DEF Spec, StatusMachine

\* A Domain is marked activated only when Mailgun has verified it, and its
\* receiving records too if the spec asks for that at this moment.
THEOREM ActivatedIsVerified == Spec => ActivationIsEarned
<1> DEFINE Earned == \A k \in Keys :
       SameDomain(k) /\ domains[k].status.state # "activated"
                     /\ domains'[k].status.state = "activated" =>
         LET spec == domains'[k].spec
         IN  spec.name \in dnsReady /\ (spec.forceMX => spec.name \in mxReady)
<1>1. CopyInv /\ StatusInv /\ [Next]_vars => [Earned]_vars
  <2> SUFFICES ASSUME CopyInv, StatusInv, [Next]_vars, NEW k \in Keys, SameDomain(k),
                      domains[k].status.state # "activated",
                      domains'[k].status.state = "activated"
               PROVE  LET spec == domains'[k].spec
                      IN  spec.name \in dnsReady /\ (spec.forceMX => spec.name \in mxReady)
    OBVIOUS
  <2>1. domains[k] # Nil /\ domains'[k] # Nil /\ domains'[k] # domains[k]
    BY DEF SameDomain
  <2>2. ~OthersWrite(k)
    BY <2>1, OthersKeepStatus DEF CopyInv
  <2>3. k = key /\ fresh /\ Carried(domains'[k])
    BY <2>1, <2>2, DomainStep DEF CopyInv
  <2>4. domains'[k].status = obj.status /\ domains'[k].spec = obj.spec
    BY <2>1, <2>3, CarriedTyped DEF CopyInv
  <2>5. pc = "saveStatus"
    BY <2>3, <2>4 DEF StatusInv, StepState, StoredState, Carried, PlainSaves, DelSteps, CreatedSteps
  <2> QED
    BY <2>4, <2>5 DEF StatusInv, StepState
<1> QED
  BY <1>1, StatusInvariance, PTL DEF Spec, ActivationIsEarned

-----------------------------------------------------------------------------
(* No lost wakeup. *)

Final == {"activated", "failed"}

\* What a later version may still say when nothing between the two passed the
\* predicate.
Follows(old, new) ==
  /\ old = Nil <=> new = Nil
  /\ old # Nil =>
       /\ new.deleting = old.deleting
       /\ ~old.deleting /\ "domain" \in old.finalizers => "domain" \in new.finalizers
       /\ old.deleting /\ "domain" \notin old.finalizers => "domain" \notin new.finalizers
       /\ old.status.state \in Final => new.status.state \in Final

\* The versions of a key from the cached one on.
Version(k, i) == IF i = 0 THEN cache[k] ELSE pending[k][i]

\* The informer will queue the key for nothing that comes after version i.
QuietFrom(k, i) ==
  \A j \in i + 1 .. Len(pending[k]) : ~PassesPredicate(Version(k, j - 1), Version(k, j))

\* What is stored follows every version that no event comes after.
QuietFollows ==
  \A k \in Keys : \A i \in 0 .. Len(pending[k]) :
    QuietFrom(k, i) => Follows(Version(k, i), domains[k])

\* A version follows itself, and what follows one that follows it.
LEMMA FollowsOrder ==
  /\ \A a : Follows(a, a)
  /\ \A a, b, c : Follows(a, b) /\ Follows(b, c) => Follows(a, c)
BY DEF Follows

\* No event is coming when it is quiet from the cached version on.
LEMMA EventsComing ==
  ASSUME TypeInv, NEW k \in Keys
  PROVE  EventComing(k) <=> ~QuietFrom(k, 0)
<1>1. Len(pending[k]) \in Nat
  BY DEF TypeInv, StoreTypeOK
<1>2. \A j \in 1 .. Len(pending[k]) :
        Version(k, j - 1) = (IF j = 1 THEN cache[k] ELSE pending[k][j - 1])
        /\ Version(k, j) = pending[k][j]
  BY <1>1 DEF Version
<1> QED
  BY <1>1, <1>2 DEF EventComing, QuietFrom

\* The next version follows the stored one, or is an event.
LEMMA StepFollows ==
  ASSUME CopyInv, StatusInv, [Next]_vars, NEW k \in Keys,
         ~PassesPredicate(domains[k], domains'[k])
  PROVE  Follows(domains[k], domains'[k])
<1>1. CASE domains'[k] = domains[k]
  BY <1>1, FollowsOrder
<1>2. CASE domains'[k] # domains[k]
  <2>1. /\ domains[k] # Nil /\ domains'[k] # Nil /\ domains[k] \in Objects
        /\ domains'[k].deleting = domains[k].deleting
    BY DEF PassesPredicate, CopyInv, TypeInv, StoreTypeOK
  <2>2. CASE OthersWrite(k)
    <3>1. domains'[k].status = domains[k].status
      BY <2>1, <2>2, OthersKeepStatus DEF CopyInv
    <3>2. PICK o \in MaybeObjects :
            /\ Store(k, o)
            /\ \/ o = Nil /\ Gone(k)
               \/ o \in Objects /\ (Created(k, o) \/ Edited(k, o) \/ Moved(k, o))
      BY <2>2, OthersShape DEF CopyInv
    <3>3. domains'[k] = o
      BY <3>2 DEF Store, CopyInv, TypeInv, StoreTypeOK
    <3>4. "domain" \notin DeleteModes
      BY StoreAssumption
    <3>5. "domain" \in domains'[k].finalizers <=> "domain" \in domains[k].finalizers
      BY <2>1, <3>2, <3>3, <3>4 DEF Created, Edited, Moved
    <3> QED
      BY <2>1, <3>1, <3>5 DEF Follows
  <2>3. CASE k = key /\ fresh /\ Carried(domains'[k])
    <3>1. obj.finalizers = domains[k].finalizers /\ obj.deleting = domains[k].deleting
      BY <2>3 DEF CopyInv, CopyOK, SameCore
    <3>2. /\ domains[k].status.state \in Final => domains'[k].status.state \in Final
      BY <2>1, <2>3, WorkerStates DEF Final
    <3>3. /\ pc = "addFinalizer" => ~obj.deleting
          /\ pc = "removeFinalizer" => obj.deleting
      BY DEF StatusInv, StepMark, DelSteps
    <3>4. /\ ~obj.deleting /\ "domain" \in obj.finalizers => "domain" \in domains'[k].finalizers
          /\ obj.deleting /\ "domain" \notin obj.finalizers => "domain" \notin domains'[k].finalizers
      BY <2>1, <2>3, <3>3, CarriedTyped DEF CopyInv
    <3> QED
      BY <2>1, <3>1, <3>2, <3>4 DEF Follows
  <2> QED
    BY <1>2, <2>2, <2>3, DomainStep DEF CopyInv
<1> QED
  BY <1>1, <1>2

\* A store step adds a version at the end.
LEMMA StoreFollows ==
  ASSUME TypeInv, Synced, QuietFollows, NEW k \in Keys, NEW o \in MaybeObjects, Store(k, o),
         UNCHANGED cache,
         ~PassesPredicate(domains[k], o) => Follows(domains[k], o)
  PROVE  QuietFollows'
<1> SUFFICES ASSUME NEW j \in Keys, NEW i \in 0 .. Len(pending'[j]), QuietFrom(j, i)'
             PROVE  Follows(Version(j, i)', domains'[j])
  BY DEF QuietFollows
<1>1. /\ domains' = [domains EXCEPT ![k] = o]
      /\ pending' = [pending EXCEPT ![k] = Append(pending[k], o)]
      /\ domains \in [Keys -> MaybeObjects]
      /\ pending \in [Keys -> Seq(MaybeObjects)]
  BY DEF Store, TypeInv, StoreTypeOK, MaybeObjects
<1>2. CASE j # k
  <2>1. pending'[j] = pending[j] /\ domains'[j] = domains[j] /\ cache'[j] = cache[j]
    BY <1>1, <1>2
  <2>2. \A m : Version(j, m)' = Version(j, m)
    BY <2>1 DEF Version
  <2>3. QuietFrom(j, i)
    BY <2>1, <2>2 DEF QuietFrom
  <2> QED
    BY <2>1, <2>2, <2>3 DEF QuietFollows
<1>3. CASE j = k
  <2>0. PICK n \in Nat : n = Len(pending[k])
    BY <1>1
  <2>1. Len(pending'[k]) = n + 1 /\ domains'[k] = o
    BY <1>1, <2>0
  <2>2. /\ \A m \in 1 .. n : pending'[k][m] = pending[k][m]
        /\ pending'[k][n + 1] = o
    BY <1>1, <2>0
  <2>3. \A m \in 0 .. n : Version(k, m)' = Version(k, m)
    BY <2>1, <2>2 DEF Version
  <2>4. Version(k, n) = domains[k]
    <3>1. CASE n = 0
      BY <1>1, <2>0, <3>1, EmptySeq DEF Version, Synced
    <3>2. CASE n # 0
      <4>1. pending[k] # <<>>
        BY <1>1, <2>0, <3>2, EmptySeq
      <4> QED
        BY <2>0, <3>2, <4>1 DEF Version, Synced
    <3> QED
      BY <3>1, <3>2
  <2>5. CASE i = n + 1
    <3>1. Version(j, i)' = o
      BY <1>3, <2>1, <2>2, <2>5 DEF Version
    <3> QED
      BY <1>3, <2>1, <3>1, FollowsOrder
  <2>6. CASE i \in 0 .. n
    <3>1. ASSUME NEW m \in i + 1 .. n + 1
          PROVE  ~PassesPredicate(Version(k, m - 1)', Version(k, m)')
      BY <1>3, <2>1, <2>6, <3>1 DEF QuietFrom
    <3>2. QuietFrom(k, i)
      <4> SUFFICES ASSUME NEW m \in i + 1 .. n
                   PROVE  ~PassesPredicate(Version(k, m - 1), Version(k, m))
        BY <2>0 DEF QuietFrom
      <4>1. m \in i + 1 .. n + 1 /\ m \in 0 .. n /\ m - 1 \in 0 .. n
        BY <2>1, <2>6
      <4> QED
        BY <2>3, <3>1, <4>1
    <3>3. ~PassesPredicate(domains[k], o)
      <4>1. n + 1 \in i + 1 .. n + 1 /\ n \in 0 .. n /\ (n + 1) - 1 = n
        BY <2>1, <2>6
      <4>2. ~PassesPredicate(Version(k, n)', Version(k, n + 1)')
        BY <3>1, <4>1
      <4>3. Version(k, n + 1)' = o
        BY <2>1, <2>2 DEF Version
      <4> QED
        BY <2>3, <2>4, <4>1, <4>2, <4>3
    <3>4. Follows(Version(k, i), domains[k])
      BY <2>0, <2>6, <3>2 DEF QuietFollows
    <3>5. Follows(Version(k, i), o)
      BY <3>3, <3>4, FollowsOrder
    <3> QED
      BY <1>3, <2>1, <2>3, <2>6, <3>5
  <2> QED
    BY <1>3, <2>1, <2>5, <2>6
<1> QED
  BY <1>2, <1>3

\* A delivery moves every version of its key one forward.
LEMMA DeliverFollows ==
  ASSUME TypeInv, QuietFollows, NEW k \in Keys, NextVersion(k), UNCHANGED domains
  PROVE  /\ QuietFollows'
         /\ \A j \in Keys \ {k} : QuietFrom(j, 0) => QuietFrom(j, 0)'
         /\ QuietFrom(k, 0)' => QuietFrom(k, 1)
<1>1. /\ pending[k] # <<>>
      /\ cache' = [cache EXCEPT ![k] = Head(pending[k])]
      /\ pending' = [pending EXCEPT ![k] = Tail(pending[k])]
      /\ cache \in [Keys -> MaybeObjects]
      /\ pending \in [Keys -> Seq(MaybeObjects)]
  BY DEF NextVersion, TypeInv, StoreTypeOK, MaybeObjects
<1>2. ASSUME NEW j \in Keys, j # k
      PROVE  /\ Len(pending'[j]) = Len(pending[j])
             /\ \A i : Version(j, i)' = Version(j, i) /\ (QuietFrom(j, i)' <=> QuietFrom(j, i))
  <2>1. pending'[j] = pending[j] /\ cache'[j] = cache[j]
    BY <1>1, <1>2
  <2>2. \A i : Version(j, i)' = Version(j, i)
    BY <2>1 DEF Version
  <2> QED
    BY <2>1, <2>2 DEF QuietFrom
<1> DEFINE n == Len(pending[k])
<1>3. /\ n \in Nat /\ n > 0 /\ Len(pending'[k]) = n - 1
      /\ cache'[k] = pending[k][1]
      /\ \A i \in 1 .. n - 1 : pending'[k][i] = pending[k][i + 1]
  <2>1. pending[k] \in Seq(MaybeObjects) /\ pending[k] # <<>>
    BY <1>1
  <2> QED
    BY <1>1, <2>1
<1> HIDE DEF n
<1>4. \A i \in 0 .. n - 1 : Version(k, i)' = Version(k, i + 1)
  BY <1>3 DEF Version
<1>5. ASSUME NEW i \in 0 .. n - 1, QuietFrom(k, i)'
      PROVE  QuietFrom(k, i + 1)
  <2> SUFFICES ASSUME NEW m \in i + 2 .. n
               PROVE  ~PassesPredicate(Version(k, m - 1), Version(k, m))
    BY <1>3 DEF QuietFrom, n
  <2>1. m - 1 \in i + 1 .. n - 1 /\ (m - 1) - 1 \in 0 .. n - 1 /\ m - 1 \in 0 .. n - 1
        /\ (m - 1) + 1 = m /\ ((m - 1) - 1) + 1 = m - 1
    BY <1>3
  <2>2. ~PassesPredicate(Version(k, (m - 1) - 1)', Version(k, m - 1)')
    BY <1>3, <1>5, <2>1 DEF QuietFrom
  <2> QED
    BY <1>4, <2>1, <2>2
<1>6. QuietFollows'
  <2> SUFFICES ASSUME NEW j \in Keys, NEW i \in 0 .. Len(pending'[j]), QuietFrom(j, i)'
               PROVE  Follows(Version(j, i)', domains'[j])
    BY DEF QuietFollows
  <2>1. CASE j # k
    BY <1>2, <2>1 DEF QuietFollows
  <2>2. CASE j = k
    <3>1. i \in 0 .. n - 1 /\ i + 1 \in 0 .. n
      BY <1>3, <2>2
    <3>2. Follows(Version(k, i + 1), domains[k])
      BY <1>5, <2>2, <3>1 DEF QuietFollows, n
    <3> QED
      BY <1>4, <2>2, <3>1, <3>2
  <2> QED
    BY <2>1, <2>2
<1>7. QuietFrom(k, 0)' => QuietFrom(k, 1)
  <2>1. 0 \in 0 .. n - 1 /\ 0 + 1 = 1
    BY <1>3
  <2> QED
    BY <1>5, <2>1
<1> QED
  BY <1>2, <1>6, <1>7

\* A store step of either kind is one.
LEMMA AnyStoreFollows ==
  ASSUME CopyInv, StatusInv, QuietFollows, [Next]_vars,
         NEW k \in Keys, NEW o \in MaybeObjects, Store(k, o), UNCHANGED cache
  PROVE  QuietFollows'
<1>1. domains'[k] = o
  BY DEF Store, CopyInv, TypeInv, StoreTypeOK
<1>2. ~PassesPredicate(domains[k], o) => Follows(domains[k], o)
  BY <1>1, StepFollows
<1> QED
  BY <1>2, StoreFollows DEF CopyInv

\* Every step keeps the informer's quiet meaningful.
LEMMA NextQuietFollows ==
  ASSUME CopyInv, StatusInv, QuietFollows, [Next]_vars
  PROVE  QuietFollows'
<1>1. CASE UNCHANGED <<domains, cache, pending>>
  BY <1>1 DEF QuietFollows, QuietFrom, Version
<1>2. CASE Reconcile
  <2>1. UNCHANGED cache
    BY <1>2, ReconcileShape DEF CopyInv
  <2>2. CASE \E o \in MaybeObjects : Carried(o) /\ Store(key, o)
    BY <2>1, <2>2, CarriedTyped, AnyStoreFollows DEF CopyInv
  <2> QED
    BY <1>1, <1>2, <2>1, <2>2, WorkerWrites DEF CopyInv
<1>3. CASE \E k \in Keys : OthersWrite(k)
  <2>1. PICK k \in Keys, o \in MaybeObjects : Store(k, o) /\ UNCHANGED cache
    BY <1>3, OthersShape DEF CopyInv
  <2> QED
    BY <2>1, AnyStoreFollows
<1>4. CASE \E k \in Keys : Deliver(k)
  <2>1. PICK k \in Keys : NextVersion(k) /\ UNCHANGED domains
    BY <1>4 DEF Deliver
  <2> QED
    BY <2>1, DeliverFollows DEF CopyInv
<1>5. CASE Restart
  <2> SUFFICES ASSUME NEW k \in Keys, NEW i \in 0 .. Len(pending'[k])
               PROVE  Follows(Version(k, i)', domains'[k])
    BY DEF QuietFollows
  <2>1. pending'[k] = <<>> /\ cache'[k] = domains[k] /\ domains'[k] = domains[k]
    BY <1>5 DEF Restart
  <2>2. i = 0
    BY <2>1
  <2>3. Version(k, i)' = domains[k]
    BY <2>1, <2>2 DEF Version
  <2> QED
    BY <2>1, <2>3, FollowsOrder
<1>6. CASE \E k \in Keys : Dequeue(k)
  BY <1>1, <1>6 DEF Dequeue, storeVars
<1> QED
  BY <1>1, <1>2, <1>3, <1>4, <1>5, <1>6, Kinds

\* A reconcile that ends queues its key again, or there is nothing left to do.
LEMMA EndsDone ==
  ASSUME CopyInv, StatusInv, QuietFollows, DomainVerifyDuration > 0, Reconcile,
         NEW k \in Keys, k = key, key' # k
  PROVE  k \in delayed' \/ ~NeedsWork(k)' \/ EventComing(k)'
<1>1. domains \in [Keys -> MaybeObjects] /\ (Working => obj \in Objects)
  BY DEF Working, CopyInv, TypeInv, WorkerTypeOK, StoreTypeOK, MaybeObjects
<1>2. CASE ReturnError
  BY <1>2 DEF ReturnError
<1>3. CASE RequeueAfterVerify
  BY <1>3 DEF RequeueAfterVerify, ReturnError
<1>4. CASE Get /\ ~ReturnError
  <2>1. UNCHANGED <<domains, cache, pending>>
    BY <1>4 DEF Get, ReadStep, storeVars
  <2>2. SUFFICES ASSUME ~EventComing(k)' PROVE ~NeedsWork(k)'
    OBVIOUS
  <2>3. QuietFrom(k, 0)
    <3>1. ~EventComing(k)
      BY <2>1, <2>2 DEF EventComing
    <3> QED
      BY <1>1, <3>1, EventsComing DEF CopyInv
  <2>4. Follows(cache[k], domains[k])
    <3>1. 0 \in 0 .. Len(pending[k])
      BY <1>1 DEF CopyInv, TypeInv, StoreTypeOK
    <3> QED
      BY <1>1, <2>3, <3>1 DEF QuietFollows, Version
  <2>5. CASE cache[k] = Nil
    BY <2>1, <2>4, <2>5 DEF Follows, NeedsWork, Live
  <2>6. CASE /\ cache[k] # Nil
             /\ cache[k].deleting # ("domain" \in cache[k].finalizers)
             /\ cache[k].status.state \in Final
    <3>1. cache[k] \in Objects /\ domains[k] \in Objects
      BY <1>1, <2>4, <2>6 DEF CopyInv, TypeInv, StoreTypeOK, Follows
    <3>2. domains[k].deleting = cache[k].deleting /\ cache[k].deleting \in BOOLEAN
      BY <2>4, <2>6, <3>1 DEF Follows, Objects
    <3>3. domains[k].status.state \in Final
      BY <2>4, <2>6 DEF Follows
    <3>4. domains[k].deleting # ("domain" \in domains[k].finalizers)
      BY <2>4, <2>6, <3>2 DEF Follows
    <3>5. ~NeedsWork(k)
      <4>1. CASE domains[k].deleting
        BY <3>2, <3>4, <4>1 DEF NeedsWork, Live
      <4>2. CASE ~domains[k].deleting
        <5>1. "domain" \in domains[k].finalizers
          BY <3>2, <3>4, <4>2
        <5> QED
          BY <3>3, <4>2, <5>1 DEF NeedsWork, Live, Final
      <4> QED
        BY <4>1, <4>2
    <3> QED
      BY <2>1, <3>5 DEF NeedsWork, Live
  <2> QED
    BY <1>4, <2>5, <2>6, ProvisionStatus DEF Get, Call, Final
<1>5. CASE AddFinalizer /\ ~ReturnError
  <2> DEFINE o == WithFinalizer(obj, "domain")
  <2>1. Saved(o) /\ Provision(o, TRUE)
    BY <1>5 DEF AddFinalizer
  <2>2. ~obj.deleting /\ obj \in Objects
    BY <1>1, <1>5 DEF AddFinalizer, StatusInv, StepMark, Working
  <2>3. o \in Objects /\ ~o.deleting /\ "domain" \in o.finalizers
    BY <2>2, WithFinalizerTyped DEF Finalizers
  <2>4. domains'[k] = o
    BY <1>1, <2>1 DEF Saved, Store
  <2>5. o.status.state \in Final
    BY <2>1, ProvisionStatus DEF Final
  <2> HIDE DEF o
  <2> QED
    BY <2>3, <2>4, <2>5 DEF NeedsWork, Live, Final
<1>6. CASE (MarkExisting \/ SaveFailed \/ SaveNotFound) /\ ~ReturnError
  <2>1. Saved(obj) /\ pc \in {"markExisting", "saveFailed", "saveNotFound"}
    BY <1>6 DEF MarkExisting, SaveFailed, SaveNotFound
  <2>2. obj \in Objects /\ obj.status.state = "failed" /\ obj.deleting \in BOOLEAN
        /\ obj.deleting # ("domain" \in obj.finalizers)
    BY <1>1, <2>1
    DEF StatusInv, StepState, StepMark, Working, Objects, ProvisionSteps, Steps, DelSteps
  <2>3. domains'[k] = obj
    BY <1>1, <2>1 DEF Saved, Store
  <2>4. CASE obj.deleting
    BY <2>2, <2>3, <2>4 DEF NeedsWork, Live
  <2>5. CASE ~obj.deleting
    <3>1. "domain" \in obj.finalizers
      BY <2>2, <2>5
    <3> QED
      BY <2>2, <2>3, <2>5, <3>1 DEF NeedsWork, Live
  <2> QED
    BY <2>4, <2>5
<1>7. CASE RemoveFinalizer /\ ~ReturnError
  <2> DEFINE o == WithoutFinalizer(obj, "domain")
  <2>1. Saved(o) /\ pc = "removeFinalizer"
    BY <1>7 DEF RemoveFinalizer
  <2>2. obj \in Objects /\ obj.deleting
    BY <1>1, <2>1 DEF StatusInv, StepMark, Working, DelSteps
  <2>3. o = Nil \/ (o.deleting /\ "domain" \notin o.finalizers)
    BY <2>2, WithoutFinalizerTyped
  <2>4. domains'[k] = o
    BY <1>1, <2>1 DEF Saved, Store
  <2> HIDE DEF o
  <2> QED
    BY <2>3, <2>4 DEF NeedsWork, Live
<1>8. CASE SaveRecords \/ SaveEndpoint \/ SaveStatus \/ SaveDeleteFailed
  <2>1. CASE SaveRecords
    <3>1. WithState(obj, "created").status.state = "created"
      BY <1>1, <2>1, WithStateTyped DEF SaveRecords, Working, States
    <3> QED
      BY <2>1, <3>1, ProvisionStatus DEF SaveRecords, Call
  <2> QED
    BY <1>2, <1>3, <1>8, <2>1 DEF SaveEndpoint, SaveStatus, SaveDeleteFailed, Call
<1>9. CASE \/ Lookup \/ Create \/ Export \/ CreateEndpoint \/ Fetch \/ Verify \/ CheckMX
           \/ DelGetEndpoint \/ DelEndpoint \/ NoteEndpoint \/ DelLookup \/ DelDomain
  BY <1>2, <1>9
  DEF Lookup, Create, Export, CreateEndpoint, Fetch, Verify, CheckMX, DelGetEndpoint, DelEndpoint,
      NoteEndpoint, DelLookup, DelDomain, Call
<1> QED
  BY <1>2, <1>4, <1>5, <1>6, <1>7, <1>8, <1>9 DEF Reconcile

\* A key with work is queued, waits, is at work, or has an event coming.
Covered(k) == k \in queue \cup delayed \/ key = k \/ EventComing(k)

\* A worker step forgets no key.
LEMMA WorkerCovers ==
  ASSUME CopyInv, StatusInv, QuietFollows, NoLostWakeup, DomainVerifyDuration > 0, Reconcile,
         NEW k \in Keys, NeedsWork(k)'
  PROVE  Covered(k)'
<1>1. UNCHANGED queue /\ delayed \subseteq delayed' /\ UNCHANGED cache
  <2>1. UNCHANGED cache
    BY ReconcileShape DEF CopyInv
  <2>2. UNCHANGED queue
    BY DEF Reconcile, Get, AddFinalizer, Lookup, MarkExisting, Create, Export, SaveRecords,
           SaveFailed, CreateEndpoint, SaveEndpoint, Fetch, SaveNotFound, Verify, CheckMX,
           SaveStatus, DelGetEndpoint, DelEndpoint, NoteEndpoint, DelLookup, DelDomain,
           SaveDeleteFailed, RemoveFinalizer, ReadStep, StoreStep, MailgunStep
  <2>3. delayed' = delayed \/ delayed' = delayed \cup {key}
    BY DEF Reconcile, Get, AddFinalizer, Lookup, MarkExisting, Create, Export, SaveRecords,
           SaveFailed, CreateEndpoint, SaveEndpoint, Fetch, SaveNotFound, Verify, CheckMX,
           SaveStatus, DelGetEndpoint, DelEndpoint, NoteEndpoint, DelLookup, DelDomain,
           SaveDeleteFailed, RemoveFinalizer, Provision, Continue, Call, Return, ReturnError,
           RequeueAfterVerify
  <2> QED
    BY <2>1, <2>2, <2>3
<1>2. CASE k # key
  <2>1. domains'[k] = domains[k] /\ pending'[k] = pending[k]
    <3>1. CASE UNCHANGED <<domains, pending>>
      BY <3>1
    <3>2. CASE \E o \in MaybeObjects : Carried(o) /\ Store(key, o)
      <4>1. key \in Keys
        BY <3>2, CarriedTyped DEF CopyInv
      <4> QED
        BY <1>2, <3>2, <4>1 DEF Store, CopyInv, TypeInv, StoreTypeOK
    <3> QED
      BY <3>1, <3>2, WorkerWrites DEF CopyInv
  <2>2. NeedsWork(k)
    BY <2>1 DEF NeedsWork, Live
  <2>3. k \in queue \cup delayed \/ EventComing(k)
    BY <1>2, <2>2 DEF NoLostWakeup
  <2>4. EventComing(k) => EventComing(k)'
    BY <1>1, <2>1 DEF EventComing
  <2> QED
    BY <1>1, <2>3, <2>4 DEF Covered
<1>3. CASE k = key
  BY <1>3, EndsDone DEF Covered
<1> QED
  BY <1>2, <1>3

\* An event of another version is still coming after a store step, and so is
\* the new version's.
LEMMA StoreCovers ==
  ASSUME CopyInv, NEW j \in Keys, NEW o \in MaybeObjects, Store(j, o), UNCHANGED cache,
         NEW k \in Keys
  PROVE  /\ EventComing(k) => EventComing(k)'
         /\ k = j /\ PassesPredicate(domains[k], o) => EventComing(k)'
<1>1. /\ pending' = [pending EXCEPT ![j] = Append(pending[j], o)]
      /\ pending \in [Keys -> Seq(MaybeObjects)]
  BY DEF Store, CopyInv, TypeInv, StoreTypeOK, MaybeObjects
<1>2. CASE k # j
  BY <1>1, <1>2 DEF EventComing
<1>3. CASE k = j
  <2>1. PICK n \in Nat : n = Len(pending[k])
    BY <1>1
  <2>2. /\ Len(pending'[k]) = n + 1
        /\ \A i \in 1 .. n : pending'[k][i] = pending[k][i]
        /\ pending'[k][n + 1] = o
    BY <1>1, <1>3, <2>1
  <2>3. ASSUME EventComing(k) PROVE EventComing(k)'
    <3>1. PICK i \in 1 .. n :
            PassesPredicate(IF i = 1 THEN cache[k] ELSE pending[k][i - 1], pending[k][i])
      BY <2>1, <2>3 DEF EventComing
    <3>2. i \in 1 .. n + 1 /\ (i # 1 => i - 1 \in 1 .. n)
      OBVIOUS
    <3>3. PassesPredicate(IF i = 1 THEN cache'[k] ELSE pending'[k][i - 1], pending'[k][i])
      BY <2>2, <3>1, <3>2
    <3> QED
      BY <2>2, <3>2, <3>3 DEF EventComing, PassesPredicate
  <2>4. ASSUME PassesPredicate(domains[k], o) PROVE EventComing(k)'
    <3>1. (IF n + 1 = 1 THEN cache'[k] ELSE pending'[k][(n + 1) - 1]) = domains[k]
      <4>1. CASE n = 0
        <5>1. pending[k] = <<>>
          BY <1>1, <2>1, <4>1, EmptySeq
        <5> QED
          BY <4>1, <5>1 DEF CopyInv, Synced
      <4>2. CASE n # 0
        <5>1. pending[k] # <<>>
          BY <2>1, <4>2
        <5>2. n \in 1 .. n /\ (n + 1) - 1 = n /\ n + 1 # 1
          BY <4>2
        <5> QED
          BY <2>1, <2>2, <5>1, <5>2 DEF CopyInv, Synced
      <4> QED
        BY <4>1, <4>2
    <3>2. n + 1 \in 1 .. n + 1
      OBVIOUS
    <3> QED
      BY <2>2, <2>4, <3>1, <3>2 DEF EventComing, PassesPredicate
  <2> QED
    BY <1>3, <2>3, <2>4
<1> QED
  BY <1>2, <1>3

\* What others store is an event, or leaves as much work as there was.
LEMMA OthersCover ==
  ASSUME CopyInv, NoLostWakeup, NEW j \in Keys, OthersWrite(j), NEW k \in Keys, NeedsWork(k)'
  PROVE  Covered(k)'
<1>1. UNCHANGED <<cache, key, queue, delayed>>
  BY DEF OthersWrite
<1>2. domains \in [Keys -> MaybeObjects]
  BY DEF CopyInv, TypeInv, StoreTypeOK, MaybeObjects
<1>3. PICK o \in MaybeObjects : Store(j, o)
  BY OthersShape DEF CopyInv
<1>4. EventComing(k) => EventComing(k)'
  BY <1>1, <1>3, StoreCovers
<1>5. CASE NeedsWork(k)
  BY <1>1, <1>4, <1>5 DEF NoLostWakeup, Covered
<1>6. CASE ~NeedsWork(k)
  <2>1. k = j /\ domains'[k] = o
    BY <1>2, <1>3, <1>6 DEF Store, NeedsWork, Live
  <2>2. CASE PassesPredicate(domains[k], o)
    BY <1>1, <1>3, <2>1, <2>2, StoreCovers DEF Covered
  <2>3. CASE ~PassesPredicate(domains[k], o)
    <3>1. /\ domains[k] # Nil /\ o # Nil /\ o.deleting = domains[k].deleting
          /\ domains[k] \in Objects
      BY <1>2, <2>3 DEF PassesPredicate, MaybeObjects
    <3>2. o.status = domains[k].status
      BY <2>1, <3>1, OthersKeepStatus DEF CopyInv
    <3>3. "domain" \in o.finalizers <=> "domain" \in domains[k].finalizers
      <4>1. PICK p \in MaybeObjects :
              /\ Store(j, p)
              /\ \/ p = Nil /\ Gone(j)
                 \/ p \in Objects /\ (Created(j, p) \/ Edited(j, p) \/ Moved(j, p))
        BY OthersShape DEF CopyInv
      <4>2. p = o
        BY <1>2, <2>1, <4>1 DEF Store
      <4>3. "domain" \notin DeleteModes
        BY StoreAssumption
      <4> QED
        BY <2>1, <3>1, <4>1, <4>2, <4>3 DEF Created, Edited, Moved
    <3> QED
      BY <1>6, <2>1, <3>1, <3>2, <3>3 DEF NeedsWork, Live
  <2> QED
    BY <2>2, <2>3
<1> QED
  BY <1>5, <1>6

\* A delivery queues the key, or leaves the events that were coming.
LEMMA DeliverCovers ==
  ASSUME CopyInv, QuietFollows, NoLostWakeup, NEW j \in Keys, Deliver(j), NEW k \in Keys,
         NeedsWork(k)'
  PROVE  Covered(k)'
<1>1. /\ UNCHANGED <<domains, delayed, key>> /\ NextVersion(j)
      /\ queue' = IF PassesPredicate(cache[j], cache'[j]) THEN queue \cup {j} ELSE queue
  BY DEF Deliver, workerVars
<1>2. TypeInv /\ TypeInv'
  BY NextTyped DEF CopyInv, Next
<1>3. NeedsWork(k)
  BY <1>1 DEF NeedsWork, Live
<1>4. CASE EventComing(k) /\ k \notin queue'
  <2>1. ~QuietFrom(k, 0)
    BY <1>2, <1>4, EventsComing
  <2>2. ~QuietFrom(k, 0)'
    <3>1. CASE k # j
      <4>1. pending'[k] = pending[k] /\ cache'[k] = cache[k]
        BY <1>1, <1>2, <3>1 DEF NextVersion, TypeInv, StoreTypeOK
      <4> QED
        BY <2>1, <4>1 DEF QuietFrom, Version
    <3>2. CASE k = j
      <4>1. ~PassesPredicate(cache[k], cache'[k])
        BY <1>1, <1>4, <3>2
      <4>2. cache'[k] = pending[k][1] /\ Len(pending[k]) \in Nat
        BY <1>1, <1>2, <3>2 DEF NextVersion, TypeInv, StoreTypeOK
      <4>3. ~QuietFrom(k, 1)
        <5> SUFFICES ASSUME QuietFrom(k, 1) PROVE QuietFrom(k, 0)
          BY <2>1
        <5> SUFFICES ASSUME NEW m \in 1 .. Len(pending[k])
                     PROVE  ~PassesPredicate(Version(k, m - 1), Version(k, m))
          BY <4>2 DEF QuietFrom
        <5>1. CASE m = 1
          BY <4>1, <4>2, <5>1 DEF Version
        <5>2. CASE m # 1
          BY <4>2, <5>2 DEF QuietFrom
        <5> QED
          BY <5>1, <5>2
      <4> QED
        BY <1>1, <1>2, <3>2, <4>3, DeliverFollows
    <3> QED
      BY <3>1, <3>2
  <2>3. EventComing(k)'
    <3>1. (EventComing(k) <=> ~QuietFrom(k, 0))'
      BY <1>2, EventsComing, PTL
    <3> QED
      BY <2>2, <3>1
  <2> QED
    BY <2>3 DEF Covered
<1>5. CASE ~EventComing(k)
  BY <1>1, <1>3, <1>5 DEF NoLostWakeup, Covered
<1> QED
  BY <1>4, <1>5 DEF Covered

\* Between two reconciles the worker holds no key.
IdleKey == pc = "idle" => key = Nil

\* Every step keeps it so.
LEMMA NextIdleKey ==
  ASSUME IdleKey, [Next]_vars
  PROVE  IdleKey'
<1>1. CASE Get \/ AddFinalizer
  BY <1>1 DEF Get, AddFinalizer, Provision, Continue, Call, Return, ReturnError, Idle, IdleKey
<1>2. CASE \/ Lookup \/ MarkExisting \/ Create \/ Export \/ SaveRecords \/ SaveFailed
           \/ CreateEndpoint \/ SaveEndpoint \/ Fetch
  BY <1>2 DEF Lookup, MarkExisting, Create, Export, SaveRecords, SaveFailed, CreateEndpoint,
              SaveEndpoint, Fetch, Continue, Call, Return, ReturnError, Idle, IdleKey
<1>3. CASE SaveNotFound \/ Verify \/ CheckMX \/ SaveStatus
  BY <1>3 DEF SaveNotFound, Verify, CheckMX, SaveStatus, Call, Return, ReturnError,
              RequeueAfterVerify, Idle, IdleKey
<1>4. CASE \/ DelGetEndpoint \/ DelEndpoint \/ NoteEndpoint \/ DelLookup \/ DelDomain
           \/ SaveDeleteFailed \/ RemoveFinalizer
  BY <1>4 DEF DelGetEndpoint, DelEndpoint, NoteEndpoint, DelLookup, DelDomain,
              SaveDeleteFailed, RemoveFinalizer, Call, Return, ReturnError, Idle, IdleKey
<1>5. CASE Restart \/ \E k \in Keys : Dequeue(k)
  BY <1>5 DEF Restart, Dequeue, Idle, IdleKey
<1>6. CASE \/ \E k \in Keys : Deliver(k) \/ DeliverEndpoint(k) \/ TimerFires(k) \/ OthersWrite(k)
           \/ \E n \in Names : MailgunMoves(n)
           \/ UNCHANGED vars
  BY <1>6 DEF Deliver, DeliverEndpoint, TimerFires, OthersWrite, MailgunMoves, vars, workerVars,
              IdleKey
<1> QED
  BY <1>1, <1>2, <1>3, <1>4, <1>5, <1>6 DEF Next, Reconcile

\* The inductive form of NoLostWakeup.
WakeupInv == CopyInv /\ StatusInv /\ IdleKey /\ QuietFollows /\ NoLostWakeup

\* Initially nothing is stored or cached.
LEMMA InitWakeupInv == Init => WakeupInv
<1> SUFFICES ASSUME Init PROVE WakeupInv
  OBVIOUS
<1>1. CopyInv /\ IdleKey /\ NoLostWakeup
  BY InitCopyInv DEF Init, StoreInit, IdleKey, NoLostWakeup, NeedsWork, Live
<1>2. StatusInv
  BY DEF Init, StatusInv, StepState, StepMark, StoredState, CreatedSteps, DelSteps, ProvisionSteps
<1>3. ASSUME NEW k \in Keys, NEW i \in 0 .. Len(pending[k]) PROVE Follows(Version(k, i), domains[k])
  <2>1. pending[k] = <<>> /\ cache[k] = Nil /\ domains[k] = Nil
    BY DEF Init, StoreInit
  <2>2. i = 0
    BY <2>1
  <2> QED
    BY <2>1, <2>2 DEF Version, Follows
<1> QED
  BY <1>1, <1>2, <1>3 DEF WakeupInv, QuietFollows

\* Every step keeps it.
LEMMA NextWakeupInv ==
  ASSUME DomainVerifyDuration > 0, WakeupInv, [Next]_vars
  PROVE  WakeupInv'
<1>1. CopyInv' /\ StatusInv' /\ IdleKey' /\ QuietFollows'
  BY NextCopyInv, NextStatusInv, NextIdleKey, NextQuietFollows DEF WakeupInv
<1>2. ASSUME NEW k \in Keys, NeedsWork(k)' PROVE Covered(k)'
  <2>1. CASE Reconcile
    BY <1>2, <2>1, WorkerCovers DEF WakeupInv
  <2>2. CASE \E j \in Keys : OthersWrite(j)
    BY <1>2, <2>2, OthersCover DEF WakeupInv
  <2>3. CASE \E j \in Keys : Deliver(j)
    BY <1>2, <2>3, DeliverCovers DEF WakeupInv
  <2>4. CASE Restart
    BY <1>2, <2>4 DEF Restart, NeedsWork, Live, Covered
  <2>5. CASE UNCHANGED <<domains, cache, pending>>
    <3>1. NeedsWork(k) /\ (EventComing(k)' <=> EventComing(k))
      BY <1>2, <2>5 DEF NeedsWork, Live, EventComing
    <3>2. CASE \E j \in Keys : Dequeue(j) \/ TimerFires(j)
      <4>1. PICK j \in Keys : Dequeue(j) \/ TimerFires(j)
        BY <3>2
      <4>2. k \in queue \cup delayed \/ key = k \/ EventComing(k)
        BY <3>1 DEF WakeupInv, NoLostWakeup
      <4>3. CASE Dequeue(j)
        <5>1. /\ key = Nil /\ key' = j
              /\ queue' = queue \ {j} /\ delayed' = delayed
          BY <4>3 DEF Dequeue, WakeupInv, IdleKey
        <5> QED
          BY <3>1, <4>2, <5>1, ObjectsAssumption DEF Covered
      <4>4. CASE TimerFires(j)
        <5>1. /\ key' = key
              /\ queue' = queue \cup {j} /\ delayed' = delayed \ {j}
          BY <4>4 DEF TimerFires, workerVars
        <5> QED
          BY <3>1, <4>2, <5>1 DEF Covered
      <4> QED
        BY <4>1, <4>3, <4>4
    <3>3. CASE UNCHANGED <<queue, delayed, key>>
      BY <3>1, <3>3 DEF WakeupInv, NoLostWakeup, Covered
    <3>4. CASE Reconcile
      BY <2>1, <3>4
    <3>5. (\E j \in Keys : DeliverEndpoint(j)) \/ (\E n \in Names : MailgunMoves(n)) \/ UNCHANGED vars
            => UNCHANGED <<queue, delayed, key>>
      BY DEF DeliverEndpoint, MailgunMoves, vars, workerVars
    <3> QED
      BY <2>2, <2>3, <2>4, <3>2, <3>3, <3>4, <3>5 DEF Next
  <2>6. (\E j \in Keys : Dequeue(j) \/ TimerFires(j) \/ DeliverEndpoint(j))
          \/ (\E n \in Names : MailgunMoves(n)) \/ UNCHANGED vars
          => UNCHANGED <<domains, cache, pending>>
    BY DEF Dequeue, TimerFires, DeliverEndpoint, MailgunMoves, vars, storeVars
  <2> QED
    BY <2>1, <2>2, <2>3, <2>4, <2>5, <2>6 DEF Next
<1> QED
  BY <1>1, <1>2 DEF WakeupInv, NoLostWakeup, Covered

\* Reconcile is level triggered, but the predicate hides the status changes it
\* makes itself: whatever conflicts, errors, restarts and stale reads happen, a
\* Domain with work left is queued, waits for a timer, is being reconciled, or
\* has an event coming that queues it.
THEOREM WakeupsNotLost ==
  ASSUME DomainVerifyDuration > 0
  PROVE  Spec => []NoLostWakeup
<1>1. WakeupInv /\ [Next]_vars => WakeupInv'
  BY NextWakeupInv
<1>2. WakeupInv => NoLostWakeup
  BY DEF WakeupInv
<1> QED
  BY <1>1, <1>2, InitWakeupInv, PTL DEF Spec

-----------------------------------------------------------------------------
(* Domains nobody deletes. *)

\* What others leave alive is new, or as it was but for its spec.
LEMMA OthersKeepLive ==
  ASSUME TypeInv, NEW k \in Keys, OthersWrite(k), Live(k)'
  PROVE  \/ /\ domains[k] = Nil
            /\ domains'[k].uid = uids + 1
            /\ domains'[k].finalizers = {}
            /\ domains'[k].status.state = "" /\ ~domains'[k].status.dnsCreated
         \/ /\ Live(k)
            /\ domains'[k].uid = domains[k].uid
            /\ domains'[k].finalizers = domains[k].finalizers
            /\ domains'[k].status = domains[k].status
<1>1. domains \in [Keys -> MaybeObjects]
  BY DEF TypeInv, StoreTypeOK, MaybeObjects
<1>2. CASE UserCreate(k)
  <2>1. PICK s \in SpecsOf[k] : Store(k, NewObject(uids + 1, s))
    BY <1>2 DEF UserCreate
  <2>2. domains'[k] = NewObject(uids + 1, s) /\ domains[k] = Nil
    BY <1>1, <1>2, <2>1 DEF UserCreate, Store
  <2>3. /\ NewObject(uids + 1, s).uid = uids + 1
        /\ NewObject(uids + 1, s).finalizers = {}
        /\ NewObject(uids + 1, s).status.state = ""
        /\ NewObject(uids + 1, s).status.dnsCreated = FALSE
    BY DEF NewObject
  <2>4. domains'[k].uid = uids + 1 /\ domains'[k].finalizers = {}
    BY <2>2, <2>3
  <2>5. domains'[k].status.state = "" /\ domains'[k].status.dnsCreated = FALSE
    BY <2>2, <2>3
  <2> QED
    BY <2>2, <2>4, <2>5
<1>3. CASE UserEdit(k)
  <2>1. PICK t \in SpecsOf[k] : Store(k, [domains[k] EXCEPT !.spec = t])
    BY <1>3 DEF UserEdit
  <2>2. PICK d \in Objects : d = domains[k]
    BY <1>1, <1>3 DEF UserEdit, MaybeObjects
  <2>3. domains'[k] = [d EXCEPT !.spec = t]
    BY <1>1, <2>1, <2>2 DEF Store
  <2>4. /\ domains'[k].uid = d.uid /\ domains'[k].deleting = d.deleting
        /\ domains'[k].finalizers = d.finalizers /\ domains'[k].status = d.status
    BY <2>3 DEF Objects
  <2> QED
    BY <1>3, <2>2, <2>4 DEF Live, UserEdit
<1>4. CASE UserDelete(k)
  <2>1. PICK mode \in DeleteModes : Store(k, Deleted(domains[k], mode))
    BY <1>4 DEF UserDelete
  <2>2. domains[k] \in Objects /\ domains'[k] = Deleted(domains[k], mode)
    BY <1>1, <1>4, <2>1 DEF UserDelete, Store, MaybeObjects
  <2>3. domains'[k] = Nil \/ domains'[k].deleting
    BY <2>2, DeletedTyped
  <2> QED
    BY <2>3 DEF Live
<1>5. CASE GarbageCollect(k)
  <2>1. /\ domains[k] \in Objects /\ domains[k].deleting
        /\ domains'[k] = WithoutFinalizer(domains[k], "foreground")
    BY <1>1, <1>5 DEF GarbageCollect, Store, MaybeObjects
  <2>2. domains'[k] = Nil \/ domains'[k].deleting
    BY <2>1, WithoutFinalizerTyped
  <2> QED
    BY <2>2 DEF Live
<1> QED
  BY <1>2, <1>3, <1>4, <1>5 DEF OthersWrite

\* The object that was there before the worker's update, and what the update
\* makes of it.
LEMMA WorkerKeepsLive ==
  ASSUME CopyInv, StatusInv, fresh, NEW o, Carried(o), o # Nil, ~o.deleting
  PROVE  /\ Live(key)
         /\ pc \notin DelSteps
         /\ o.uid = domains[key].uid
         /\ o.spec = domains[key].spec
         /\ o.status = obj.status
         /\ o.finalizers = domains[key].finalizers \cup (IF pc = "addFinalizer" THEN {"domain"} ELSE {})
         /\ pc # "addFinalizer" => "domain" \in o.finalizers
<1>1. /\ key \in Keys /\ obj \in Objects
      /\ o.uid = obj.uid /\ o.spec = obj.spec /\ o.deleting = obj.deleting
      /\ o.status = obj.status
      /\ o.finalizers = CASE pc = "addFinalizer" -> obj.finalizers \cup {"domain"}
                          [] pc = "removeFinalizer" -> obj.finalizers \ {"domain"}
                          [] OTHER -> obj.finalizers
  BY CarriedTyped DEF CopyInv
<1>2. domains[key] # Nil /\ SameCore(obj, domains[key])
  BY DEF CopyInv, CopyOK
<1>3. pc \notin DelSteps
  BY <1>1 DEF StatusInv, StepMark
<1>4. ASSUME pc # "addFinalizer" PROVE "domain" \in obj.finalizers
  <2>1. pc \in ProvisionSteps
    BY <1>3, <1>4 DEF Carried, PlainSaves, ProvisionSteps, DelSteps, Steps
  <2>2. obj.deleting # ("domain" \in obj.finalizers)
    BY <2>1 DEF StatusInv, StepMark
  <2>3. ~obj.deleting /\ obj.deleting \in BOOLEAN
    BY <1>1 DEF Objects
  <2> QED
    BY <2>2, <2>3
<1> QED
  BY <1>1, <1>2, <1>3, <1>4 DEF SameCore, Live, DelSteps

\* How a Domain nobody deletes has come about.
LEMMA LiveStep ==
  ASSUME CopyInv, StatusInv, [Next]_vars, NEW k \in Keys, Live(k)'
  PROVE  \/ /\ domains[k] = Nil
            /\ domains'[k].uid = uids + 1
            /\ domains'[k].finalizers = {}
            /\ domains'[k].status.state = "" /\ ~domains'[k].status.dnsCreated
         \/ /\ Live(k)
            /\ domains'[k].uid = domains[k].uid
            /\ domains'[k].finalizers = domains[k].finalizers
            /\ domains'[k].status = domains[k].status
         \/ /\ Live(k)
            /\ domains'[k].uid = domains[k].uid
            /\ Reconcile /\ k = key /\ fresh /\ Carried(domains'[k]) /\ pc \notin DelSteps
            /\ domains'[k].spec = domains[k].spec
            /\ domains'[k].status = obj.status
            /\ domains'[k].finalizers =
                 domains[k].finalizers \cup (IF pc = "addFinalizer" THEN {"domain"} ELSE {})
            /\ pc # "addFinalizer" => "domain" \in domains'[k].finalizers
<1>1. CASE domains'[k] = domains[k]
  BY <1>1 DEF Live
<1>2. CASE OthersWrite(k)
  BY <1>2, OthersKeepLive DEF CopyInv
<1>3. CASE Reconcile /\ k = key /\ fresh /\ Carried(domains'[k])
  BY <1>3, WorkerKeepsLive DEF Live
<1> QED
  BY <1>1, <1>2, <1>3, DomainStep DEF CopyInv

-----------------------------------------------------------------------------
(* The DNSEndpoint a status speaks of. *)

\* Every object has a uid.
UidsPositive ==
  /\ \A k \in Keys, d \in Objects : d = domains[k] \/ d \in Versions(k) => d.uid # 0
  /\ Working => obj.uid # 0

\* An object nobody deletes gets its finalizer when the informer has seen all
\* of the key: no deleted predecessor is on its way any more.
AddCurrent == pc = "addFinalizer" /\ fresh => pending[key] = <<>>

VersionsLive ==
  \A k \in Keys : Live(k) /\ "domain" \in domains[k].finalizers =>
    \A d \in Objects : d \in Versions(k) => ~d.deleting

\* So a deletion works for an object that is deleted, or one that is gone and
\* replaced by one without the finalizer.
DelUnfinalized ==
  pc \in DelSteps /\ Live(key) => "domain" \notin domains[key].finalizers

\* An object that gets its finalizer saved is known to the informer, and the
\* deletions in memory are of objects it replaced.
SeenInv == CopyInv /\ StatusInv /\ AddCurrent /\ VersionsLive /\ DelUnfinalized

\* The flag is set after the finalizer, and after the DNSEndpoint is created.
FlagFinalized ==
  \A k \in Keys : Live(k) /\ domains[k].status.dnsCreated => "domain" \in domains[k].finalizers

EndpointMade == pc = "saveEndpoint" => endpoints[key] # 0

FlagCopied ==
  fresh /\ pc # "saveEndpoint" => obj.status.dnsCreated = domains[key].status.dnsCreated

\* The inductive form of DnsFlagHonest.
FlagInv ==
  SeenInv /\ UidsPositive /\ FlagFinalized /\ EndpointMade /\ FlagCopied /\ DnsFlagHonest

\* No uid is ever 0.
LEMMA UidsStayPositive ==
  ASSUME CopyInv, UidsPositive, [Next]_vars
  PROVE  UidsPositive'
<1>1. /\ domains \in [Keys -> MaybeObjects] /\ cache \in [Keys -> MaybeObjects]
      /\ uids \in Nat /\ (pc # "idle" => key \in Keys) /\ (Working => obj \in Objects)
  BY DEF CopyInv, TypeInv, StoreTypeOK, WorkerTypeOK, MaybeObjects, Working
<1>2. ASSUME NEW k \in Keys, domains'[k] \in Objects PROVE domains'[k].uid # 0
  <2>1. CASE domains'[k] = domains[k]
    BY <1>2, <2>1 DEF UidsPositive
  <2>2. CASE Reconcile /\ k = key /\ Carried(domains'[k])
    BY <1>2, <2>2, CarriedTyped, ObjectsAssumption DEF UidsPositive, CopyInv
  <2>3. CASE OthersWrite(k)
    <3>1. PICK o \in MaybeObjects :
            /\ Store(k, o)
            /\ \/ o = Nil /\ Gone(k)
               \/ o \in Objects /\ (Created(k, o) \/ Edited(k, o) \/ Moved(k, o))
      BY <2>3, OthersShape DEF CopyInv
    <3>2. domains'[k] = o
      BY <1>1, <3>1 DEF Store
    <3>3. o.uid = uids + 1 \/ (domains[k] \in Objects /\ o.uid = domains[k].uid)
      BY <1>1, <1>2, <3>1, <3>2, ObjectsAssumption DEF Created, Edited, Moved, MaybeObjects
    <3> QED
      BY <1>1, <3>2, <3>3 DEF UidsPositive
  <2> QED
    BY <2>1, <2>2, <2>3, DomainStep DEF CopyInv
<1>3. ASSUME NEW k \in Keys, NEW d \in Objects, d \in Versions(k)' PROVE d.uid # 0
  BY <1>2, <1>3, VersionsStep DEF UidsPositive, CopyInv
<1>4. Working' => obj'.uid # 0
  <2>1. CASE Reconcile
    <3>1. CASE Reading
      <4>1. key \in Keys /\ cache[key] \in Objects /\ cache[key] \in Versions(key)
        BY <1>1, <3>1 DEF Reading, MaybeObjects, Versions
      <4> QED
        BY <3>1, <4>1 DEF Reading, UidsPositive
    <3> QED
      BY <2>1, <3>1, ReconcileShape DEF CopyInv, Ending, GoingOn, Working, UidsPositive
  <2>2. CASE Restart \/ (\E j \in Keys : Dequeue(j))
    BY <2>2 DEF Restart, Dequeue, Idle, Working
  <2>3. CASE \/ \E j \in Keys : Deliver(j) \/ OthersWrite(j)
             \/ UNCHANGED <<domains, cache, pending, uids, workerVars>>
    <3>1. UNCHANGED <<pc, obj>>
      BY <2>3, OthersShape DEF Deliver, workerVars, CopyInv
    <3> QED
      BY <3>1 DEF Working, UidsPositive
  <2> QED
    BY <2>1, <2>2, <2>3, Kinds
<1> QED
  BY <1>2, <1>3, <1>4 DEF UidsPositive

\* The finalizer is put on a copy of the version the informer has last seen.
LEMMA AddCurrentStays ==
  ASSUME CopyInv, AddCurrent, [Next]_vars
  PROVE  AddCurrent'
<1> SUFFICES ASSUME pc' = "addFinalizer", fresh' PROVE pending'[key'] = <<>>
  BY DEF AddCurrent
<1>1. /\ pending \in [Keys -> Seq(MaybeObjects)]
      /\ pc # "idle" => key \in Keys
  BY DEF CopyInv, TypeInv, StoreTypeOK, WorkerTypeOK, MaybeObjects
<1>2. CASE Reconcile
  <2>1. Reading
    BY <1>2, ReconcileShape
    DEF CopyInv, Ending, GoingOn, Working, Reconcile, Get, AddFinalizer, Lookup, MarkExisting,
        Create, Export, SaveRecords, SaveFailed, CreateEndpoint, SaveEndpoint, Fetch,
        SaveNotFound, Verify, CheckMX, SaveStatus, DelGetEndpoint, DelEndpoint, NoteEndpoint,
        DelLookup, DelDomain, SaveDeleteFailed, RemoveFinalizer, Call, Return, ReturnError,
        RequeueAfterVerify, Idle, Provision, Continue
  <2> QED
    BY <2>1 DEF Reading
<1>3. CASE Restart \/ (\E j \in Keys : Dequeue(j))
  BY <1>3 DEF Restart, Dequeue, Idle
<1>4. CASE \E j \in Keys : Deliver(j)
  <2>1. PICK j \in Keys : Deliver(j)
    BY <1>4
  <2>2. /\ UNCHANGED workerVars
        /\ pending[j] # <<>>
        /\ pending' = [pending EXCEPT ![j] = Tail(pending[j])]
    BY <2>1 DEF Deliver, NextVersion
  <2> QED
    BY <1>1, <2>2 DEF AddCurrent, workerVars
<1>5. CASE \E j \in Keys : OthersWrite(j)
  <2>1. PICK j \in Keys : OthersWrite(j)
    BY <1>5
  <2>2. /\ UNCHANGED <<cache, pc, key, obj>>
        /\ fresh' = (fresh /\ key # j)
        /\ \E o : Store(j, o)
    BY <2>1, OthersShape DEF CopyInv
  <2> QED
    BY <1>1, <2>2 DEF AddCurrent, Store
<1>6. CASE UNCHANGED <<domains, cache, pending, uids, workerVars>>
  BY <1>6 DEF AddCurrent, workerVars
<1> QED
  BY <1>2, <1>3, <1>4, <1>5, <1>6, Kinds

\* A Domain that shows its finalizer to nobody's deletion had it before, or the
\* worker puts it on now.
LEMMA LiveFinalized ==
  ASSUME CopyInv, StatusInv, [Next]_vars, NEW k \in Keys, Live(k)',
         "domain" \in domains'[k].finalizers
  PROVE  /\ Live(k) /\ domains'[k].uid = domains[k].uid
         /\ \/ "domain" \in domains[k].finalizers
            \/ Reconcile /\ k = key /\ fresh /\ pc = "addFinalizer"
BY LiveStep

\* What the informer holds of it is no deleted object.
LEMMA VersionsStayLive ==
  ASSUME SeenInv, [Next]_vars
  PROVE  VersionsLive'
<1> SUFFICES ASSUME NEW k \in Keys, Live(k)', "domain" \in domains'[k].finalizers,
                    NEW d \in Objects, d \in Versions(k)'
             PROVE  ~d.deleting
  BY DEF VersionsLive
<1>1. CASE d = domains'[k]
  BY <1>1 DEF Live
<1>2. CASE d \in Versions(k) /\ "domain" \in domains[k].finalizers /\ Live(k)
  BY <1>2 DEF SeenInv, VersionsLive
<1>3. CASE d \in Versions(k) /\ k = key /\ fresh /\ pc = "addFinalizer" /\ Live(k)
  <2>1. pending[k] = <<>>
    BY <1>3 DEF SeenInv, AddCurrent
  <2>2. Versions(k) = {domains[k]}
    BY <2>1 DEF Versions, SeenInv, CopyInv, Synced
  <2> QED
    BY <1>3, <2>2 DEF Live
<1> QED
  BY <1>1, <1>2, <1>3, VersionsStep, LiveFinalized DEF SeenInv, CopyInv

\* A deletion that starts, or goes on, is not of a Domain that holds its
\* finalizer and that nobody deletes.
LEMMA DelStaysUnfinalized ==
  ASSUME SeenInv, [Next]_vars
  PROVE  DelUnfinalized'
<1> SUFFICES ASSUME pc' \in DelSteps, Live(key)', "domain" \in domains'[key'].finalizers
             PROVE  FALSE
  BY DEF DelUnfinalized
<1>1. key' \in Keys
  BY NextTyped DEF SeenInv, CopyInv, TypeInv, WorkerTypeOK, DelSteps
<1>2. PICK k \in Keys : k = key'
  BY <1>1
<1>3. Live(k)'
  BY <1>2 DEF Live
<1>4. /\ Live(k)
      /\ \/ "domain" \in domains[k].finalizers
         \/ Reconcile /\ k = key /\ fresh /\ pc = "addFinalizer"
  BY <1>2, <1>3, LiveFinalized DEF SeenInv
<1>5. CASE Reconcile
  <2>1. pc' \notin ProvisionSteps
    BY DEF ProvisionSteps
  <2>2. /\ key' = key
        /\ \/ pc = "get" /\ cache[key] # Nil /\ cache[key].deleting
           \/ pc \in DelSteps
    BY <1>5, <2>1, CallsShape DEF SeenInv, CopyInv
  <2>3. "domain" \in domains[k].finalizers
    BY <1>4, <2>2 DEF DelSteps
  <2>4. CASE cache[key] # Nil /\ cache[key].deleting
    <3>1. cache[k] \in Objects /\ cache[k] \in Versions(k)
      BY <1>2, <2>2, <2>4 DEF SeenInv, CopyInv, TypeInv, StoreTypeOK, Versions
    <3> QED
      BY <1>2, <1>4, <2>2, <2>3, <2>4, <3>1 DEF SeenInv, VersionsLive
  <2> QED
    BY <1>2, <1>4, <2>2, <2>3, <2>4 DEF SeenInv, DelUnfinalized
<1>6. CASE Restart \/ (\E j \in Keys : Dequeue(j))
  BY <1>6 DEF Restart, Dequeue, Idle, DelSteps
<1>7. CASE \/ \E j \in Keys : Deliver(j) \/ OthersWrite(j)
           \/ UNCHANGED <<domains, cache, pending, uids, workerVars>>
  <2>1. UNCHANGED <<pc, key>>
    BY <1>7, OthersShape DEF Deliver, workerVars, SeenInv, CopyInv
  <2> QED
    BY <1>2, <1>4, <2>1 DEF SeenInv, DelUnfinalized, DelSteps
<1> QED
  BY <1>5, <1>6, <1>7, Kinds

\* Every step keeps what is known of deletions.
LEMMA NextSeenInv ==
  ASSUME SeenInv, [Next]_vars
  PROVE  SeenInv'
BY NextCopyInv, NextStatusInv, AddCurrentStays, VersionsStayLive, DelStaysUnfinalized DEF SeenInv

\* The two calls that touch a DNSEndpoint.
LEMMA EndpointsShape ==
  ASSUME TypeInv, [Next]_vars
  PROVE  \/ UNCHANGED endpoints
         \/ /\ CreateEndpoint
            /\ endpoints' = [endpoints EXCEPT ![key] = obj.uid]
            /\ UNCHANGED domains
         \/ /\ DelEndpoint
            /\ endpoints' = [endpoints EXCEPT ![key] = 0]
            /\ UNCHANGED domains
<1>1. CASE CreateEndpoint
  BY <1>1 DEF CreateEndpoint
<1>2. CASE DelEndpoint
  BY <1>2 DEF DelEndpoint
<1>3. CASE Reconcile /\ ~CreateEndpoint /\ ~DelEndpoint
  BY <1>3
  DEF Reconcile, Get, AddFinalizer, Lookup, MarkExisting, Create, Export, SaveRecords, SaveFailed,
      SaveEndpoint, Fetch, SaveNotFound, Verify, CheckMX, SaveStatus, DelGetEndpoint,
      NoteEndpoint, DelLookup, DelDomain, SaveDeleteFailed, RemoveFinalizer, ReadStep, StoreStep,
      MailgunStep, storeVars
<1>4. CASE \/ Restart
           \/ \E k \in Keys : \/ Dequeue(k) \/ Deliver(k) \/ DeliverEndpoint(k)
                              \/ TimerFires(k) \/ OthersWrite(k)
           \/ \E n \in Names : MailgunMoves(n)
           \/ UNCHANGED vars
  BY <1>4 DEF Restart, Dequeue, Deliver, DeliverEndpoint, TimerFires, OthersWrite, MailgunMoves,
              vars, storeVars
<1> QED
  BY <1>1, <1>2, <1>3, <1>4 DEF Next

\* The flag comes after the finalizer.
LEMMA FlagStaysFinalized ==
  ASSUME FlagInv, [Next]_vars
  PROVE  FlagFinalized'
<1> SUFFICES ASSUME NEW k \in Keys, Live(k)', domains'[k].status.dnsCreated
             PROVE  "domain" \in domains'[k].finalizers
  BY DEF FlagFinalized
<1>1. CASE domains'[k].finalizers = domains[k].finalizers /\ Live(k)
           /\ domains'[k].status = domains[k].status
  BY <1>1 DEF FlagInv, FlagFinalized
<1>2. CASE pc = "addFinalizer"
           /\ domains'[k].finalizers =
                domains[k].finalizers \cup (IF pc = "addFinalizer" THEN {"domain"} ELSE {})
  BY <1>2
<1> QED
  BY <1>1, <1>2, LiveStep DEF FlagInv, SeenInv

\* The flag is set in memory once the DNSEndpoint is there, and only the
\* worker takes it away.
LEMMA EndpointStaysMade ==
  ASSUME FlagInv, [Next]_vars
  PROVE  EndpointMade'
<1> SUFFICES ASSUME pc' = "saveEndpoint" PROVE endpoints'[key'] # 0
  BY DEF EndpointMade
<1>1. /\ endpoints \in [Keys -> Nat] /\ (pc # "idle" => key \in Keys) /\ (Working => obj.uid # 0)
  BY DEF FlagInv, SeenInv, CopyInv, TypeInv, StoreTypeOK, WorkerTypeOK, UidsPositive
<1>2. CASE Reconcile
  <2>1. CreateEndpoint
    BY <1>2
    DEF Reconcile, Get, AddFinalizer, Lookup, MarkExisting, Create, Export, SaveRecords, SaveFailed,
        SaveEndpoint, Fetch, SaveNotFound, Verify, CheckMX, SaveStatus, DelGetEndpoint,
        DelEndpoint, NoteEndpoint, DelLookup, DelDomain, SaveDeleteFailed, RemoveFinalizer,
        Call, Return, ReturnError, RequeueAfterVerify, Idle, Provision, Continue
  <2>2. pc = "createEndpoint" /\ key' = key /\ endpoints' = [endpoints EXCEPT ![key] = obj.uid]
    BY <2>1 DEF CreateEndpoint, Call, ReturnError, Idle
  <2> QED
    BY <1>1, <2>2 DEF Working
<1>3. CASE Restart \/ (\E j \in Keys : Dequeue(j))
  BY <1>3 DEF Restart, Dequeue, Idle
<1>4. CASE \/ \E j \in Keys : Deliver(j) \/ OthersWrite(j)
           \/ UNCHANGED <<domains, cache, pending, uids, workerVars>>
  <2>1. UNCHANGED <<pc, key>>
    BY <1>4, OthersShape DEF Deliver, workerVars, FlagInv, SeenInv, CopyInv
  <2>2. UNCHANGED endpoints
    BY <2>1, EndpointsShape DEF CreateEndpoint, DelEndpoint, FlagInv, SeenInv, CopyInv
  <2> QED
    BY <2>1, <2>2 DEF FlagInv, EndpointMade
<1> QED
  BY <1>2, <1>3, <1>4, Kinds

\* The copy carries the flag that is stored, but while the flag is saved.
LEMMA FlagStaysCopied ==
  ASSUME FlagInv, [Next]_vars
  PROVE  FlagCopied'
<1> SUFFICES ASSUME fresh', pc' # "saveEndpoint"
             PROVE  obj'.status.dnsCreated = domains'[key'].status.dnsCreated
  BY DEF FlagCopied
<1>1. /\ domains \in [Keys -> MaybeObjects] /\ (pc # "idle" => key \in Keys)
      /\ Working => obj \in Objects
  BY DEF FlagInv, SeenInv, CopyInv, TypeInv, StoreTypeOK, WorkerTypeOK, MaybeObjects, Working
<1>2. \A s \in States : obj \in Objects =>
        /\ WithState(obj, s).status.dnsCreated = obj.status.dnsCreated
        /\ [WithState(obj, s) EXCEPT !.status.notManaged = TRUE].status.dnsCreated = obj.status.dnsCreated
  BY DEF WithState, Objects, Statuses
<1>3. CASE Get
  <2>1. Reading
    BY <1>3, ReconcileShape DEF Reconcile, Get, Ending, GoingOn, Working, FlagInv, SeenInv, CopyInv
  <2> QED
    BY <1>1, <2>1 DEF Reading, FlagInv, SeenInv, CopyInv, Synced
<1>4. CASE AddFinalizer
  <2> DEFINE o == WithFinalizer(obj, "domain")
  <2>1. pc = "addFinalizer" /\ Saved(o) /\ Provision(o, TRUE)
    BY <1>4 DEF AddFinalizer, ReturnError, Idle
  <2>2. domains'[key] = o /\ obj' = o /\ key' = key
    BY <1>1, <2>1, ProvisionShape DEF Saved, Store, Provision, Continue, Return, Idle, Call
  <2> QED
    BY <2>2
<1>5. CASE SaveEndpoint
  BY <1>1, <1>5 DEF SaveEndpoint, Saved, Store, Call, ReturnError, Idle
<1>6. CASE SaveRecords
  <2>1. pc = "saveRecords"
    BY <1>6 DEF SaveRecords
  <2>2. obj \in Objects /\ key \in Keys
    BY <1>1, <2>1 DEF Working
  <2>3. /\ key' = key /\ fresh
        /\ \E s \in States : obj' = WithState(obj, s)
        /\ domains' = domains \/ domains'[key] = obj
    BY <1>1, <1>6, <2>2
    DEF SaveRecords, Saved, SaveFails, Store, Continue, Call, Return, Idle, States
  <2>4. domains[key].status.dnsCreated = obj.status.dnsCreated
    BY <2>1, <2>3 DEF FlagInv, FlagCopied
  <2> QED
    BY <1>2, <2>2, <2>3, <2>4
<1>7. CASE \/ Lookup \/ Create \/ Export \/ CreateEndpoint \/ Fetch \/ Verify \/ CheckMX
           \/ DelGetEndpoint \/ DelEndpoint \/ NoteEndpoint \/ DelLookup \/ DelDomain
  <2>1. pc \notin {"idle", "get", "saveEndpoint"} /\ UNCHANGED domains
    BY <1>7 DEF Lookup, Create, Export, CreateEndpoint, Fetch, Verify, CheckMX, DelGetEndpoint,
                DelEndpoint, NoteEndpoint, DelLookup, DelDomain, ReadStep, MailgunStep, storeVars
  <2>2. obj \in Objects
    BY <1>1, <2>1 DEF Working
  <2>3. /\ key' = key /\ fresh
        /\ \/ obj' = obj
           \/ \E s \in States : obj' = WithState(obj, s)
           \/ obj' = [WithState(obj, "failed") EXCEPT !.status.notManaged = TRUE]
    BY <1>7 DEF Lookup, Create, Export, CreateEndpoint, Fetch, Verify, CheckMX, DelGetEndpoint,
                DelEndpoint, NoteEndpoint, DelLookup, DelDomain, Call, ReturnError, Idle, States
  <2>4. obj'.status.dnsCreated = obj.status.dnsCreated
    BY <1>2, <2>2, <2>3 DEF States
  <2> QED
    BY <2>1, <2>3, <2>4 DEF FlagInv, FlagCopied
<1>8. CASE \/ MarkExisting \/ SaveFailed \/ SaveNotFound \/ SaveStatus \/ SaveDeleteFailed
           \/ RemoveFinalizer
  BY <1>8 DEF MarkExisting, SaveFailed, SaveNotFound, SaveStatus, SaveDeleteFailed, RemoveFinalizer,
              Return, ReturnError, RequeueAfterVerify, Idle
<1>9. CASE Restart \/ (\E j \in Keys : Dequeue(j))
  <2>1. ~fresh'
    BY <1>9 DEF Restart, Dequeue, Idle, FlagInv, SeenInv, CopyInv, CopyOK, Working
  <2> QED
    BY <2>1
<1>10. CASE \E j \in Keys : OthersWrite(j)
  <2>1. PICK j \in Keys : OthersWrite(j)
    BY <1>10
  <2>2. UNCHANGED <<pc, key, obj>> /\ fresh /\ key # j /\ \E o : Store(j, o)
    BY <2>1, OthersShape DEF FlagInv, SeenInv, CopyInv
  <2>3. domains'[key] = domains[key]
    BY <1>1, <2>2 DEF Store, FlagInv, SeenInv, CopyInv, CopyOK, Working
  <2> QED
    BY <2>2, <2>3 DEF FlagInv, FlagCopied
<1>11. CASE \/ \E j \in Keys : Deliver(j)
            \/ UNCHANGED <<domains, cache, pending, uids, workerVars>>
  BY <1>11 DEF Deliver, workerVars, FlagInv, FlagCopied
<1> QED
  BY <1>3, <1>4, <1>5, <1>6, <1>7, <1>8, <1>9, <1>10, <1>11, Kinds DEF Reconcile

\* A Domain that says its DNSEndpoint is created has one.
LEMMA FlagStaysHonest ==
  ASSUME FlagInv, [Next]_vars
  PROVE  DnsFlagHonest'
<1> SUFFICES ASSUME NEW k \in Keys, Live(k)', domains'[k].status.dnsCreated
             PROVE  endpoints'[k] # 0
  BY DEF DnsFlagHonest
<1>1. /\ endpoints \in [Keys -> Nat] /\ (pc # "idle" => key \in Keys) /\ (Working => obj.uid # 0)
  BY DEF FlagInv, SeenInv, CopyInv, TypeInv, StoreTypeOK, WorkerTypeOK, UidsPositive
<1>2. endpoints[k] # 0
  <2>1. CASE Live(k) /\ domains'[k].status = domains[k].status
    BY <2>1 DEF FlagInv, DnsFlagHonest
  <2>2. CASE /\ Live(k) /\ k = key /\ fresh /\ domains'[k].status = obj.status
             /\ Carried(domains'[k])
    <3>1. CASE pc = "saveEndpoint"
      BY <2>2, <3>1 DEF FlagInv, EndpointMade
    <3>2. CASE pc # "saveEndpoint"
      BY <2>2, <3>2 DEF FlagInv, FlagCopied, DnsFlagHonest
    <3> QED
      BY <3>1, <3>2
  <2> QED
    BY <2>1, <2>2, LiveStep DEF FlagInv, SeenInv
<1>3. CASE CreateEndpoint /\ endpoints' = [endpoints EXCEPT ![key] = obj.uid]
  <2>1. pc = "createEndpoint"
    BY <1>3 DEF CreateEndpoint
  <2> QED
    BY <1>1, <1>2, <1>3, <2>1 DEF Working
<1>4. CASE DelEndpoint /\ endpoints' = [endpoints EXCEPT ![key] = 0] /\ UNCHANGED domains
  <2>1. "domain" \in domains[k].finalizers /\ Live(k)
    BY <1>4 DEF FlagInv, FlagFinalized, Live
  <2>2. k # key
    BY <1>4, <2>1 DEF DelEndpoint, FlagInv, SeenInv, DelUnfinalized, DelSteps
  <2> QED
    BY <1>1, <1>2, <1>4, <2>2
<1> QED
  BY <1>2, <1>3, <1>4, EndpointsShape DEF FlagInv, SeenInv, CopyInv

\* Initially nothing is stored.
LEMMA InitFlagInv == Init => FlagInv
<1> SUFFICES ASSUME Init PROVE FlagInv
  OBVIOUS
<1>1. CopyInv /\ StatusInv
  BY InitCopyInv
  DEF Init, StatusInv, StepState, StepMark, StoredState, CreatedSteps, DelSteps, ProvisionSteps
<1>2. ASSUME NEW k \in Keys PROVE domains[k] = Nil /\ Versions(k) = {Nil}
  <2>1. domains[k] = Nil /\ cache[k] = Nil /\ pending[k] = <<>>
    BY DEF Init, StoreInit
  <2>2. Len(pending[k]) = 0
    BY <2>1
  <2> QED
    BY <2>1, <2>2 DEF Versions
<1>3. pc = "idle" /\ ~fresh
  BY DEF Init
<1>4. AddCurrent /\ VersionsLive /\ DelUnfinalized
  BY <1>2, <1>3 DEF AddCurrent, VersionsLive, DelUnfinalized, Live, DelSteps
<1>5. UidsPositive /\ FlagFinalized /\ EndpointMade /\ FlagCopied /\ DnsFlagHonest
  BY <1>2, <1>3, ObjectsAssumption
  DEF UidsPositive, FlagFinalized, EndpointMade, FlagCopied, DnsFlagHonest, Live, Working
<1> QED
  BY <1>1, <1>4, <1>5 DEF FlagInv, SeenInv

\* Status.DnsEntrypointCreated is never set on a Domain whose DNSEndpoint does
\* not exist: the controller would not create it again.
THEOREM FlagIsHonest == Spec => []DnsFlagHonest
<1>1. FlagInv /\ [Next]_vars => FlagInv'
  BY NextSeenInv, UidsStayPositive, FlagStaysFinalized, EndpointStaysMade, FlagStaysCopied,
     FlagStaysHonest DEF FlagInv, SeenInv
<1>2. FlagInv => DnsFlagHonest
  BY DEF FlagInv
<1> QED
  BY <1>1, <1>2, InitFlagInv, PTL DEF Spec

-----------------------------------------------------------------------------
(* The Mailgun domain a status speaks of. *)

\* What LiveDomainNeverDeleted takes besides: nobody handles the names of the
\* operator by hand, and no two Domain objects share one.
Apart ==
  /\ Orderly
  /\ OutsideNames = {}
  /\ \A j, k \in Keys : \A s \in SpecsOf[j], t \in SpecsOf[k] : s.name = t.name => j = k

\* Every domain at Mailgun is registered for an object.
Owned == \A n \in Names : Registered(n) => mailgun[n].owner # 0

\* The inductive form of LiveDomainNeverDeleted.
LiveInv == OrphanInv /\ SeenInv /\ Owned

\* The two calls that change what is registered.
LEMMA RegistrationStep ==
  ASSUME TypeInv, OutsideNames = {}, [Next]_vars, NEW n \in Names, mailgun'[n] # mailgun[n]
  PROVE  \/ /\ Create /\ n = name /\ ~Registered(n)
            /\ mailgun'[n] = [owner |-> obj.uid, password |-> passwords + 1]
            /\ passwords' = passwords + 1
         \/ /\ DelDomain /\ n = name /\ Registered(n)
            /\ mailgun'[n] = Nil
            /\ UNCHANGED <<domains, outside>>
<1>1. mailgun \in [Names -> Registrations \cup {Nil}]
  BY DEF TypeInv, MailgunTypeOK
<1>2. CASE Create
  <2>1. /\ Register(name, obj.uid, passwords + 1)
        /\ passwords' = passwords + 1
    BY <1>2 DEF Create
  <2>2. ~Registered(name)
        /\ mailgun' = [mailgun EXCEPT ![name] = [owner |-> obj.uid, password |-> passwords + 1]]
    BY <2>1 DEF Register
  <2> QED
    BY <1>1, <1>2, <2>1, <2>2
<1>3. CASE DelDomain
  <2>1. Unregister(name) /\ UNCHANGED <<domains, outside>>
    BY <1>3 DEF DelDomain, MailgunStep, storeVars
  <2>2. Registered(name) /\ mailgun' = [mailgun EXCEPT ![name] = Nil]
    BY <2>1 DEF Unregister
  <2> QED
    BY <1>1, <1>3, <2>1, <2>2
<1>4. CASE Reconcile /\ ~Create /\ ~DelDomain
  BY <1>4
  DEF Reconcile, Get, AddFinalizer, Lookup, MarkExisting, Export, SaveRecords, SaveFailed,
      CreateEndpoint, SaveEndpoint, Fetch, SaveNotFound, Verify, CheckMX, SaveStatus,
      DelGetEndpoint, DelEndpoint, NoteEndpoint, DelLookup, SaveDeleteFailed, RemoveFinalizer,
      ReadStep, StoreStep, mailgunVars
<1>5. CASE \/ Restart
           \/ \E k \in Keys : \/ Dequeue(k) \/ Deliver(k) \/ DeliverEndpoint(k)
                              \/ TimerFires(k) \/ OthersWrite(k)
           \/ UNCHANGED vars
  BY <1>5
  DEF Restart, Dequeue, Deliver, DeliverEndpoint, TimerFires, OthersWrite, vars, mailgunVars
<1>6. CASE \E m \in Names : MailgunMoves(m)
  BY <1>6 DEF MailgunMoves, PublishDNS, PublishMX, OutsideCreate, OutsideDelete
<1> QED
  BY <1>2, <1>3, <1>4, <1>5, <1>6 DEF Next

\* Domains are registered for objects only.
LEMMA OwnedStays ==
  ASSUME OutsideNames = {}, TypeInv, KnownOK, Owned, [Next]_vars
  PROVE  Owned'
<1> SUFFICES ASSUME NEW n \in Names, Registered(n)' PROVE mailgun'[n].owner # 0
  BY DEF Owned
<1>1. CASE mailgun'[n] = mailgun[n]
  BY <1>1 DEF Owned, Registered
<1>2. CASE Create /\ mailgun'[n] = [owner |-> obj.uid, password |-> passwords + 1]
  <2>1. key \in Keys /\ obj \in Objects /\ Known(key, obj)
    BY <1>2, ObjectsAssumption DEF Create, Known, Working, TypeInv, WorkerTypeOK
  <2>2. obj.uid \in 1..uids
    BY <2>1 DEF KnownOK
  <2>3. obj.uid # 0
    BY <2>2, UidsGrow
  <2> QED
    BY <1>2, <2>3
<1>3. CASE mailgun'[n] = Nil
  BY <1>3 DEF Registered
<1> QED
  BY <1>1, <1>2, <1>3, RegistrationStep

\* A domain that deleteDomain takes away is of an object that is deleted.
LEMMA DeletedIsNotLive ==
  ASSUME Apart, LiveInv, DelDomain, Registered(name),
         NEW k \in Keys, Live(k), domains[k].spec.name = name
  PROVE  FALSE
<1>1. /\ key \in Keys /\ obj \in Objects /\ Working /\ name \in Names
      /\ domains \in [Keys -> MaybeObjects]
  BY DEF DelDomain, LiveInv, SeenInv, CopyInv, TypeInv, WorkerTypeOK, StoreTypeOK, Working,
         MaybeObjects, name, Objects, Specs
<1>2. obj.spec \in SpecsOf[key]
  BY <1>1, ObjectsAssumption DEF LiveInv, OrphanInv, KnownOK, Known, GoodObject
<1>3. domains[k].spec \in SpecsOf[k]
  BY <1>1 DEF LiveInv, OrphanInv, KnownOK, Known, GoodObject, Live, MaybeObjects
<1>4. k = key
  BY <1>1, <1>2, <1>3 DEF Apart, name
<1>5. mailgun[name].owner # 0
  BY <1>1 DEF LiveInv, Owned
<1>6. PICK j \in Keys : /\ domains[j] # Nil
                        /\ domains[j].uid = mailgun[name].owner
                        /\ "domain" \in domains[j].finalizers
  BY <1>1, <1>5 DEF LiveInv, OrphanInv, NoOrphanedDomain
<1>7. domains[j] \in Objects /\ Known(j, domains[j])
  BY <1>1, <1>6 DEF Known, MaybeObjects
<1>8. domains[j].spec.name = name /\ domains[j].spec \in SpecsOf[j]
  BY <1>1, <1>5, <1>6, <1>7 DEF LiveInv, OrphanInv, OwnersOK, KnownOK, GoodObject
<1>9. j = k
  BY <1>3, <1>8 DEF Apart
<1> QED
  BY <1>4, <1>6, <1>9 DEF LiveInv, SeenInv, DelUnfinalized, DelDomain, DelSteps

\* Every step keeps LiveInv.
LEMMA NextLiveInv ==
  ASSUME Apart, LiveInv, [Next]_vars
  PROVE  LiveInv'
BY NextOrphanInv, NextSeenInv, OwnedStays DEF Apart, LiveInv, OrphanInv, SeenInv, CopyInv

\* Initially nothing is stored or registered.
LEMMA InitLiveInv == Init => LiveInv
BY InitOrphanInv, InitFlagInv DEF LiveInv, FlagInv, Owned, Init, MailgunInit, Registered

\* deleteDomain works on a copy that may be old, of a key that may have been
\* created again: it never takes away the domain of an object nobody deletes.
THEOREM LiveDomainsSafe ==
  ASSUME Apart
  PROVE  Spec => LiveDomainNeverDeleted
<1> DEFINE Kept == \A n \in Names : Registered(n) /\ ~Registered(n)' =>
                     outside' # outside \/ ~\E k \in Keys : Live(k) /\ domains[k].spec.name = n
<1>1. LiveInv /\ [Next]_vars => [Kept]_vars
  <2> SUFFICES ASSUME LiveInv, [Next]_vars, NEW n \in Names, Registered(n), ~Registered(n)',
                      NEW k \in Keys, Live(k), domains[k].spec.name = n
               PROVE  FALSE
    OBVIOUS
  <2>1. mailgun'[n] = Nil /\ mailgun'[n] # mailgun[n]
    BY DEF Registered
  <2>2. DelDomain /\ n = name
    BY <2>1, RegistrationStep DEF Apart, LiveInv, SeenInv, CopyInv
  <2> QED
    BY <2>2, DeletedIsNotLive
<1>2. LiveInv /\ [Next]_vars => LiveInv'
  BY NextLiveInv
<1> QED
  BY <1>1, <1>2, InitLiveInv, PTL DEF Spec, LiveDomainNeverDeleted

-----------------------------------------------------------------------------
(* Credentials. *)

\* What UsableCredentials takes besides: an edit leaves the export alone.
ExportKept == \A k \in Keys : \A s, t \in SpecsOf[k] : s.export = t.export

Settled == Apart /\ ExportKept

\* A spec is served: its domain is registered, and the Secret it asks for, unless
\* it only asks for it since an edit, holds the password.
Served(k, spec) ==
  /\ Registered(spec.name)
  /\ ExportKept /\ spec.export = "named" => secrets[k] = mailgun[spec.name].password

VerifySteps == CreatedSteps \cup {"saveStatus"}

\* Who is served when the worker makes a call.
StepServed ==
  /\ pc = "export" => Registered(name) /\ mailgun[name].password = passwords
  /\ pc = "saveRecords" => Served(key, obj.spec)
  /\ fresh /\ pc \in VerifySteps => Served(key, obj.spec)

\* Who is served when nothing is done.
StoredServed ==
  \A k \in Keys : Live(k) /\ domains[k].status.state \in {"created", "activated"} =>
    Served(k, domains[k].spec)

\* The inductive form of UsableCredentials.
CredInv == LiveInv /\ StepServed /\ StoredServed

\* Whom a copy is served by depends on the key alone.
LEMMA SameServed ==
  ASSUME Apart, NEW k \in Keys, NEW s \in SpecsOf[k], NEW t \in SpecsOf[k]
  PROVE  s.name = t.name /\ (Served(k, s) => Served(k, t))
BY DEF Apart, Orderly, Served, ExportKept

\* The specs at hand are specs of their keys.
LEMMA SpecsKnown ==
  ASSUME LiveInv
  PROVE  /\ Working => key \in Keys /\ obj.spec \in SpecsOf[key]
         /\ \A k \in Keys : domains[k] # Nil => domains[k].spec \in SpecsOf[k]
         /\ \A k \in Keys : SpecsOf[k] \subseteq Specs
<1>1. /\ domains \in [Keys -> MaybeObjects]
      /\ Working => key \in Keys /\ obj \in Objects
  BY DEF LiveInv, SeenInv, CopyInv, TypeInv, StoreTypeOK, WorkerTypeOK, Working, MaybeObjects
<1>2. ASSUME Working PROVE obj.spec \in SpecsOf[key]
  BY <1>1, <1>2, ObjectsAssumption DEF LiveInv, OrphanInv, KnownOK, Known, GoodObject
<1>3. ASSUME NEW k \in Keys, domains[k] # Nil PROVE domains[k].spec \in SpecsOf[k]
  BY <1>1, <1>3 DEF LiveInv, OrphanInv, KnownOK, Known, GoodObject, MaybeObjects
<1> QED
  BY <1>1, <1>2, <1>3, StoreAssumption

\* Only the export writes a Secret.
LEMMA SecretsStep ==
  ASSUME TypeInv, [Next]_vars
  PROVE  \/ UNCHANGED secrets
         \/ /\ Export /\ UNCHANGED <<mailgun, passwords, domains>>
            /\ secrets' = [secrets EXCEPT ![key] = passwords]
<1>1. CASE Export
  BY <1>1 DEF Export, mailgunVars
<1>2. CASE Reconcile /\ ~Export
  BY <1>2
  DEF Reconcile, Get, AddFinalizer, Lookup, MarkExisting, Create, SaveRecords, SaveFailed,
      CreateEndpoint, SaveEndpoint, Fetch, SaveNotFound, Verify, CheckMX, SaveStatus,
      DelGetEndpoint, DelEndpoint, NoteEndpoint, DelLookup, DelDomain, SaveDeleteFailed,
      RemoveFinalizer, ReadStep, StoreStep, MailgunStep, storeVars
<1>3. CASE \/ Restart
           \/ \E k \in Keys : \/ Dequeue(k) \/ Deliver(k) \/ DeliverEndpoint(k)
                              \/ TimerFires(k) \/ OthersWrite(k)
           \/ \E n \in Names : MailgunMoves(n)
           \/ UNCHANGED vars
  BY <1>3 DEF Restart, Dequeue, Deliver, DeliverEndpoint, TimerFires, OthersWrite, MailgunMoves,
              vars, storeVars
<1> QED
  BY <1>1, <1>2, <1>3 DEF Next

\* A spec stays served until its domain is deleted.
LEMMA ServedStays ==
  ASSUME Apart, CredInv, [Next]_vars, NEW k \in Keys, NEW s \in SpecsOf[k], Served(k, s),
         ~(DelDomain /\ s.name = name)
  PROVE  Served(k, s)'
<1>1. /\ s.name \in Names /\ s \in Specs
      /\ secrets \in [Keys -> Nat]
  BY SpecsKnown DEF CredInv, LiveInv, SeenInv, CopyInv, TypeInv, StoreTypeOK, Specs
<1>2. mailgun'[s.name] = mailgun[s.name]
  BY <1>1, RegistrationStep DEF Apart, CredInv, LiveInv, SeenInv, CopyInv, Served
<1>3. CASE secrets' = secrets
  BY <1>2, <1>3 DEF Served, Registered
<1>4. CASE Export /\ secrets' = [secrets EXCEPT ![key] = passwords]
  <2>1. Working /\ pc = "export"
    BY <1>4 DEF Export, Working
  <2>2. key \in Keys /\ obj.spec \in SpecsOf[key]
    BY <2>1, SpecsKnown DEF CredInv
  <2>3. mailgun[name].password = passwords
    BY <2>1 DEF CredInv, StepServed
  <2>4. k = key => s.name = name
    BY <2>2, SameServed DEF name
  <2>5. secrets'[k] = IF k = key THEN passwords ELSE secrets[k]
    BY <1>1, <1>4, <2>2
  <2> QED
    BY <1>2, <2>3, <2>4, <2>5 DEF Served, Registered
<1> QED
  BY <1>3, <1>4, SecretsStep DEF CredInv, LiveInv, SeenInv, CopyInv

\* A Domain that is created or activated stays served.
LEMMA StoredStaysServed ==
  ASSUME Apart, CredInv, [Next]_vars
  PROVE  StoredServed'
<1> SUFFICES ASSUME NEW k \in Keys, Live(k)',
                    domains'[k].status.state \in {"created", "activated"}
             PROVE  Served(k, domains[k].spec)'
  BY DEF StoredServed
<1>1. CopyInv /\ StatusInv
  BY DEF CredInv, LiveInv, SeenInv
<1>2. Live(k)
  BY <1>1, LiveStep
<1>3. PICK s \in SpecsOf[k], t \in SpecsOf[k] : s = domains[k].spec /\ t = domains'[k].spec
  <2>1. LiveInv'
    BY NextLiveInv DEF CredInv
  <2>2. domains'[k] \in Objects /\ domains'[k] # Nil
    BY <2>1 DEF LiveInv, SeenInv, CopyInv, TypeInv, StoreTypeOK, Live
  <2>3. domains'[k].spec \in SpecsOf[k]
    BY <2>1, <2>2 DEF LiveInv, OrphanInv, KnownOK, Known, GoodObject
  <2> QED
    BY <1>2, <2>3, SpecsKnown DEF Live, CredInv
<1>4. ~(DelDomain /\ s.name = name /\ Registered(name))
  BY <1>2, <1>3, DeletedIsNotLive DEF CredInv
<1>5. Served(k, s)
  <2>1. CASE domains[k].status.state \in {"created", "activated"}
    BY <1>2, <1>3, <2>1 DEF CredInv, StoredServed
  <2>2. CASE /\ k = key /\ fresh /\ Carried(domains'[k]) /\ pc \notin DelSteps
             /\ domains'[k].spec = domains[k].spec
             /\ domains'[k].status = obj.status
    <3>1. CASE pc = "addFinalizer"
      <4>1. domains[k].status.state = obj.status.state
        BY <1>1, <2>2, <3>1 DEF StatusInv, StoredState
      <4> QED
        BY <2>1, <2>2, <4>1
    <3>2. CASE pc \in {"saveEndpoint", "saveStatus"}
      <4>1. Served(k, obj.spec)
        BY <2>2, <3>2 DEF CredInv, StepServed, VerifySteps, CreatedSteps
      <4>2. obj.spec = s
        BY <1>1, <1>3, <2>2 DEF CopyInv, CopyOK, SameCore
      <4> QED
        BY <4>1, <4>2
    <3>3. pc \notin {"markExisting", "saveRecords", "saveFailed", "saveNotFound", "saveDeleteFailed"}
      BY <1>1, <2>2 DEF StatusInv, StepState
    <3> QED
      BY <2>2, <3>1, <3>2, <3>3 DEF Carried, PlainSaves, DelSteps
  <2> QED
    BY <1>1, <2>1, <2>2, LiveStep
<1>6. Registered(s.name)
  BY <1>5 DEF Served
<1>7. Served(k, s)'
  BY <1>4, <1>5, <1>6, ServedStays
<1>8. Served(k, t)'
  BY <1>3, <1>7 DEF Apart, Orderly, ExportKept, Served
<1> QED
  BY <1>3, <1>8 DEF Served

\* How the worker gets to a verification.
LEMMA VerifyShape ==
  ASSUME TypeInv, Reconcile, pc' \in VerifySteps
  PROVE  \/ /\ pc = "get" /\ cache[key] # Nil
            /\ cache[key].status.state = "created"
            /\ cache[key].deleting # ("domain" \in cache[key].finalizers)
         \/ pc \in VerifySteps \cup {"saveRecords"}
         \/ pc = "addFinalizer" /\ obj.status.state = "created"
<1>1. CASE Get
  <2>1. cache[key] # Nil /\ Provision(cache[key], pending[key] = <<>>)
        /\ cache[key].deleting # ("domain" \in cache[key].finalizers)
    BY <1>1 DEF Get, Return, Idle, Call, VerifySteps, CreatedSteps
  <2>2. cache[key].status.state = "created"
    BY <2>1 DEF Provision, Continue, Return, Idle, Call, VerifySteps, CreatedSteps
  <2> QED
    BY <1>1, <2>1, <2>2 DEF Get
<1>2. CASE AddFinalizer
  <2>1. pc = "addFinalizer" /\ Provision(WithFinalizer(obj, "domain"), TRUE) /\ obj \in Objects
    BY <1>2 DEF AddFinalizer, ReturnError, Idle, VerifySteps, CreatedSteps, TypeInv, WorkerTypeOK
  <2>2. WithFinalizer(obj, "domain").status.state = "created"
    BY <2>1 DEF Provision, Continue, Return, Idle, Call, VerifySteps, CreatedSteps
  <2>3. WithFinalizer(obj, "domain").status = obj.status
    BY <2>1, WithFinalizerTyped DEF Finalizers
  <2> QED
    BY <2>1, <2>2, <2>3
<1>3. CASE SaveRecords \/ CreateEndpoint \/ SaveEndpoint \/ Fetch \/ Verify \/ CheckMX \/ SaveStatus
  BY <1>3 DEF SaveRecords, CreateEndpoint, SaveEndpoint, Fetch, Verify, CheckMX, SaveStatus,
              VerifySteps, CreatedSteps
<1>4. CASE \/ Lookup \/ MarkExisting \/ Create \/ Export \/ SaveFailed \/ SaveNotFound
           \/ DelGetEndpoint \/ DelEndpoint \/ NoteEndpoint \/ DelLookup \/ DelDomain
           \/ SaveDeleteFailed \/ RemoveFinalizer
  BY <1>4 DEF Lookup, MarkExisting, Create, Export, SaveFailed, SaveNotFound, DelGetEndpoint,
              DelEndpoint, NoteEndpoint, DelLookup, DelDomain, SaveDeleteFailed, RemoveFinalizer,
              Call, Return, ReturnError, Idle, VerifySteps, CreatedSteps
<1> QED
  BY <1>1, <1>2, <1>3, <1>4 DEF Reconcile

\* A verification that may be saved is of a Domain that is served.
LEMMA VerifyServed ==
  ASSUME Apart, CredInv, [Next]_vars, Reconcile, fresh', pc' \in VerifySteps
  PROVE  Served(key, obj.spec)'
<1>1. CopyInv /\ StatusInv /\ OrphanInv /\ TypeInv
  BY DEF CredInv, LiveInv, SeenInv, CopyInv
<1>2. (Reading \/ GoingOn) /\ pc # "idle" /\ key \in Keys
  BY <1>1, ReconcileShape DEF Ending, Reading, GoingOn, Working, VerifySteps, CreatedSteps,
                              TypeInv, WorkerTypeOK
<1>3. PICK k \in Keys : k = key
  BY <1>2
<1>4. domains[k] \in MaybeObjects /\ (domains[k] # Nil => domains[k].deleting \in BOOLEAN)
  BY DEF CredInv, LiveInv, SeenInv, CopyInv, TypeInv, StoreTypeOK, MaybeObjects, Objects
<1>5. ASSUME ~DelDomain, NEW s \in SpecsOf[k], Served(k, s), obj'.spec = s, key' = k
      PROVE  Served(key, obj.spec)'
  BY <1>5, ServedStays DEF Served
<1>6. CASE Reading
  <2>1. cache[k] # Nil /\ cache[k] = domains[k] /\ obj' = domains[k] /\ key' = k
    BY <1>1, <1>3, <1>6 DEF Reading, CopyInv, Synced
  <2>2. domains[k].status.state = "created"
        /\ domains[k].deleting # ("domain" \in domains[k].finalizers)
    BY <1>1, <1>3, <1>6, <2>1, VerifyShape DEF Reading, VerifySteps, CreatedSteps
  <2>3. GoodObject(k, domains[k])
    BY <1>1, <1>4, <2>1 DEF OrphanInv, KnownOK, Known, MaybeObjects
  <2>4. Live(k)
    BY <1>4, <2>1, <2>2, <2>3 DEF GoodObject, Live
  <2>5. Served(k, domains[k].spec) /\ domains[k].spec \in SpecsOf[k]
    BY <2>2, <2>3, <2>4 DEF CredInv, StoredServed, GoodObject
  <2>6. ~DelDomain
    BY <1>6 DEF Reading, DelDomain
  <2> QED
    BY <1>5, <2>1, <2>5, <2>6
<1>7. CASE GoingOn
  <2>1. fresh /\ Working /\ key' = k /\ obj'.spec = obj.spec
    BY <1>3, <1>7 DEF GoingOn
  <2>2. obj.spec \in SpecsOf[k]
    BY <1>3, <2>1, SpecsKnown DEF CredInv
  <2>3. CASE pc \in VerifySteps \cup {"saveRecords"}
    <3>1. Served(k, obj.spec)
      BY <1>3, <2>1, <2>3 DEF CredInv, StepServed
    <3>2. ~DelDomain
      BY <2>3 DEF DelDomain, VerifySteps, CreatedSteps
    <3> QED
      BY <1>5, <2>1, <2>2, <3>1, <3>2
  <2>4. CASE pc = "addFinalizer" /\ obj.status.state = "created"
    <3>1. domains[k].status.state = "created"
      BY <1>1, <1>3, <2>1, <2>4 DEF StatusInv, StoredState
    <3>2. domains[k] # Nil /\ SameCore(obj, domains[k])
      BY <1>1, <1>3, <2>1 DEF CopyInv, CopyOK
    <3>3. Live(k)
      BY <1>1, <2>4, <3>2 DEF StatusInv, StepMark, SameCore, Live
    <3>4. Served(k, obj.spec)
      BY <3>1, <3>2, <3>3 DEF CredInv, StoredServed, SameCore
    <3>5. ~DelDomain
      BY <2>4 DEF DelDomain
    <3> QED
      BY <1>5, <2>1, <2>2, <3>4, <3>5
  <2> QED
    BY <1>1, <2>1, <2>3, <2>4, VerifyShape DEF Working
<1> QED
  BY <1>2, <1>6, <1>7

\* A domain that has just been created has the last password, and the export
\* writes it.
LEMMA CreationServed ==
  ASSUME Apart, CredInv, [Next]_vars, Reconcile
  PROVE  /\ pc' = "export" => (Registered(name) /\ mailgun[name].password = passwords)'
         /\ pc' = "saveRecords" => Served(key, obj.spec)'
<1>1. TypeInv /\ mailgun \in [Names -> Registrations \cup {Nil}] /\ secrets \in [Keys -> Nat]
  BY DEF CredInv, LiveInv, SeenInv, CopyInv, TypeInv, MailgunTypeOK, StoreTypeOK
<1>2. CASE Create /\ pc' \in {"export", "saveRecords"}
  <2>1. /\ obj' = obj /\ key' = key /\ passwords' = passwords + 1
        /\ mailgun' = [mailgun EXCEPT ![name] = [owner |-> obj.uid, password |-> passwords + 1]]
        /\ pc' = "saveRecords" => obj.spec.export = "off"
    BY <1>2 DEF Create, Call, Register
  <2>2. name \in Names /\ obj \in Objects /\ passwords \in Nat
    BY <1>1, <1>2 DEF Create, name, TypeInv, WorkerTypeOK, MailgunTypeOK, Objects, Specs
  <2>3. mailgun'[name] = [owner |-> obj.uid, password |-> passwords + 1]
    BY <1>1, <2>1, <2>2
  <2>4. obj.uid \in Nat
    BY <2>2 DEF Objects
  <2>5. mailgun'[name] # Nil /\ mailgun'[name].password = passwords'
    BY <2>1, <2>2, <2>3, <2>4, ObjectsAssumption DEF Registrations
  <2> QED
    BY <2>1, <2>5 DEF Registered, Served, name
<1>3. CASE Export /\ pc' \in {"export", "saveRecords"}
  <2>1. /\ pc' = "saveRecords" /\ pc = "export"
        /\ obj' = obj /\ key' = key /\ UNCHANGED <<mailgun, passwords>>
        /\ secrets' = [secrets EXCEPT ![key] = passwords]
    BY <1>3 DEF Export, Call, ReturnError, Idle, mailgunVars
  <2>2. key \in Keys /\ Registered(name) /\ mailgun[name].password = passwords
    BY <1>1, <2>1 DEF TypeInv, WorkerTypeOK, CredInv, StepServed
  <2>3. secrets'[key] = passwords
    BY <1>1, <2>1, <2>2
  <2> QED
    BY <2>1, <2>2, <2>3 DEF Registered, Served, name
<1>4. Create \/ Export \/ pc' \notin {"export", "saveRecords"}
  BY DEF Reconcile, Get, AddFinalizer, Lookup, MarkExisting, SaveRecords, SaveFailed,
         CreateEndpoint, SaveEndpoint, Fetch, SaveNotFound, Verify, CheckMX, SaveStatus,
         DelGetEndpoint, DelEndpoint, NoteEndpoint, DelLookup, DelDomain, SaveDeleteFailed,
         RemoveFinalizer, Call, Return, ReturnError, RequeueAfterVerify, Idle, Provision, Continue
<1> QED
  BY <1>2, <1>3, <1>4

\* Whom the worker is about to serve stays served.
LEMMA StepStaysServed ==
  ASSUME Apart, CredInv, [Next]_vars
  PROVE  StepServed'
<1>1. CASE Reconcile
  BY <1>1, VerifyServed, CreationServed DEF StepServed
<1>2. CASE Restart \/ (\E j \in Keys : Dequeue(j))
  BY <1>2 DEF Restart, Dequeue, Idle, StepServed, VerifySteps, CreatedSteps
<1>3. CASE UNCHANGED <<pc, key, obj, passwords>> /\ ~Create /\ ~DelDomain /\ (fresh' => fresh)
  <2>1. ASSUME Working, Served(key, obj.spec) PROVE Served(key, obj.spec)'
    <3>1. key \in Keys /\ obj.spec \in SpecsOf[key]
      BY <2>1, SpecsKnown DEF CredInv
    <3>2. PICK k \in Keys : k = key
      BY <3>1
    <3>3. PICK s \in SpecsOf[k] : s = obj.spec
      BY <3>1, <3>2
    <3>4. Served(k, s)'
      BY <1>3, <2>1, <3>2, <3>3, ServedStays
    <3> QED
      BY <1>3, <3>2, <3>3, <3>4 DEF Served
  <2>2. ASSUME pc = "export" PROVE (Registered(name) /\ mailgun[name].password = passwords)'
    <3>1. name \in Names
      BY <2>2 DEF name, CredInv, LiveInv, SeenInv, CopyInv, TypeInv, WorkerTypeOK, Objects, Specs
    <3>2. mailgun'[name] = mailgun[name]
      BY <1>3, <3>1, RegistrationStep DEF Apart, CredInv, LiveInv, SeenInv, CopyInv
    <3>3. name' = name
      BY <1>3 DEF name
    <3> QED
      BY <1>3, <2>2, <3>2, <3>3 DEF CredInv, StepServed, Registered
  <2> QED
    BY <1>3, <2>1, <2>2 DEF CredInv, StepServed, Working, VerifySteps, CreatedSteps
<1>4. CASE \/ \E k \in Keys : Deliver(k) \/ DeliverEndpoint(k) \/ TimerFires(k) \/ OthersWrite(k)
           \/ \E n \in Names : MailgunMoves(n)
           \/ UNCHANGED vars
  <2>1. UNCHANGED <<pc, key, obj, passwords>>
    BY <1>4 DEF Deliver, DeliverEndpoint, TimerFires, OthersWrite, MailgunMoves, PublishDNS,
                PublishMX, OutsideCreate, OutsideDelete, vars, workerVars, mailgunVars
  <2>2. fresh' => fresh
    <3>1. CASE \E k \in Keys : OthersWrite(k)
      BY <3>1 DEF OthersWrite
    <3>2. CASE UNCHANGED fresh
      BY <3>2
    <3> QED
      BY <1>4, <3>1, <3>2 DEF Deliver, DeliverEndpoint, TimerFires, MailgunMoves, vars, workerVars
  <2>3. ~Create /\ ~DelDomain
    BY <2>1 DEF Create, DelDomain, Call
  <2> QED
    BY <1>3, <2>1, <2>2, <2>3
<1> QED
  BY <1>1, <1>2, <1>4 DEF Next

\* A Domain that reached created or activated has its domain at Mailgun, and the
\* Secret it asks for holds the password this domain was created with, whatever
\* calls fail and however often the object is made again.
THEOREM CredentialsUsable ==
  ASSUME Settled
  PROVE  Spec => []UsableCredentials
<1>1. Init => CredInv
  BY InitLiveInv DEF Init, StoreInit, CredInv, StepServed, StoredServed, Live, VerifySteps, CreatedSteps
<1>2. CredInv /\ [Next]_vars => CredInv'
  BY NextLiveInv, StepStaysServed, StoredStaysServed DEF CredInv, Settled
<1>3. CredInv => UsableCredentials
  BY DEF CredInv, StoredServed, Served, UsableCredentials, Settled
<1> QED
  BY <1>1, <1>2, <1>3, PTL DEF Spec
=============================================================================
