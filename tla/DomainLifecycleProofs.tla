----------------------- MODULE DomainLifecycleProofs -----------------------
(***************************************************************************)
(* The Domain controller implements the life cycle a user is promised, for *)
(* every value of the constants: no domain is registered for an object     *)
(* that is not there or already created, none is held when the object goes *)
(* away, and a status is reported only as the life cycle allows.           *)
(***************************************************************************)
EXTENDS DomainStatusProofs, DomainRefinement

-----------------------------------------------------------------------------
(* The order of the versions. *)

\* A version the worker may work on to create or verify the domain.
Provided(d) == d # Nil /\ ~d.deleting /\ "domain" \in d.finalizers

\* After a deleted version comes none that shows the finalizer and is not
\* deleted: a new object gets its finalizer only when the informer has seen it.
Ordered ==
  \A k \in Keys : \A i, j \in 0 .. Len(pending[k]) :
    i <= j /\ Version(k, i) # Nil /\ Version(k, i).deleting => ~Provided(Version(k, j))

\* So the informer shows a deletion nothing that is to be provisioned.
DelSeen == pc \in DelSteps => \A d \in Versions(key) : ~Provided(d)

\* The versions by their index.
LEMMA VersionsIndexed ==
  ASSUME TypeInv, NEW k \in Keys
  PROVE  Versions(k) = {Version(k, i) : i \in 0 .. Len(pending[k])}
<1>1. Len(pending[k]) \in Nat
  BY DEF TypeInv, StoreTypeOK
<1>2. 0 \in 0 .. Len(pending[k]) /\ Version(k, 0) = cache[k]
  BY <1>1 DEF Version
<1>3. \A i \in 1 .. Len(pending[k]) : i \in 0 .. Len(pending[k]) /\ Version(k, i) = pending[k][i]
  BY <1>1 DEF Version
<1>4. \A i \in 0 .. Len(pending[k]) : i = 0 \/ i \in 1 .. Len(pending[k])
  BY <1>1
<1> QED
  BY <1>2, <1>3, <1>4 DEF Versions

\* The last version is the stored one.
LEMMA LastVersion ==
  ASSUME TypeInv, Synced, NEW k \in Keys
  PROVE  Len(pending[k]) \in Nat /\ Version(k, Len(pending[k])) = domains[k]
<1>1. pending[k] \in Seq(MaybeObjects)
  BY DEF TypeInv, StoreTypeOK, MaybeObjects
<1>2. CASE pending[k] = <<>>
  <2>1. Len(pending[k]) = 0
    BY <1>2
  <2> QED
    BY <1>2, <2>1 DEF Version, Synced
<1>3. CASE pending[k] # <<>>
  <2>1. Len(pending[k]) \in Nat /\ Len(pending[k]) # 0
    BY <1>1, <1>3, EmptySeq
  <2> QED
    BY <1>3, <2>1 DEF Version, Synced
<1> QED
  BY <1>2, <1>3

\* A store step appends one version.
LEMMA VersionAppended ==
  ASSUME TypeInv, NEW k \in Keys, NEW o \in MaybeObjects, Store(k, o), UNCHANGED cache
  PROVE  /\ Len(pending[k]) \in Nat
         /\ Len(pending'[k]) = Len(pending[k]) + 1
         /\ \A i \in 0 .. Len(pending[k]) : Version(k, i)' = Version(k, i)
         /\ \A i : i = Len(pending[k]) + 1 => Version(k, i)' = o
         /\ \A j \in Keys \ {k} : /\ pending'[j] = pending[j]
                                  /\ \A i : Version(j, i)' = Version(j, i)
<1>1. /\ pending' = [pending EXCEPT ![k] = Append(pending[k], o)]
      /\ pending \in [Keys -> Seq(MaybeObjects)]
  BY DEF Store, TypeInv, StoreTypeOK, MaybeObjects
<1>2. PICK n \in Nat : n = Len(pending[k])
  BY <1>1
<1>3. /\ Len(pending'[k]) = n + 1
      /\ \A m \in 1 .. n : pending'[k][m] = pending[k][m]
      /\ pending'[k][n + 1] = o
  BY <1>1, <1>2
<1>4. \A i \in 0 .. n : Version(k, i)' = Version(k, i)
  BY <1>3 DEF Version
<1>5. \A i : i = n + 1 => Version(k, i)' = o
  BY <1>3 DEF Version
<1>6. ASSUME NEW j \in Keys \ {k}
      PROVE  pending'[j] = pending[j] /\ \A i : Version(j, i)' = Version(j, i)
  <2>1. pending'[j] = pending[j]
    BY <1>1
  <2> QED
    BY <2>1 DEF Version
<1> QED
  BY <1>2, <1>3, <1>4, <1>5, <1>6

\* A delivery moves every version one forward.
LEMMA VersionMoved ==
  ASSUME TypeInv, NEW k \in Keys, NextVersion(k)
  PROVE  /\ Len(pending[k]) \in Nat /\ Len(pending[k]) > 0
         /\ Len(pending'[k]) = Len(pending[k]) - 1
         /\ \A i \in 0 .. Len(pending[k]) - 1 : Version(k, i)' = Version(k, i + 1)
         /\ \A j \in Keys \ {k} : /\ pending'[j] = pending[j]
                                  /\ \A i : Version(j, i)' = Version(j, i)
<1>1. /\ pending[k] # <<>>
      /\ cache' = [cache EXCEPT ![k] = Head(pending[k])]
      /\ pending' = [pending EXCEPT ![k] = Tail(pending[k])]
      /\ cache \in [Keys -> MaybeObjects]
      /\ pending \in [Keys -> Seq(MaybeObjects)]
  BY DEF NextVersion, TypeInv, StoreTypeOK, MaybeObjects
<1>2. PICK n \in Nat : n = Len(pending[k])
  BY <1>1
<1>3. /\ n > 0
      /\ Len(pending'[k]) = n - 1
      /\ \A i \in 1 .. n - 1 : pending'[k][i] = pending[k][i + 1]
      /\ cache'[k] = pending[k][1]
  BY <1>1, <1>2
<1>4. ASSUME NEW i \in 0 .. n - 1 PROVE Version(k, i)' = Version(k, i + 1)
  <2>1. CASE i = 0
    BY <1>3, <2>1 DEF Version
  <2>2. CASE i # 0
    <3>1. i \in 1 .. n - 1 /\ i + 1 # 0
      BY <2>2
    <3> QED
      BY <1>3, <2>2, <3>1 DEF Version
  <2> QED
    BY <2>1, <2>2
<1>5. \A j \in Keys \ {k} : pending'[j] = pending[j] /\ cache'[j] = cache[j]
  BY <1>1
<1> QED
  BY <1>2, <1>3, <1>4, <1>5 DEF Version

\* What is stored is provided only after a version that was, or when the
\* informer has seen all there is of an object nobody deletes.
LEMMA ProvidedStep ==
  ASSUME SeenInv, [Next]_vars, NEW k \in Keys, domains'[k] # domains[k], Provided(domains'[k])
  PROVE  \/ Provided(domains[k])
         \/ pc = "addFinalizer" /\ pending[k] = <<>> /\ Live(k)
<1>1. Live(k)'
  BY DEF Provided, Live
<1>2. Live(k) /\ ("domain" \in domains[k].finalizers
                  \/ (Reconcile /\ k = key /\ fresh /\ pc = "addFinalizer"))
  BY <1>1, LiveFinalized DEF Provided, SeenInv
<1> QED
  BY <1>2 DEF Live, Provided, SeenInv, AddCurrent

\* A version that is stored next keeps the order.
LEMMA StoreOrdered ==
  ASSUME SeenInv, Ordered, [Next]_vars, NEW k \in Keys, NEW o \in MaybeObjects,
         Store(k, o), UNCHANGED cache
  PROVE  Ordered'
<1>1. TypeInv /\ Synced
  BY DEF SeenInv, CopyInv
<1> SUFFICES ASSUME NEW l \in Keys, NEW i \in 0 .. Len(pending'[l]), NEW j \in 0 .. Len(pending'[l]),
                    i <= j, Version(l, i)' # Nil, Version(l, i)'.deleting, Provided(Version(l, j)')
             PROVE  FALSE
  BY DEF Ordered, Provided
<1>2. CASE l # k
  <2>1. pending'[l] = pending[l] /\ Version(l, i)' = Version(l, i) /\ Version(l, j)' = Version(l, j)
    BY <1>1, <1>2, VersionAppended
  <2> QED
    BY <2>1 DEF Ordered
<1>3. CASE l = k
  <2>0. PICK n \in Nat : n = Len(pending[k])
    BY <1>1, VersionAppended
  <2>1. /\ Len(pending'[k]) = n + 1
        /\ \A m \in 0 .. n : Version(k, m)' = Version(k, m)
        /\ Version(k, n + 1)' = o
    <3>1. Len(pending'[k]) = Len(pending[k]) + 1
      BY <1>1, VersionAppended
    <3>2. \A m \in 0 .. Len(pending[k]) : Version(k, m)' = Version(k, m)
      BY <1>1, VersionAppended
    <3>3. \A m : m = Len(pending[k]) + 1 => Version(k, m)' = o
      BY <1>1, VersionAppended
    <3> QED
      BY <2>0, <3>1, <3>2, <3>3
  <2>2. CASE j \in 0 .. n
    <3>1. i \in 0 .. n
      BY <1>3, <2>1, <2>2
    <3> QED
      BY <1>3, <2>0, <2>1, <2>2, <3>1 DEF Ordered
  <2>3. CASE j = n + 1
    <3>1. Provided(o) /\ o = domains'[k]
      BY <1>1, <1>3, <2>1, <2>3 DEF Store, TypeInv, StoreTypeOK
    <3>2. i \in 0 .. n
      <4>1. i # n + 1
        BY <1>3, <2>1, <3>1 DEF Provided
      <4> QED
        BY <1>3, <2>1, <4>1
    <3>3. Version(k, n) = domains[k]
      BY <1>1, <2>0, LastVersion
    <3>4. ~Provided(domains[k])
      <4>1. n \in 0 .. n /\ i <= n
        BY <3>2
      <4> QED
        BY <1>3, <2>0, <2>1, <3>2, <3>3, <4>1 DEF Ordered
    <3>5. pending[k] = <<>> /\ Live(k)
      BY <3>1, <3>4, ProvidedStep
    <3>6. n = 0 /\ i = 0
      BY <2>0, <3>2, <3>5
    <3> QED
      BY <1>3, <2>1, <3>2, <3>3, <3>5, <3>6 DEF Live
  <2> QED
    BY <1>3, <2>1, <2>2, <2>3
<1> QED
  BY <1>2, <1>3

\* Every step keeps the order.
LEMMA NextOrdered ==
  ASSUME SeenInv, Ordered, [Next]_vars
  PROVE  Ordered'
<1>0. TypeInv
  BY DEF SeenInv, CopyInv
<1>1. ASSUME UNCHANGED <<cache, pending>> PROVE Ordered'
  <2>1. \A k \in Keys : \A i : Version(k, i)' = Version(k, i)
    BY <1>1 DEF Version
  <2> QED
    BY <1>1, <2>1 DEF Ordered, Provided
<1>2. CASE Reconcile
  <2>1. UNCHANGED cache
    BY <1>0, <1>2, ReconcileShape
  <2>2. CASE Working /\ \E o \in MaybeObjects : Store(key, o)
    <3>1. key \in Keys
      BY <1>0, <2>2 DEF Working, TypeInv, WorkerTypeOK
    <3> QED
      BY <2>1, <2>2, <3>1, StoreOrdered
  <2> QED
    BY <1>0, <1>1, <1>2, <2>1, <2>2, ReconcileShape DEF Ending, Reading, GoingOn, MaybeObjects
<1>3. CASE \E j \in Keys : OthersWrite(j)
  <2>1. PICK j \in Keys, o \in MaybeObjects : Store(j, o) /\ UNCHANGED cache
    BY <1>0, <1>3, OthersShape
  <2> QED
    BY <2>1, StoreOrdered
<1>4. CASE Restart
  <2>1. \A k \in Keys : Len(pending'[k]) = 0 /\ \A i \in 0 .. 0 : Version(k, i)' = cache'[k]
    BY <1>4 DEF Restart, Version
  <2> QED
    BY <2>1 DEF Ordered, Provided
<1>5. CASE \E j \in Keys : Deliver(j)
  <2>1. PICK k \in Keys : NextVersion(k)
    BY <1>5 DEF Deliver
  <2> SUFFICES ASSUME NEW l \in Keys, NEW i \in 0 .. Len(pending'[l]), NEW j \in 0 .. Len(pending'[l]),
                      i <= j, Version(l, i)' # Nil, Version(l, i)'.deleting
               PROVE  ~Provided(Version(l, j)')
    BY DEF Ordered, Provided
  <2>2. CASE l # k
    <3>1. pending'[l] = pending[l] /\ Version(l, i)' = Version(l, i) /\ Version(l, j)' = Version(l, j)
      BY <1>0, <2>1, <2>2, VersionMoved
    <3> QED
      BY <3>1 DEF Ordered
  <2>3. CASE l = k
    <3>0. PICK n \in Nat : n = Len(pending[k])
      BY <1>0, <2>1, VersionMoved
    <3>1. /\ Len(pending'[k]) = n - 1
          /\ \A m \in 0 .. n - 1 : Version(k, m)' = Version(k, m + 1)
      BY <1>0, <2>1, <3>0, VersionMoved
    <3>2. i \in 0 .. n - 1 /\ j \in 0 .. n - 1
      BY <2>3, <3>1
    <3>3. i + 1 \in 0 .. n /\ j + 1 \in 0 .. n /\ i + 1 <= j + 1
      BY <3>2
    <3> QED
      BY <2>3, <3>0, <3>1, <3>2, <3>3 DEF Ordered
  <2> QED
    BY <2>2, <2>3
<1>6. CASE (\E j \in Keys : Dequeue(j)) \/ UNCHANGED <<domains, cache, pending, uids, workerVars>>
  BY <1>1, <1>6 DEF Dequeue, storeVars
<1> QED
  BY <1>2, <1>3, <1>4, <1>5, <1>6, Kinds

\* The informer holds the stored version, or will.
LEMMA StoredIsVersion ==
  ASSUME TypeInv, Synced, NEW k \in Keys
  PROVE  domains[k] \in Versions(k)
<1>1. /\ Len(pending[k]) \in Nat /\ Version(k, Len(pending[k])) = domains[k]
      /\ Versions(k) = {Version(k, i) : i \in 0 .. Len(pending[k])}
  BY LastVersion, VersionsIndexed
<1>2. Len(pending[k]) \in 0 .. Len(pending[k])
  BY <1>1
<1> QED
  BY <1>1, <1>2

\* A deletion has nothing to be provisioned behind it.
LEMMA NextDelSeen ==
  ASSUME SeenInv, Ordered, DelSeen, [Next]_vars
  PROVE  DelSeen'
<1>0. TypeInv /\ Synced
  BY DEF SeenInv, CopyInv
<1> SUFFICES ASSUME pc' \in DelSteps, NEW d \in Versions(key)', Provided(d)
             PROVE  FALSE
  BY DEF DelSeen, Provided
<1>1. key' = key /\ key \in Keys /\ pc # "addFinalizer"
      /\ \/ pc = "get" /\ cache[key] # Nil /\ cache[key].deleting
         \/ pc \in DelSteps
  <2>1. CASE Reconcile
    <3>1. pc' \notin ProvisionSteps
      BY DEF ProvisionSteps
    <3> QED
      BY <1>0, <2>1, <3>1, CallsShape DEF DelSteps
  <2>2. CASE (\E j \in Keys : Dequeue(j)) \/ Restart
    BY <2>2 DEF Dequeue, Restart, Idle, DelSteps
  <2>3. CASE \/ \E j \in Keys : Deliver(j) \/ OthersWrite(j)
             \/ UNCHANGED <<domains, cache, pending, uids, workerVars>>
    <3>1. UNCHANGED <<pc, key>>
      BY <1>0, <2>3, OthersShape DEF Deliver, workerVars
    <3> QED
      BY <1>0, <3>1 DEF TypeInv, WorkerTypeOK, DelSteps
  <2> QED
    BY <2>1, <2>2, <2>3, Kinds
<1>2. PICK k \in Keys : k = key
  BY <1>1
<1>3. d \in Versions(k)' /\ key' = k
  BY <1>1, <1>2 DEF Versions
<1>4. PICK e \in Versions(k) : Provided(e)
  <2>1. CASE d = domains'[k] /\ domains'[k] = domains[k]
    BY <1>0, <2>1, StoredIsVersion
  <2>2. CASE d = domains'[k] /\ domains'[k] # domains[k]
    <3>1. Provided(domains[k])
      BY <1>1, <2>2, ProvidedStep
    <3> QED
      BY <1>0, <3>1, StoredIsVersion
  <2> QED
    BY <1>0, <1>3, <2>1, <2>2, VersionsStep
<1>5. CASE pc \in DelSteps
  BY <1>2, <1>4, <1>5 DEF DelSeen
<1>6. CASE cache[key] # Nil /\ cache[key].deleting
  <2>1. PICK i \in 0 .. Len(pending[k]) : e = Version(k, i)
    BY <1>0, <1>4, VersionsIndexed
  <2>2. 0 \in 0 .. Len(pending[k]) /\ 0 <= i /\ Version(k, 0) = cache[k]
    BY <2>1 DEF Version
  <2> QED
    BY <1>2, <1>4, <1>6, <2>1, <2>2 DEF Ordered
<1> QED
  BY <1>1, <1>5, <1>6

-----------------------------------------------------------------------------
(* What is held. *)

\* Something of the key is created or verified, or may be by the next reconcile.
Provisioned(k) ==
  \/ key = k /\ pc \in ProvisionSteps
  \/ \E d \in Versions(k) : Provided(d)

\* As long as that is so, an object that was created has its domain: nobody is
\* about to register another one for it.
StillHeld ==
  \A k \in Keys :
    /\ domains[k] # Nil
    /\ domains[k].status.state \in {"created", "activated"}
    /\ Provisioned(k)
    => Registered(domains[k].spec.name)

\* The invariant behind the life cycle.
LifeInv == CredInv /\ Ordered /\ DelSeen /\ StillHeld

\* The parts of the invariants that are used below.
LEMMA LifeParts ==
  ASSUME LifeInv
  PROVE  /\ LiveInv /\ OrphanInv /\ SeenInv /\ CopyInv /\ StatusInv /\ TypeInv /\ KnownOK
         /\ domains \in [Keys -> MaybeObjects] /\ cache \in [Keys -> MaybeObjects]
         /\ Working => key \in Keys /\ obj \in Objects
BY DEF LifeInv, CredInv, LiveInv, OrphanInv, SeenInv, CopyInv, TypeInv, StoreTypeOK, WorkerTypeOK,
       MaybeObjects, Working

\* An object that is deleted is provisioned only if it was before.
LEMMA ProvisionedStep ==
  ASSUME LifeInv, [Next]_vars, NEW k \in Keys, domains'[k] # Nil, domains'[k].deleting,
         Provisioned(k)'
  PROVE  Provisioned(k)
<1>0. /\ CopyInv /\ StatusInv /\ TypeInv /\ KnownOK /\ SeenInv
      /\ domains \in [Keys -> MaybeObjects] /\ cache \in [Keys -> MaybeObjects]
  BY LifeParts
<1>1. CASE \E d \in Versions(k)' : Provided(d)
  <2>1. PICK d \in Versions(k)' : Provided(d)
    BY <1>1
  <2>2. d # domains'[k]
    BY <2>1 DEF Provided
  <2>3. d \in Versions(k)
    BY <1>0, <2>1, <2>2, VersionsStep
  <2> QED
    BY <2>1, <2>3 DEF Provisioned
<1>2. CASE key' = k /\ pc' \in ProvisionSteps
  <2>1. CASE Reconcile
    <3>1. key = k
      BY <1>0, <1>2, <2>1, CallsShape
    <3>2. CASE pc \in ProvisionSteps
      BY <3>1, <3>2 DEF Provisioned
    <3>3. CASE /\ cache[key] # Nil
               /\ cache[key].deleting # ("domain" \in cache[key].finalizers)
      <4>1. cache[k] \in Objects /\ cache[k] \in Versions(k)
        BY <1>0, <3>1, <3>3 DEF MaybeObjects, Versions
      <4>2. GoodObject(k, cache[k]) /\ cache[k].deleting \in BOOLEAN
        BY <1>0, <3>1, <3>3, <4>1 DEF KnownOK, Known, Objects
      <4>3. Provided(cache[k])
        BY <3>1, <3>3, <4>2 DEF GoodObject, Provided
      <4> QED
        BY <4>1, <4>3 DEF Provisioned
    <3>4. CASE /\ pc = "addFinalizer" /\ obj \in Objects
               /\ Store(key, WithFinalizer(obj, "domain"))
      <4>1. WithFinalizer(obj, "domain").deleting = obj.deleting
        BY <3>4, WithFinalizerTyped DEF Finalizers
      <4>2. domains'[k] = WithFinalizer(obj, "domain")
        BY <1>0, <3>1, <3>4 DEF Store
      <4>3. ~obj.deleting
        BY <1>0, <3>4 DEF StatusInv, StepMark
      <4> QED
        BY <4>1, <4>2, <4>3
    <3> QED
      BY <1>0, <1>2, <2>1, <3>2, <3>3, <3>4, CallsShape DEF ProvisionSteps
  <2>2. CASE (\E j \in Keys : Dequeue(j)) \/ Restart
    BY <1>2, <2>2 DEF Dequeue, Restart, Idle, ProvisionSteps
  <2>3. CASE \/ \E j \in Keys : Deliver(j) \/ OthersWrite(j)
             \/ UNCHANGED <<domains, cache, pending, uids, workerVars>>
    <3>1. UNCHANGED <<pc, key>>
      BY <1>0, <2>3, OthersShape DEF Deliver, workerVars
    <3> QED
      BY <1>2, <3>1 DEF Provisioned
  <2> QED
    BY <2>1, <2>2, <2>3, Kinds
<1> QED
  BY <1>1, <1>2 DEF Provisioned

\* What the worker stores of a deleted object: the failure of its deletion, or
\* its end.
LEMMA DeletedCarried ==
  ASSUME LifeInv, fresh, NEW o, Carried(o), domains[key].deleting
  PROVE  \/ pc = "saveDeleteFailed" /\ o = obj /\ obj.status.state = "failed"
         \/ pc = "removeFinalizer" /\ o = Nil
<1>0. CopyInv /\ StatusInv /\ TypeInv /\ KnownOK
  BY LifeParts
<1>1. key \in Keys /\ obj \in Objects /\ Working
  BY <1>0, CarriedTyped
<1>2. obj.deleting
  BY <1>0, <1>1 DEF CopyInv, CopyOK, SameCore
<1>3. GoodObject(key, obj)
  BY <1>0, <1>1, ObjectsAssumption DEF KnownOK, Known
<1>4. "domain" \in obj.finalizers /\ obj.finalizers \subseteq {"domain"}
  BY <1>2, <1>3 DEF GoodObject
<1>5. pc \notin ProvisionSteps /\ pc # "addFinalizer"
  BY <1>0, <1>2, <1>4 DEF StatusInv, StepMark
<1>6. CASE pc \in PlainSaves /\ o = obj
  <2>1. pc = "saveDeleteFailed"
    BY <1>5, <1>6 DEF PlainSaves, ProvisionSteps, Steps, DelSteps
  <2> QED
    BY <1>0, <1>6, <2>1 DEF StatusInv, StepState
<1>7. CASE pc = "removeFinalizer" /\ o = WithoutFinalizer(obj, "domain")
  BY <1>2, <1>4, <1>7 DEF WithoutFinalizer
<1> QED
  BY <1>5, <1>6, <1>7 DEF Carried

\* A deleted object does not become created or activated any more.
LEMMA DeletedKeepsState ==
  ASSUME LifeInv, [Next]_vars, NEW k \in Keys, domains'[k] # Nil, domains'[k].deleting,
         domains'[k].status.state \in {"created", "activated"}
  PROVE  domains[k] # Nil /\ domains[k].status = domains'[k].status
<1>0. CopyInv /\ TypeInv /\ StatusInv
  BY LifeParts
<1>1. CASE domains'[k] = domains[k]
  BY <1>1
<1>2. CASE OthersWrite(k)
  <2>1. PICK o \in MaybeObjects :
          /\ Store(k, o)
          /\ \/ o = Nil /\ Gone(k)
             \/ o \in Objects /\ (Created(k, o) \/ Edited(k, o) \/ Moved(k, o))
    BY <1>0, <1>2, OthersShape
  <2>2. domains'[k] = o
    BY <2>1, LifeParts DEF Store
  <2>3. domains[k] # Nil
    BY <2>1, <2>2 DEF Created, Edited, Moved
  <2> QED
    BY <1>0, <1>2, <2>3, OthersKeepStatus
<1>3. CASE Reconcile /\ k = key /\ fresh /\ Carried(domains'[k])
  <2>1. domains'[k].deleting = obj.deleting
    BY <1>0, <1>3, CarriedTyped
  <2>2. domains[key].deleting
    BY <1>0, <1>3, <2>1, CarriedTyped DEF CopyInv, CopyOK, SameCore
  <2> QED
    BY <1>3, <2>2, DeletedCarried
<1> QED
  BY <1>0, <1>1, <1>2, <1>3, DomainStep

\* The invariant of the credentials, step by step.
LEMMA NextCredInv ==
  ASSUME Apart, CredInv, [Next]_vars
  PROVE  CredInv'
BY NextLiveInv, StepStaysServed, StoredStaysServed DEF CredInv

\* A domain a key may name is taken away by the deletion of that key only, when
\* nothing of it is provisioned.
LEMMA RegisteredStays ==
  ASSUME Apart, LifeInv, [Next]_vars, NEW k \in Keys, NEW s \in SpecsOf[k],
         Registered(s.name), Provisioned(k)
  PROVE  Registered(s.name)'
<1>0. LiveInv /\ TypeInv
  BY LifeParts
<1>1. s.name \in Names
  BY StoreAssumption DEF Specs
<1>2. SUFFICES ASSUME ~Registered(s.name)' PROVE FALSE
  OBVIOUS
<1>3. DelDomain /\ s.name = name
  BY <1>0, <1>1, <1>2, RegistrationStep DEF Apart, Registered
<1>4. pc = "delDomain" /\ key \in Keys /\ obj.spec \in SpecsOf[key]
  BY <1>0, <1>3, SpecsKnown DEF DelDomain, Working
<1>5. k = key
  BY <1>3, <1>4 DEF Apart, name
<1>6. ~Provisioned(k)
  BY <1>4, <1>5 DEF Provisioned, ProvisionSteps, DelSteps, LifeInv, DelSeen
<1> QED
  BY <1>6

\* What is provisioned keeps the domain it has got.
LEMMA NextStillHeld ==
  ASSUME Apart, LifeInv, [Next]_vars
  PROVE  StillHeld'
<1> SUFFICES ASSUME NEW k \in Keys, domains'[k] # Nil, Provisioned(k)',
                    domains'[k].status.state \in {"created", "activated"}
             PROVE  Registered(domains[k].spec.name)'
  BY DEF StillHeld
<1>0. CredInv'
  BY NextCredInv DEF LifeInv
<1>1. CASE ~domains'[k].deleting
  BY <1>0, <1>1 DEF CredInv, StoredServed, Live, Served
<1>2. CASE domains'[k].deleting
  <2>1. domains[k] # Nil /\ domains[k].status = domains'[k].status /\ Provisioned(k)
    BY <1>2, DeletedKeepsState, ProvisionedStep
  <2>2. Registered(domains[k].spec.name)
    BY <2>1 DEF LifeInv, StillHeld
  <2>3. domains[k].spec \in SpecsOf[k]
    BY <2>1, LifeParts, SpecsKnown
  <2>4. domains'[k].spec \in SpecsOf[k]
    <3>1. domains'[k] \in Objects
      BY <1>0 DEF CredInv, LiveInv, SeenInv, CopyInv, TypeInv, StoreTypeOK
    <3> QED
      BY <1>0, <3>1 DEF CredInv, LiveInv, OrphanInv, KnownOK, Known, GoodObject
  <2>5. domains'[k].spec.name = domains[k].spec.name
    BY <2>3, <2>4 DEF Apart, Orderly
  <2>6. PICK s \in SpecsOf[k] : s = domains[k].spec
    BY <2>3
  <2>7. Registered(s.name)'
    BY <2>1, <2>2, <2>6, RegisteredStays
  <2> QED
    BY <2>5, <2>6, <2>7 DEF Registered
<1> QED
  BY <1>1, <1>2

\* Every step keeps the invariant behind the life cycle.
LEMMA NextLifeInv ==
  ASSUME Apart, LifeInv, [Next]_vars
  PROVE  LifeInv'
<1>1. SeenInv
  BY LifeParts
<1> QED
  BY <1>1, NextCredInv, NextOrdered, NextDelSeen, NextStillHeld DEF LifeInv

\* Initially there is no object.
LEMMA InitLifeInv == Init => LifeInv
<1> SUFFICES ASSUME Init PROVE LifeInv
  OBVIOUS
<1>1. CredInv
  BY InitLiveInv
  DEF Init, StoreInit, CredInv, StepServed, StoredServed, Live, VerifySteps, CreatedSteps
<1>2. \A k \in Keys : Len(pending[k]) = 0 /\ Version(k, 0) = Nil
  BY DEF Init, StoreInit, Version
<1>3. Ordered
  BY <1>2 DEF Ordered
<1>4. DelSeen /\ StillHeld
  BY DEF Init, StoreInit, DelSeen, DelSteps, StillHeld
<1> QED
  BY <1>1, <1>3, <1>4 DEF LifeInv

-----------------------------------------------------------------------------
(* The steps of the life cycle. *)

\* Under a name of the key something is held when it is registered.
LEMMA HeldIsRegistered ==
  ASSUME Apart, LifeInv, NEW k \in Keys, NEW s \in SpecsOf[k]
  PROVE  HeldFor(k) <=> Registered(s.name)
<1>1. \A t \in SpecsOf[k] : t.name = s.name /\ t.name \in Names
  BY StoreAssumption DEF Apart, Orderly, Specs
<1>2. Registered(s.name) => mailgun[s.name].owner # 0
  BY <1>1, LifeParts DEF LiveInv, Owned
<1> QED
  BY <1>1, <1>2 DEF HeldFor

\* What is held for a key belongs to its object, which has the finalizer.
LEMMA HeldHasObject ==
  ASSUME Apart, LifeInv, NEW k \in Keys, HeldFor(k)
  PROVE  /\ domains[k] # Nil
         /\ "domain" \in domains[k].finalizers
         /\ Registered(domains[k].spec.name)
         /\ mailgun[domains[k].spec.name].owner = domains[k].uid
<1>1. PICK s \in SpecsOf[k] : Registered(s.name) /\ mailgun[s.name].owner # 0
  BY DEF HeldFor
<1>2. s.name \in Names
  BY StoreAssumption DEF Specs
<1>3. PICK j \in Keys : /\ domains[j] # Nil
                        /\ domains[j].uid = mailgun[s.name].owner
                        /\ "domain" \in domains[j].finalizers
  BY <1>1, <1>2, LifeParts DEF OrphanInv, NoOrphanedDomain
<1>4. domains[j] \in Objects /\ Known(j, domains[j])
  BY <1>3, LifeParts DEF MaybeObjects, Known
<1>5. domains[j].spec.name = s.name
  BY <1>1, <1>2, <1>3, <1>4, LifeParts DEF OrphanInv, OwnersOK
<1>6. domains[j].spec \in SpecsOf[j]
  BY <1>3, LifeParts, SpecsKnown
<1>7. j = k
  BY <1>5, <1>6 DEF Apart
<1> QED
  BY <1>1, <1>3, <1>5, <1>7

\* What is held changes with the registration and the deletion of the key at hand.
LEMMA HeldStep ==
  ASSUME Apart, LifeInv, [Next]_vars, NEW k \in Keys, ~(HeldFor(k)' <=> HeldFor(k))
  PROVE  /\ k = key /\ UNCHANGED domains
         /\ \/ Create /\ ~HeldFor(k) /\ HeldFor(k)'
            \/ DelDomain /\ HeldFor(k) /\ ~HeldFor(k)'
<1>1. PICK s \in SpecsOf[k] : mailgun'[s.name] # mailgun[s.name]
  BY DEF HeldFor, Registered
<1>2. s.name \in Names
  BY StoreAssumption DEF Specs
<1>3. \/ Create /\ s.name = name /\ ~Registered(s.name)
      \/ DelDomain /\ s.name = name /\ Registered(s.name)
  BY <1>1, <1>2, LifeParts, RegistrationStep DEF Apart
<1>4. Working /\ UNCHANGED domains
  BY <1>3 DEF Create, DelDomain, Working, MailgunStep, storeVars
<1>5. key \in Keys /\ obj.spec \in SpecsOf[key]
  BY <1>4, LifeParts, SpecsKnown
<1>6. k = key
  BY <1>3, <1>5 DEF Apart, name
<1> QED
  BY <1>3, <1>4, <1>6, HeldIsRegistered

\* A registration is one of an object that is there and not created.
LEMMA CreatePhase ==
  ASSUME Apart, LifeInv, Create, ~HeldFor(key)
  PROVE  key \in Keys /\ Phase(domains[key]) \in {"pending", "failed"}
<1>1. pc = "create" /\ pc \in ProvisionSteps /\ Working
  BY DEF Create, ProvisionSteps, Steps, DelSteps, Working
<1>2. key \in Keys /\ domains[key] # Nil
  BY <1>1, LifeParts DEF OrphanInv, ProvisionOK
<1>3. domains[key] \in Objects /\ domains[key].spec \in SpecsOf[key]
  BY <1>2, LifeParts, SpecsKnown DEF MaybeObjects
<1>4. ~Registered(domains[key].spec.name)
  BY <1>2, <1>3, HeldIsRegistered
<1>5. domains[key].status.state \notin {"created", "activated"}
  BY <1>1, <1>2, <1>4 DEF LifeInv, StillHeld, Provisioned
<1>6. domains[key].status.state \in States
  BY <1>3 DEF Objects, Statuses
<1> QED
  BY <1>2, <1>5, <1>6 DEF Phase, States

\* What deleteDomain takes away is the domain of an object that is deleted.
LEMMA ReleaseTerminating ==
  ASSUME Apart, LifeInv, DelDomain, HeldFor(key)
  PROVE  key \in Keys /\ domains[key] # Nil /\ domains[key].deleting
<1>1. key \in Keys /\ obj.spec \in SpecsOf[key]
  BY LifeParts, SpecsKnown DEF DelDomain, Working
<1>2. domains[key] # Nil /\ Registered(domains[key].spec.name)
  BY <1>1, HeldHasObject
<1>3. domains[key].spec.name = name
  BY <1>1, <1>2, LifeParts, SpecsKnown DEF Apart, Orderly, name
<1>4. ~Live(key)
  BY <1>1, <1>2, <1>3, LifeParts, DeletedIsNotLive
<1> QED
  BY <1>1, <1>2, <1>4 DEF Live

\* How the stored object of a key may change, in the words of the life cycle.
Appears(k) == domains[k] = Nil /\ domains'[k] # Nil /\ Phase(domains'[k]) = "pending"
                               /\ ~domains'[k].deleting

Vanishes(k) == domains[k] # Nil /\ domains'[k] = Nil /\ ~HeldFor(k)

Stays(k) == domains[k] # Nil /\ domains'[k] # Nil

Terminates(k) == /\ Stays(k) /\ Phase(domains'[k]) = Phase(domains[k])
                 /\ domains'[k].deleting

Keeps(k) == /\ Stays(k) /\ Phase(domains'[k]) = Phase(domains[k])
            /\ domains'[k].deleting = domains[k].deleting

Advances(k) ==
  /\ Stays(k) /\ domains'[k].deleting = domains[k].deleting
  /\ \/ Phase(domains[k]) = "pending" /\ Phase(domains'[k]) = "failed"
     \/ /\ Phase(domains[k]) \in {"pending", "created"} /\ HeldFor(k)
        /\ Phase(domains'[k]) \in {"created", "activated", "failed"}

Fails(k) ==
  /\ Stays(k) /\ domains'[k].deleting = domains[k].deleting
  /\ domains[k].deleting /\ Phase(domains'[k]) = "failed"

\* What users do to an object.
LEMMA OthersChange ==
  ASSUME Apart, LifeInv, NEW k \in Keys, OthersWrite(k)
  PROVE  Appears(k) \/ Vanishes(k) \/ Terminates(k) \/ Keeps(k)
<1>0. TypeInv
  BY LifeParts
<1>1. PICK o \in MaybeObjects :
        /\ Store(k, o)
        /\ \/ o = Nil /\ Gone(k)
           \/ o \in Objects /\ (Created(k, o) \/ Edited(k, o) \/ Moved(k, o))
  BY <1>0, OthersShape
<1>2. domains'[k] = o
  BY <1>1, LifeParts DEF Store
<1>3. o \in Objects => o # Nil
  BY ObjectsAssumption
<1>4. CASE o = Nil /\ Gone(k)
  BY <1>2, <1>4, HeldHasObject DEF Vanishes, Gone
<1>5. CASE o \in Objects /\ Created(k, o)
  <2>1. o.status.state = ""
    BY <1>0, <1>2, <1>3, <1>5, OthersKeepLive DEF Live, Created
  <2> QED
    BY <1>2, <1>3, <1>5, <2>1 DEF Appears, Created, Phase
<1>6. CASE o \in Objects /\ (Edited(k, o) \/ Moved(k, o))
  <2>1. domains[k] # Nil /\ domains'[k] # Nil
    BY <1>2, <1>3, <1>6 DEF Edited, Moved
  <2>2. domains'[k].status = domains[k].status
    BY <1>0, <2>1, OthersKeepStatus
  <2> QED
    BY <1>2, <1>6, <2>1, <2>2 DEF Edited, Moved, Keeps, Terminates, Stays, Phase
<1> QED
  BY <1>1, <1>4, <1>5, <1>6

\* What the worker does to it.
LEMMA WorkerChange ==
  ASSUME Apart, LifeInv, fresh, NEW o, Carried(o), domains'[key] = o
  PROVE  Vanishes(key) \/ Keeps(key) \/ Advances(key) \/ Fails(key)
<1>0. CopyInv /\ StatusInv /\ TypeInv /\ KnownOK /\ OrphanInv
  BY LifeParts
<1>1. key \in Keys /\ obj \in Objects /\ Working
  BY <1>0, CarriedTyped
<1>2. domains[key] # Nil /\ SameCore(obj, domains[key]) /\ domains[key] \in Objects
  BY <1>0, <1>1, LifeParts DEF CopyInv, CopyOK, MaybeObjects
<1>3. CASE domains[key].deleting
  <2>1. CASE pc = "saveDeleteFailed" /\ o = obj /\ obj.status.state = "failed"
    BY <1>1, <1>2, <1>3, <2>1, ObjectsAssumption DEF Fails, Stays, Phase, SameCore
  <2>2. CASE pc = "removeFinalizer" /\ o = Nil
    <3>1. domains[key].spec \in SpecsOf[key] /\ domains[key].spec.name \in Names
      BY <1>1, <1>2, LifeParts, SpecsKnown DEF Objects, Specs
    <3>2. ~HeldFor(key)
      BY <1>0, <1>1, <1>2, <2>2, <3>1, HeldHasObject DEF OrphanInv, ReleasedOK, SameCore
    <3> QED
      BY <1>2, <2>2, <3>2 DEF Vanishes
  <2> QED
    BY <1>1, <1>3, <2>1, <2>2, DeletedCarried
<1>4. CASE ~domains[key].deleting
  <2>1. /\ pc \notin DelSteps /\ o \in Objects /\ o # Nil
        /\ o.deleting = obj.deleting /\ o.status = obj.status
    <3>1. ~obj.deleting
      BY <1>2, <1>4 DEF SameCore
    <3>2. pc \notin DelSteps
      BY <1>0, <3>1 DEF StatusInv, StepMark
    <3> QED
      BY <1>0, <3>2, CarriedTyped, ObjectsAssumption DEF DelSteps
  <2>2. Stays(key) /\ domains'[key].deleting = domains[key].deleting
        /\ domains'[key].status.state = obj.status.state
    BY <1>2, <2>1 DEF Stays, SameCore
  <2>3. Live(key)
    BY <1>2, <1>4 DEF Live
  <2>4. CASE obj.status.state = domains[key].status.state
    BY <2>2, <2>4 DEF Keeps, Phase, Stays
  <2>5. CASE domains[key].status.state = "" /\ obj.status.state = "failed"
    BY <2>2, <2>5 DEF Advances, Phase, Stays
  <2>6. ASSUME domains[key].status.state = "created" PROVE HeldFor(key)
    BY <1>1, <1>2, <2>3, <2>6, HeldIsRegistered, LifeParts, SpecsKnown
    DEF LifeInv, CredInv, StoredServed, Served
  <2>7. ASSUME pc \in VerifySteps PROVE HeldFor(key)
    <3>1. Registered(obj.spec.name) /\ obj.spec \in SpecsOf[key]
      BY <1>1, <2>7, LifeParts, SpecsKnown DEF LifeInv, CredInv, StepServed, Served
    <3> QED
      BY <1>1, <3>1, HeldIsRegistered
  <2>8. CASE pc \in PlainSaves
    <3>1. \/ obj.status.state = domains[key].status.state
          \/ domains[key].status.state = "" /\ obj.status.state = "failed"
          \/ domains[key].status.state = "created" /\ obj.status.state = "failed"
          \/ /\ pc \in VerifySteps /\ domains[key].status.state \in {"", "created"}
             /\ obj.status.state \in {"created", "activated"}
      BY <1>0, <1>1, <2>1, <2>8
      DEF StatusInv, StepState, StoredState, PlainSaves, CreatedSteps, VerifySteps, DelSteps
    <3> QED
      BY <2>2, <2>4, <2>5, <2>6, <2>7, <3>1 DEF Advances, Phase, Stays
  <2>9. CASE pc = "addFinalizer"
    <3>1. obj.status.state = domains[key].status.state
      BY <1>0, <1>1, <2>9 DEF StatusInv, StoredState
    <3> QED
      BY <2>4, <3>1
  <2> QED
    BY <2>1, <2>8, <2>9 DEF Carried, DelSteps
<1> QED
  BY <1>3, <1>4

\* The variables of the life cycle, one key at a time.
PhaseMap == [k \in Keys |-> Phase(domains[k])]
TerminatingMap == [k \in Keys |-> domains[k] # Nil /\ domains[k].deleting]
HeldMap == [k \in Keys |-> HeldFor(k)]

\* Something is held or is not.
LEMMA HeldBoolean ==
  ASSUME NEW k \in Keys
  PROVE  HeldFor(k) \in BOOLEAN /\ HeldFor(k)' \in BOOLEAN
BY Zenon DEF HeldFor

\* What is held for the other keys stays as it is.
LEMMA OthersHeld ==
  ASSUME Apart, LifeInv, [Next]_vars, NEW k \in Keys, k # key
  PROVE  HeldFor(k)' = HeldFor(k)
<1>1. HeldFor(k)' <=> HeldFor(k)
  BY HeldStep
<1> QED
  BY <1>1, HeldBoolean

\* A step that registers is Register of the life cycle.
LEMMA IsRegister ==
  ASSUME Apart, LifeInv, [Next]_vars, NEW k \in Keys, k = key, UNCHANGED domains,
         Create, ~HeldFor(k), HeldFor(k)'
  PROVE  Lifecycle!Register(k)
<1>1. Phase(domains[k]) \in {"pending", "failed"}
  BY CreatePhase
<1>2. \A j \in Keys \ {k} : HeldFor(j)' = HeldFor(j)
  BY OthersHeld
<1>3. HeldMap' = [HeldMap EXCEPT ![k] = TRUE]
  BY <1>2 DEF HeldMap
<1>4. UNCHANGED <<PhaseMap, TerminatingMap>>
  BY DEF PhaseMap, TerminatingMap
<1> QED
  BY <1>1, <1>3, <1>4 DEF Lifecycle!Register, PhaseMap, TerminatingMap, HeldMap

\* A step that takes a domain away is Release of the life cycle.
LEMMA IsRelease ==
  ASSUME Apart, LifeInv, [Next]_vars, NEW k \in Keys, k = key, UNCHANGED domains,
         DelDomain, HeldFor(k), ~HeldFor(k)'
  PROVE  Lifecycle!Release(k)
<1>1. domains[k] # Nil /\ domains[k].deleting
  BY ReleaseTerminating
<1>2. \A j \in Keys \ {k} : HeldFor(j)' = HeldFor(j)
  BY OthersHeld
<1>3. HeldMap' = [HeldMap EXCEPT ![k] = FALSE]
  <2>1. HeldFor(k)' = FALSE
    BY HeldBoolean
  <2> QED
    BY <1>2, <2>1 DEF HeldMap
<1>4. UNCHANGED <<PhaseMap, TerminatingMap>>
  BY DEF PhaseMap, TerminatingMap
<1> QED
  BY <1>1, <1>3, <1>4 DEF Lifecycle!Release, PhaseMap, TerminatingMap, HeldMap

\* A step that stores is a step of the life cycle, or none.
LEMMA IsStored ==
  ASSUME Apart, LifeInv, [Next]_vars, NEW k \in Keys, domains'[k] # domains[k]
  PROVE  Lifecycle!Next \/ UNCHANGED <<PhaseMap, TerminatingMap, HeldMap>>
<1>0. TypeInv
  BY LifeParts
<1>1. /\ Appears(k) \/ Vanishes(k) \/ Terminates(k) \/ Keeps(k) \/ Advances(k) \/ Fails(k)
      /\ \A j \in Keys \ {k} : domains'[j] = domains[j]
  <2>1. CASE OthersWrite(k)
    <3>1. \E o : domains' = [domains EXCEPT ![k] = o]
      BY <1>0, <2>1, OthersShape DEF Store
    <3> QED
      BY <2>1, <3>1, LifeParts, OthersChange
  <2>2. CASE Reconcile /\ k = key /\ fresh /\ Carried(domains'[k])
    <3>1. \E o : domains' = [domains EXCEPT ![k] = o]
      BY <1>0, <2>2, WorkerWrites DEF Store
    <3> QED
      BY <2>2, <3>1, LifeParts, WorkerChange
  <2> QED
    BY <1>0, <2>1, <2>2, DomainStep
<1>2. UNCHANGED HeldMap
  <2>1. ASSUME NEW j \in Keys PROVE HeldFor(j)' = HeldFor(j)
    <3>1. HeldFor(j)' <=> HeldFor(j)
      BY HeldStep
    <3> QED
      BY <3>1, HeldBoolean
  <2> QED
    BY <2>1 DEF HeldMap
<1>3. PhaseMap' = [PhaseMap EXCEPT ![k] = Phase(domains'[k])]
  <2>1. ASSUME NEW j \in Keys
        PROVE  Phase(domains'[j]) = IF j = k THEN Phase(domains'[k]) ELSE Phase(domains[j])
    BY <1>1
  <2> QED
    BY <2>1 DEF PhaseMap
<1>4. PhaseMap[k] = Phase(domains[k]) /\ (HeldMap[k] <=> HeldFor(k))
  BY DEF PhaseMap, HeldMap
<1>5. ASSUME Phase(domains'[k]) = Phase(domains[k]) PROVE UNCHANGED PhaseMap
  BY <1>1, <1>5 DEF PhaseMap
<1>6. ASSUME domains[k] # Nil, domains'[k] # Nil, domains'[k].deleting = domains[k].deleting
      PROVE  UNCHANGED TerminatingMap
  BY <1>1, <1>6 DEF TerminatingMap
<1>7. CASE Keeps(k)
  BY <1>2, <1>5, <1>6, <1>7 DEF Keeps, Stays
<1>8. CASE Appears(k)
  <2>1. Phase(domains[k]) = "absent" /\ Phase(domains'[k]) = "pending"
    BY <1>8 DEF Appears, Phase
  <2>2. UNCHANGED TerminatingMap
    BY <1>1, <1>8 DEF Appears, TerminatingMap
  <2>3. Lifecycle!Appear(k)
    BY <1>2, <1>3, <2>1, <2>2 DEF Lifecycle!Appear, PhaseMap, TerminatingMap, HeldMap
  <2> QED
    BY <2>3 DEF Lifecycle!Next
<1>9. CASE Vanishes(k)
  <2>0. Phase(domains[k]) # "absent"
    BY <1>9, LifeParts DEF Vanishes, Phase, MaybeObjects, Objects, Statuses, States
  <2>1. Phase(domains'[k]) = "absent"
    BY <1>9 DEF Vanishes, Phase
  <2>2. TerminatingMap' = [TerminatingMap EXCEPT ![k] = FALSE]
    <3>1. (domains'[k] # Nil /\ domains'[k].deleting) = FALSE
      BY <1>9 DEF Vanishes
    <3>2. ASSUME NEW j \in Keys
          PROVE  (domains'[j] # Nil /\ domains'[j].deleting)
                   = IF j = k THEN FALSE ELSE domains[j] # Nil /\ domains[j].deleting
      BY <1>1, <3>1
    <3> QED
      BY <3>2 DEF TerminatingMap
  <2>3. Lifecycle!Vanish(k)
    BY <1>2, <1>3, <1>4, <1>9, <2>0, <2>1, <2>2
    DEF Lifecycle!Vanish, Vanishes, PhaseMap, TerminatingMap, HeldMap
  <2> QED
    BY <2>3 DEF Lifecycle!Next
<1>10. CASE Terminates(k)
  <2>1. Phase(domains[k]) # "absent" /\ UNCHANGED PhaseMap
    BY <1>5, <1>10, LifeParts
    DEF Terminates, Stays, Phase, MaybeObjects, Objects, Statuses, States
  <2>2. TerminatingMap' = [TerminatingMap EXCEPT ![k] = TRUE]
    BY <1>1, <1>10, LifeParts DEF TerminatingMap, Terminates, Stays, MaybeObjects, Objects
  <2>3. Lifecycle!Terminate(k)
    BY <1>2, <2>1, <2>2 DEF Lifecycle!Terminate, PhaseMap, TerminatingMap, HeldMap
  <2> QED
    BY <2>3 DEF Lifecycle!Next
<1>11. CASE Advances(k)
  <2>1. UNCHANGED TerminatingMap
    BY <1>6, <1>11 DEF Advances, Stays
  <2>2. Lifecycle!Advance(k)
    BY <1>2, <1>3, <1>11, <2>1
    DEF Lifecycle!Advance, Advances, PhaseMap, TerminatingMap, HeldMap
  <2> QED
    BY <2>2 DEF Lifecycle!Next
<1>12. CASE Fails(k)
  <2>1. UNCHANGED TerminatingMap
    BY <1>6, <1>12 DEF Fails, Stays
  <2>2. Lifecycle!ReportFailure(k)
    BY <1>2, <1>3, <1>12, <2>1
    DEF Lifecycle!ReportFailure, Fails, Stays, PhaseMap, TerminatingMap, HeldMap
  <2> QED
    BY <2>2 DEF Lifecycle!Next
<1> QED
  BY <1>1, <1>7, <1>8, <1>9, <1>10, <1>11, <1>12

\* So is every step.
LEMMA IsLifecycle ==
  ASSUME Apart, LifeInv, [Next]_vars
  PROVE  [Lifecycle!Next]_(Lifecycle!lifecycleVars)
<1>1. CASE \E k \in Keys : domains'[k] # domains[k]
  BY <1>1, IsStored DEF Lifecycle!lifecycleVars, PhaseMap, TerminatingMap, HeldMap
<1>2. CASE \E k \in Keys : ~(HeldFor(k)' <=> HeldFor(k))
  BY <1>2, HeldStep, IsRegister, IsRelease DEF Lifecycle!Next
<1>3. CASE \A k \in Keys : domains'[k] = domains[k] /\ (HeldFor(k)' <=> HeldFor(k))
  <2>1. \A k \in Keys : HeldFor(k)' = HeldFor(k)
    BY <1>3, HeldBoolean
  <2> QED
    BY <1>3, <2>1 DEF Lifecycle!lifecycleVars
<1> QED
  BY <1>1, <1>2, <1>3

\* Initially nothing is there, and nothing held.
LEMMA InitLifecycle == Init => Lifecycle!Init
<1> SUFFICES ASSUME Init PROVE Lifecycle!Init
  OBVIOUS
<1>1. ASSUME NEW k \in Keys
      PROVE  domains[k] = Nil /\ Phase(domains[k]) = "absent" /\ HeldFor(k) = FALSE
  <2>1. \A s \in SpecsOf[k] : s.name \in Names
    BY StoreAssumption DEF Specs
  <2>2. ~HeldFor(k)
    BY <2>1 DEF Init, MailgunInit, HeldFor, Registered
  <2> QED
    BY <2>2, HeldBoolean DEF Init, StoreInit, Phase
<1> QED
  BY <1>1 DEF Lifecycle!Init

\* What the worker does call by call, on copies that may be old, with calls that
\* fail, restarts and users who write meanwhile, is for a user a step of the life
\* cycle or none: a domain is registered only for an object that is there and not
\* yet created, a state is reported only of a domain that is held, and an object
\* goes away only when nothing is held for it.
THEOREM KeepsLifecycle ==
  ASSUME Apart
  PROVE  Spec => Lifecycle!Spec
<1>1. LifeInv /\ [Next]_vars => LifeInv'
  BY NextLifeInv
<1>2. LifeInv /\ [Next]_vars => [Lifecycle!Next]_(Lifecycle!lifecycleVars)
  BY IsLifecycle
<1> QED
  BY <1>1, <1>2, InitLifeInv, InitLifecycle, PTL DEF Spec, Lifecycle!Spec
=============================================================================
