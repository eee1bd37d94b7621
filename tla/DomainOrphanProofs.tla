------------------------- MODULE DomainOrphanProofs -------------------------
(***************************************************************************)
(* No domain stays at Mailgun without its Domain object, for any number of *)
(* keys, names, failed calls, restarts and edits.                          *)
(***************************************************************************)
EXTENDS DomainSafetyProofs

\* What NoOrphanedDomain takes: objects are deleted in the background, the
\* lookup before the deletion does not fail for a domain that is there, and an
\* edit does not rename the domain.
Orderly ==
  /\ DeleteModes \subseteq {"background"}
  /\ "delLookup" \notin Faulty
  /\ \A k \in Keys : \A s, t \in SpecsOf[k] : s.name = t.name

DelSteps == {"delGetEndpoint", "delEndpoint", "noteEndpoint", "delLookup", "delDomain",
             "saveDeleteFailed", "removeFinalizer"}

\* The calls after the finalizer block of a Domain that is not deleted.
ProvisionSteps == Steps \ ({"idle", "get", "addFinalizer"} \cup DelSteps)

\* What the informer holds of a key, or will.
Versions(k) == {cache[k]} \cup {pending[k][i] : i \in 1..Len(pending[k])}

\* An object of a key that is stored, cached, on its way, or in memory.
Known(k, d) ==
  /\ d # Nil
  /\ d = domains[k] \/ d \in Versions(k) \/ (Working /\ key = k /\ d = obj)

\* A uid is of one key.
UidsOK ==
  \A j, k \in Keys, a, b \in Objects :
    Known(j, a) /\ Known(k, b) /\ a.uid = b.uid => j = k

GoodObject(k, d) ==
  /\ d.spec \in SpecsOf[k]
  /\ d.finalizers \subseteq {"domain"}
  /\ d.deleting => "domain" \in d.finalizers

\* Without foreground deletion an object is marked only while the finalizer of
\* the controller holds it.
KnownOK ==
  \A k \in Keys, d \in Objects :
    Known(k, d) => GoodObject(k, d) /\ d.uid \in 1..uids

\* What is registered for an object is registered under its name.
OwnersOK ==
  \A n \in Names : Registered(n) /\ mailgun[n].owner # 0 =>
    /\ mailgun[n].owner <= uids
    /\ \A k \in Keys, d \in Objects :
         Known(k, d) /\ d.uid = mailgun[n].owner => d.spec.name = n

\* A version that is not deleted and shows the finalizer is no older than the
\* object that is stored, which still has it.
FinalizedOK ==
  \A k \in Keys, d \in Objects :
    d \in Versions(k) /\ ~d.deleting /\ "domain" \in d.finalizers =>
      /\ domains[k] # Nil
      /\ domains[k].uid = d.uid
      /\ "domain" \in domains[k].finalizers

\* Nothing is created for an object without the finalizer.
ProvisionOK ==
  pc \in ProvisionSteps =>
    /\ domains[key] # Nil
    /\ domains[key].uid = obj.uid
    /\ "domain" \in domains[key].finalizers

\* A deletion works on a deleted object; while its copy may be saved, the
\* informer holds nothing older.
DeleteOK ==
  pc \in DelSteps =>
    /\ obj.deleting
    /\ fresh => pending[key] = <<>> /\ cache[key] # Nil /\ cache[key].deleting

\* The finalizer goes when nothing is registered for the object any more.
ReleasedOK ==
  pc = "removeFinalizer" =>
    \A n \in Names : Registered(n) => mailgun[n].owner # obj.uid

OrphanInv ==
  /\ CopyInv
  /\ UidsOK
  /\ KnownOK
  /\ OwnersOK
  /\ FinalizedOK
  /\ ProvisionOK
  /\ DeleteOK
  /\ ReleasedOK
  /\ NoOrphanedDomain

-----------------------------------------------------------------------------
(* What the informer knows. *)

\* A store step adds one version.
LEMMA VersionsStore ==
  ASSUME TypeInv, NEW j \in Keys, NEW o \in MaybeObjects, Store(j, o), UNCHANGED cache,
         NEW k \in Keys
  PROVE  /\ domains'[k] = IF k = j THEN o ELSE domains[k]
         /\ Versions(k)' = IF k = j THEN Versions(k) \cup {o} ELSE Versions(k)
<1>1. /\ domains' = [domains EXCEPT ![j] = o]
      /\ pending' = [pending EXCEPT ![j] = Append(pending[j], o)]
      /\ domains \in [Keys -> MaybeObjects]
      /\ pending \in [Keys -> Seq(MaybeObjects)]
  BY DEF Store, TypeInv, StoreTypeOK, MaybeObjects
<1>2. CASE k = j
  <2> DEFINE p == pending[k]
             q == Append(p, o)
  <2>1. p \in Seq(MaybeObjects) /\ pending'[k] = q
    BY <1>1, <1>2
  <2>2. /\ Len(p) \in Nat
        /\ Len(q) = Len(p) + 1
        /\ \A i \in 1..Len(p) : q[i] = p[i]
        /\ q[Len(p) + 1] = o
    BY <2>1
  <2> HIDE DEF p, q
  <2>3. {q[i] : i \in 1..Len(q)} = {p[i] : i \in 1..Len(p)} \cup {o}
    <3>1. \A i \in 1..Len(q) : i \in 1..Len(p) \/ i = Len(p) + 1
      BY <2>2
    <3>2. \A i \in 1..Len(p) : i \in 1..Len(q)
      BY <2>2
    <3>3. Len(p) + 1 \in 1..Len(q)
      BY <2>2
    <3> QED
      BY <2>2, <3>1, <3>2, <3>3
  <2> QED
    BY <1>1, <1>2, <2>1, <2>3 DEF Versions, p
<1>3. CASE k # j
  BY <1>1, <1>3 DEF Versions
<1> QED
  BY <1>2, <1>3

\* A delivery drops one.
LEMMA VersionsDeliver ==
  ASSUME TypeInv, NEW j \in Keys, Deliver(j), NEW k \in Keys
  PROVE  domains'[k] = domains[k] /\ Versions(k)' \subseteq Versions(k)
<1>1. /\ pending[j] # <<>>
      /\ cache' = [cache EXCEPT ![j] = Head(pending[j])]
      /\ pending' = [pending EXCEPT ![j] = Tail(pending[j])]
      /\ domains' = domains
      /\ cache \in [Keys -> MaybeObjects]
      /\ pending \in [Keys -> Seq(MaybeObjects)]
  BY DEF Deliver, NextVersion, TypeInv, StoreTypeOK, MaybeObjects
<1>2. CASE k = j
  <2> DEFINE p == pending[k]
             q == Tail(p)
  <2>1. p \in Seq(MaybeObjects) /\ p # <<>> /\ pending'[k] = q /\ cache'[k] = Head(p)
    BY <1>1, <1>2
  <2>2. /\ Len(p) \in Nat /\ Len(p) > 0
        /\ Len(q) = Len(p) - 1
        /\ Head(p) = p[1]
        /\ \A i \in 1..Len(p) - 1 : q[i] = p[i + 1]
    BY <2>1
  <2> HIDE DEF p, q
  <2>3. \A i \in 1..Len(q) : \E m \in 1..Len(p) : q[i] = p[m]
    <3> SUFFICES ASSUME NEW i \in 1..Len(q) PROVE \E m \in 1..Len(p) : q[i] = p[m]
      OBVIOUS
    <3>1. i \in 1..Len(p) - 1 /\ i + 1 \in 1..Len(p)
      BY <2>2
    <3> QED
      BY <2>2, <3>1
  <2>4. \E m \in 1..Len(p) : Head(p) = p[m]
    <3>1. 1 \in 1..Len(p)
      BY <2>2
    <3> QED
      BY <2>2, <3>1
  <2> QED
    BY <1>1, <2>1, <2>3, <2>4 DEF Versions, p
<1>3. CASE k # j
  BY <1>1, <1>3 DEF Versions
<1> QED
  BY <1>2, <1>3

\* Forgetting everything but the store leaves one version.
LEMMA VersionsRestart ==
  ASSUME TypeInv, Restart, NEW k \in Keys
  PROVE  domains'[k] = domains[k] /\ Versions(k)' = {domains[k]}
<1>1. domains' = domains /\ cache'[k] = domains[k] /\ pending'[k] = <<>>
  BY DEF Restart
<1>2. Len(pending'[k]) = 0
  BY <1>1
<1> QED
  BY <1>1, <1>2 DEF Versions

-----------------------------------------------------------------------------
(* What a step knows of the objects. *)

\* A step besides the worker's, others' writes and the informer's leaves alone
\* what is known.
LEMMA Kinds ==
  ASSUME [Next]_vars
  PROVE  \/ Reconcile
         \/ Restart
         \/ \E j \in Keys : Dequeue(j) \/ Deliver(j) \/ OthersWrite(j)
         \/ UNCHANGED <<domains, cache, pending, uids, workerVars>>
BY DEF Next, vars, storeVars, DeliverEndpoint, TimerFires, MailgunMoves

\* An object that is known after a step is one that was, or is new.
LEMMA KnownStep ==
  ASSUME Orderly, TypeInv, KnownOK, [Next]_vars,
         NEW k \in Keys, NEW d \in Objects, Known(k, d)'
  PROVE  /\ GoodObject(k, d)
         /\ \/ \E e \in Objects : Known(k, e) /\ e.uid = d.uid
            \/ Created(k, d) /\ domains' = [domains EXCEPT ![k] = d]
<1> DEFINE Old == \E e \in Objects : Known(k, e) /\ e.uid = d.uid
<1> USE ObjectsAssumption
<1>1. d # Nil /\ (d = domains'[k] \/ d \in Versions(k)' \/ (Working' /\ key' = k /\ d = obj'))
  BY DEF Known
<1>2. ASSUME Known(k, d) PROVE GoodObject(k, d) /\ Old
  BY <1>2 DEF KnownOK
<1>3. ASSUME UNCHANGED <<domains, cache, pending>> PROVE domains'[k] = domains[k] /\ Versions(k)' = Versions(k)
  BY <1>3 DEF Versions
<1>4. CASE Reconcile
  <2>1. UNCHANGED cache /\ (Ending \/ Reading \/ GoingOn)
    BY <1>4, ReconcileShape
  <2>2. ASSUME NEW o \in Objects, Written(o), Working, k = key, o.uid = d.uid, o.spec = d.spec,
               o.deleting = d.deleting, o.finalizers = d.finalizers
        PROVE  GoodObject(k, d) /\ Old
    <3>1. obj \in Objects /\ Known(k, obj)
      BY <2>2 DEF Known, Working, TypeInv, WorkerTypeOK
    <3>2. GoodObject(k, obj)
      BY <3>1 DEF KnownOK
    <3>3. o.uid = obj.uid /\ o.spec = obj.spec /\ o.deleting = obj.deleting
          /\ o.finalizers \subseteq obj.finalizers \cup {"domain"}
          /\ \/ obj.finalizers \subseteq o.finalizers
             \/ ~(obj.deleting /\ obj.finalizers \subseteq {"domain"})
      BY <2>2 DEF Written
    <3> QED
      BY <2>2, <3>1, <3>2, <3>3 DEF GoodObject
  <2>3. ASSUME NEW o \in MaybeObjects, Store(key, o), Working, d = domains'[k] \/ d \in Versions(k)'
        PROVE  Known(k, d) \/ (k = key /\ d = o)
    <3>1. key \in Keys
      BY <2>3 DEF Working, TypeInv, WorkerTypeOK
    <3> QED
      BY <1>1, <2>1, <2>3, <3>1, VersionsStore DEF Known
  <2>4. CASE Ending
    <3>1. ~Working'
      BY <2>4 DEF Ending, Working
    <3>2. CASE UNCHANGED <<domains, pending>>
      BY <1>1, <1>2, <1>3, <2>1, <3>1, <3>2 DEF Known
    <3>3. CASE Working /\ \E o \in MaybeObjects : Written(o) /\ Store(key, o)
      BY <1>1, <1>2, <2>2, <2>3, <3>1, <3>3 DEF MaybeObjects
    <3> QED
      BY <2>4, <3>2, <3>3 DEF Ending
  <2>5. CASE Reading
    <3>1. UNCHANGED <<domains, cache, pending>> /\ key' = key /\ obj' = cache[key]
      BY <2>1, <2>5 DEF Reading
    <3>2. Known(k, d)
      BY <1>1, <1>3, <3>1 DEF Known, Versions
    <3> QED
      BY <1>2, <3>2
  <2>6. CASE GoingOn
    <3>1. Working /\ key' = key
      BY <2>6 DEF GoingOn
    <3>2. CASE /\ UNCHANGED <<domains, pending>>
               /\ obj'.uid = obj.uid /\ obj'.spec = obj.spec /\ obj'.deleting = obj.deleting
               /\ obj'.finalizers = obj.finalizers
      <4>1. CASE d = domains'[k] \/ d \in Versions(k)'
        BY <1>1, <1>2, <1>3, <2>1, <3>2, <4>1 DEF Known
      <4>2. CASE key' = k /\ d = obj'
        <5>1. obj \in Objects /\ Known(k, obj)
          BY <3>1, <4>2 DEF Known, Working, TypeInv, WorkerTypeOK
        <5> QED
          BY <3>2, <4>2, <5>1 DEF KnownOK, GoodObject
      <4> QED
        BY <1>1, <4>1, <4>2
    <3>3. CASE \E o \in Objects : Written(o) /\ Store(key, o) /\ SameCore(o, obj')
      <4>1. PICK o \in Objects : Written(o) /\ Store(key, o) /\ SameCore(o, obj')
        BY <3>3
      <4>2. CASE d = domains'[k] \/ d \in Versions(k)'
        BY <1>2, <2>2, <2>3, <3>1, <4>1, <4>2 DEF MaybeObjects
      <4>3. CASE key' = k /\ d = obj'
        BY <2>2, <3>1, <4>1, <4>3 DEF SameCore
      <4> QED
        BY <1>1, <4>2, <4>3
    <3> QED
      BY <2>6, <3>2, <3>3 DEF GoingOn
  <2> QED
    BY <2>1, <2>4, <2>5, <2>6
<1>5. CASE Restart
  <2>1. ~Working'
    BY <1>5 DEF Restart, Idle, Working
  <2>2. Known(k, d)
    BY <1>1, <1>5, <2>1, VersionsRestart DEF Known
  <2> QED
    BY <1>2, <2>2
<1>6. CASE \E j \in Keys : Dequeue(j)
  <2>1. ~Working' /\ UNCHANGED <<domains, cache, pending>>
    BY <1>6 DEF Dequeue, Working, storeVars
  <2>2. Known(k, d)
    BY <1>1, <1>3, <2>1 DEF Known
  <2> QED
    BY <1>2, <2>2
<1>7. CASE \E j \in Keys : Deliver(j)
  <2>1. UNCHANGED workerVars
    BY <1>7 DEF Deliver
  <2>2. Known(k, d)
    BY <1>1, <1>7, <2>1, VersionsDeliver DEF Known, workerVars, Working
  <2> QED
    BY <1>2, <2>2
<1>8. CASE \E j \in Keys : OthersWrite(j)
  <2>1. PICK j \in Keys : OthersWrite(j)
    BY <1>8
  <2>2. UNCHANGED <<cache, pc, key, obj>>
    BY <2>1, OthersShape
  <2>3. PICK o \in MaybeObjects :
          /\ Store(j, o)
          /\ \/ o = Nil /\ Gone(j)
             \/ o \in Objects /\ (Created(j, o) \/ Edited(j, o) \/ Moved(j, o))
    BY <2>1, OthersShape
  <2>4. Known(k, d) \/ (k = j /\ d = o)
    BY <1>1, <2>2, <2>3, VersionsStore DEF Known, Working
  <2>5. ASSUME k = j, d = o PROVE GoodObject(k, d) /\ (Old \/ (Created(k, d) /\ domains' = [domains EXCEPT ![k] = d]))
    <3>1. CASE Created(j, o)
      BY <2>3, <2>5, <3>1 DEF Created, Store, GoodObject
    <3>2. CASE Edited(j, o) \/ Moved(j, o)
      <4>1. domains[k] \in Objects /\ Known(k, domains[k])
        BY <2>5, <3>2 DEF Edited, Moved, Known, TypeInv, StoreTypeOK, MaybeObjects
      <4>2. GoodObject(k, domains[k])
        BY <4>1 DEF KnownOK
      <4>3. CASE Edited(j, o)
        BY <2>5, <4>1, <4>2, <4>3 DEF Edited, GoodObject
      <4>4. CASE Moved(j, o)
        <5>1. /\ o.uid = domains[k].uid /\ o.spec = domains[k].spec /\ o.deleting
              /\ o.finalizers \subseteq {"domain", "background"} /\ o.finalizers # {}
              /\ ~domains[k].deleting \/ "domain" \in o.finalizers
          BY <2>5, <4>2, <4>4 DEF Moved, GoodObject, Orderly
        <5>2. o.finalizers \subseteq {"domain"}
          BY <2>5, <5>1, <1>1 DEF Objects, Finalizers
        <5> QED
          BY <2>5, <4>1, <4>2, <5>1, <5>2 DEF GoodObject
      <4> QED
        BY <3>2, <4>3, <4>4
    <3> QED
      BY <1>1, <2>3, <2>5, <3>1, <3>2
  <2> QED
    BY <1>2, <2>4, <2>5
<1>9. CASE UNCHANGED <<domains, cache, pending, uids, workerVars>>
  <2>1. Known(k, d)
    BY <1>1, <1>3, <1>9 DEF Known, workerVars, Working
  <2> QED
    BY <1>2, <2>1
<1> QED
  BY <1>4, <1>5, <1>6, <1>7, <1>8, <1>9, Kinds

\* What the informer holds after a step it held before, or it is what the step
\* stored.
LEMMA VersionsStep ==
  ASSUME TypeInv, [Next]_vars, NEW k \in Keys, NEW d, d \in Versions(k)'
  PROVE  d \in Versions(k) \/ d = domains'[k]
<1>1. ASSUME UNCHANGED <<cache, pending>> PROVE Versions(k)' = Versions(k)
  BY <1>1 DEF Versions
<1>2. CASE Reconcile
  <2>1. UNCHANGED cache
    BY <1>2, ReconcileShape
  <2>2. CASE UNCHANGED pending
    BY <1>1, <2>1, <2>2
  <2>3. CASE Working /\ \E o \in MaybeObjects : Store(key, o)
    <3>1. key \in Keys
      BY <2>3 DEF Working, TypeInv, WorkerTypeOK
    <3> QED
      BY <2>1, <2>3, <3>1, VersionsStore
  <2> QED
    BY <1>2, <2>2, <2>3, ReconcileShape DEF Ending, Reading, GoingOn, MaybeObjects
<1>3. CASE \E j \in Keys : OthersWrite(j)
  <2>1. PICK j \in Keys, o \in MaybeObjects : Store(j, o) /\ UNCHANGED cache
    BY <1>3, OthersShape
  <2> QED
    BY <2>1, VersionsStore
<1>4. CASE Restart
  BY <1>4, VersionsRestart
<1>5. CASE \E j \in Keys : Deliver(j)
  BY <1>5, VersionsDeliver
<1>6. CASE (\E j \in Keys : Dequeue(j)) \/ UNCHANGED <<domains, cache, pending, uids, workerVars>>
  BY <1>1, <1>6 DEF Dequeue, storeVars
<1> QED
  BY <1>2, <1>3, <1>4, <1>5, <1>6, Kinds

\* The count of uids never goes back.
LEMMA UidsGrow ==
  ASSUME TypeInv, [Next]_vars
  PROVE  uids' \in Nat /\ uids \in Nat /\ uids' >= uids
<1>1. uids \in Nat
  BY DEF TypeInv, StoreTypeOK
<1>2. CASE Reconcile
  BY <1>1, <1>2, ReconcileShape
<1>3. CASE Restart \/ (\E j \in Keys : Dequeue(j) \/ Deliver(j))
  BY <1>1, <1>3 DEF Restart, Dequeue, Deliver, storeVars
<1>4. CASE \E j \in Keys : OthersWrite(j)
  <2>1. uids' = uids \/ uids' = uids + 1
    BY <1>4, OthersShape DEF Created, Edited, Moved, Gone
  <2> QED
    BY <1>1, <2>1
<1>5. CASE UNCHANGED <<domains, cache, pending, uids, workerVars>>
  BY <1>1, <1>5
<1> QED
  BY <1>2, <1>3, <1>4, <1>5, Kinds

\* Objects stay well formed.
LEMMA KnownStays ==
  ASSUME Orderly, TypeInv, KnownOK, [Next]_vars
  PROVE  KnownOK'
<1> SUFFICES ASSUME NEW k \in Keys, NEW d \in Objects, Known(k, d)'
             PROVE  GoodObject(k, d) /\ d.uid \in 1..uids'
  BY DEF KnownOK, GoodObject
<1>1. GoodObject(k, d)
  BY KnownStep
<1>2. CASE \E e \in Objects : Known(k, e) /\ e.uid = d.uid
  <2>1. d.uid \in 1..uids
    BY <1>2 DEF KnownOK
  <2> QED
    BY <1>1, <2>1, UidsGrow
<1>3. CASE Created(k, d)
  BY <1>1, <1>3, UidsGrow DEF Created
<1> QED
  BY <1>2, <1>3, KnownStep

\* Uids stay apart.
LEMMA UidsStay ==
  ASSUME Orderly, TypeInv, KnownOK, UidsOK, [Next]_vars
  PROVE  UidsOK'
<1> SUFFICES ASSUME NEW j \in Keys, NEW k \in Keys, NEW a \in Objects, NEW b \in Objects,
                    Known(j, a)', Known(k, b)', a.uid = b.uid
             PROVE  j = k
  BY DEF UidsOK
<1> DEFINE Old(i, d) == \E e \in Objects : Known(i, e) /\ e.uid = d.uid
           New(i, d) == Created(i, d) /\ domains' = [domains EXCEPT ![i] = d]
<1>1. Old(j, a) \/ New(j, a)
  BY KnownStep
<1>2. Old(k, b) \/ New(k, b)
  BY KnownStep
<1>3. \A i \in Keys, d \in Objects : Old(i, d) => d.uid \in 1..uids
  BY DEF KnownOK
<1>4. \A i \in Keys, d \in Objects : New(i, d) => d.uid = uids + 1
  BY DEF Created
<1>5. CASE Old(j, a) /\ Old(k, b)
  BY <1>5 DEF UidsOK
<1>6. CASE New(j, a) /\ New(k, b)
  <2>1. domains \in [Keys -> MaybeObjects]
    BY DEF TypeInv, StoreTypeOK, MaybeObjects
  <2>2. domains[j] = Nil /\ domains'[j] = a /\ a # Nil
    BY <1>6, <2>1, ObjectsAssumption DEF Created
  <2> QED
    BY <1>6, <2>1, <2>2
<1> HIDE DEF Old, New
<1> QED
  BY <1>1, <1>2, <1>3, <1>4, <1>5, <1>6, UidsGrow

-----------------------------------------------------------------------------
(* What is registered. *)

\* Only the creation registers a domain for an object, under its name.
LEMMA MailgunShape ==
  ASSUME TypeInv, [Next]_vars, NEW n \in Names, Registered(n)', mailgun'[n].owner # 0
  PROVE  \/ Registered(n) /\ mailgun[n].owner = mailgun'[n].owner
         \/ /\ Create
            /\ n = name
            /\ mailgun'[n].owner = obj.uid
            /\ UNCHANGED <<domains, cache, pending, uids, key>>
<1>1. mailgun \in [Names -> Registrations \cup {Nil}]
  BY DEF TypeInv, MailgunTypeOK
<1>2. CASE UNCHANGED mailgun
  BY <1>2 DEF Registered
<1>3. CASE Create
  <2>1. name \in Names
    BY <1>3 DEF Create, name, TypeInv, WorkerTypeOK, Objects, Specs
  <2>2. CASE Register(name, obj.uid, passwords + 1)
    <3>1. CASE n = name
      <4>1. mailgun'[n].owner = obj.uid
        BY <1>1, <2>1, <2>2, <3>1 DEF Register
      <4>2. UNCHANGED <<domains, cache, pending, uids, key>>
        BY <1>3 DEF Create, MailgunStep, Call, storeVars
      <4> QED
        BY <1>3, <3>1, <4>1, <4>2
    <3>2. CASE n # name
      BY <1>1, <2>1, <2>2, <3>2 DEF Register, Registered
    <3> QED
      BY <3>1, <3>2
  <2> QED
    BY <1>2, <1>3, <2>2 DEF Create
<1>4. CASE DelDomain
  <2>1. name \in Names
    BY <1>4 DEF DelDomain, name, TypeInv, WorkerTypeOK, Objects, Specs
  <2>2. CASE Unregister(name)
    BY <1>1, <2>1, <2>2 DEF Unregister, Registered
  <2> QED
    BY <1>2, <1>4, <2>2 DEF DelDomain
<1>5. CASE Reconcile /\ ~Create /\ ~DelDomain
  BY <1>2, <1>5
  DEF Reconcile, Get, AddFinalizer, Lookup, MarkExisting, Export, SaveRecords, SaveFailed,
      CreateEndpoint, SaveEndpoint, Fetch, SaveNotFound, Verify, CheckMX, SaveStatus,
      DelGetEndpoint, DelEndpoint, NoteEndpoint, DelLookup, SaveDeleteFailed, RemoveFinalizer,
      ReadStep, StoreStep, mailgunVars
<1>6. CASE \/ Restart
           \/ \E k \in Keys : \/ Dequeue(k) \/ Deliver(k) \/ DeliverEndpoint(k)
                              \/ TimerFires(k) \/ OthersWrite(k)
           \/ UNCHANGED vars
  BY <1>2, <1>6
  DEF Restart, Dequeue, Deliver, DeliverEndpoint, TimerFires, OthersWrite, vars, mailgunVars
<1>7. CASE \E m \in Names : MailgunMoves(m)
  <2>1. PICK m \in Names : MailgunMoves(m)
    BY <1>7
  <2>2. CASE OutsideCreate(m)
    BY <1>1, <2>2 DEF OutsideCreate, Register, Registered
  <2>3. CASE OutsideDelete(m)
    BY <1>1, <2>3 DEF OutsideDelete, Unregister, Registered
  <2>4. CASE PublishDNS(m) \/ PublishMX(m)
    BY <1>2, <2>4 DEF PublishDNS, PublishMX
  <2> QED
    BY <2>1, <2>2, <2>3, <2>4 DEF MailgunMoves
<1> QED
  BY <1>3, <1>4, <1>5, <1>6, <1>7 DEF Next

\* What is registered stays registered under the name of its object.
LEMMA OwnersStay ==
  ASSUME Orderly, TypeInv, KnownOK, UidsOK, OwnersOK, [Next]_vars
  PROVE  OwnersOK'
<1> SUFFICES ASSUME NEW n \in Names, Registered(n)', mailgun'[n].owner # 0
             PROVE  /\ mailgun'[n].owner <= uids'
                    /\ \A k \in Keys, d \in Objects :
                         Known(k, d)' /\ d.uid = mailgun'[n].owner => d.spec.name = n
  BY DEF OwnersOK
<1> DEFINE u == mailgun'[n].owner
<1>1. u <= uids /\ \A k \in Keys, e \in Objects : Known(k, e) /\ e.uid = u => e.spec.name = n
  <2>1. CASE Registered(n) /\ mailgun[n].owner = u
    BY <2>1 DEF OwnersOK
  <2>2. CASE Create /\ n = name /\ u = obj.uid
    <3>1. key \in Keys /\ obj \in Objects /\ Known(key, obj)
      BY <2>2, ObjectsAssumption DEF Create, Known, Working, TypeInv, WorkerTypeOK
    <3>2. u <= uids
      BY <2>2, <3>1, UidsGrow DEF KnownOK
    <3>3. ASSUME NEW k \in Keys, NEW e \in Objects, Known(k, e), e.uid = u
          PROVE  e.spec.name = n
      <4>1. k = key
        BY <2>2, <3>1, <3>3 DEF UidsOK
      <4>2. e.spec \in SpecsOf[key] /\ obj.spec \in SpecsOf[key]
        BY <3>1, <3>3, <4>1 DEF KnownOK, GoodObject
      <4> QED
        BY <2>2, <3>1, <4>2 DEF Orderly, name
    <3> QED
      BY <3>2, <3>3
  <2> QED
    BY <2>1, <2>2, MailgunShape
<1>2. u \in Nat
  BY NextTyped DEF TypeInv, MailgunTypeOK, Registered, Registrations
<1>3. ASSUME NEW k \in Keys, NEW d \in Objects, Known(k, d)', d.uid = u
      PROVE  d.spec.name = n
  <2>1. ~Created(k, d)
    BY <1>1, <1>2, <1>3, UidsGrow DEF Created
  <2>2. PICK e \in Objects : Known(k, e) /\ e.uid = u
    BY <1>3, <2>1, KnownStep
  <2>3. e.spec \in SpecsOf[k] /\ d.spec \in SpecsOf[k]
    BY <1>3, <2>2, KnownStep DEF KnownOK, GoodObject
  <2> QED
    BY <1>1, <2>2, <2>3 DEF Orderly
<1> QED
  BY <1>1, <1>2, <1>3, UidsGrow

-----------------------------------------------------------------------------
(* The finalizer. *)

Held(k, uid) ==
  /\ domains[k] # Nil
  /\ domains[k].uid = uid
  /\ "domain" \in domains[k].finalizers

\* A stored object keeps the finalizer until the last call of its deletion.
LEMMA FinalizerStays ==
  ASSUME CopyInv, [Next]_vars, NEW k \in Keys, NEW uid, Held(k, uid)
  PROVE  \/ Held(k, uid)'
         \/ RemoveFinalizer /\ fresh /\ k = key /\ obj.uid = uid
<1>1. domains \in [Keys -> MaybeObjects] /\ (Working => key \in Keys)
  BY DEF CopyInv, TypeInv, StoreTypeOK, WorkerTypeOK, MaybeObjects, Working
<1>2. CASE UNCHANGED domains
  BY <1>2 DEF Held
<1>3. CASE Reconcile /\ ~UNCHANGED domains
  <2>1. PICK o \in MaybeObjects : Working /\ fresh /\ Written(o) /\ Store(key, o)
    BY <1>3, ReconcileShape DEF CopyInv, Ending, Reading, GoingOn, MaybeObjects
  <2>2. domains' = [domains EXCEPT ![key] = o]
    BY <2>1 DEF Store
  <2>3. CASE k # key
    BY <1>1, <2>2, <2>3 DEF Held
  <2>4. CASE k = key
    <3>1. obj.uid = uid /\ "domain" \in obj.finalizers
      BY <2>1, <2>4 DEF CopyInv, CopyOK, SameCore, Held
    <3>2. CASE o \in Objects /\ obj.finalizers \subseteq o.finalizers
      BY <1>1, <2>1, <2>2, <2>4, <3>1, <3>2, ObjectsAssumption DEF Held, Written
    <3>3. CASE pc = "removeFinalizer"
      <4>1. RemoveFinalizer
        BY <1>3, <3>3
        DEF Reconcile, Get, AddFinalizer, Lookup, MarkExisting, Create, Export, SaveRecords,
            SaveFailed, CreateEndpoint, SaveEndpoint, Fetch, SaveNotFound, Verify, CheckMX,
            SaveStatus, DelGetEndpoint, DelEndpoint, NoteEndpoint, DelLookup, DelDomain,
            SaveDeleteFailed
      <4> QED
        BY <2>1, <2>4, <3>1, <4>1
    <3> QED
      BY <2>1, <3>2, <3>3 DEF Written
  <2> QED
    BY <2>3, <2>4
<1>4. CASE \E j \in Keys : OthersWrite(j)
  <2>1. PICK j \in Keys : OthersWrite(j)
    BY <1>4
  <2>2. PICK o \in MaybeObjects :
          /\ Store(j, o)
          /\ \/ o = Nil /\ Gone(j)
             \/ o \in Objects /\ (Created(j, o) \/ Edited(j, o) \/ Moved(j, o))
    BY <2>1, OthersShape DEF CopyInv
  <2>3. CASE k # j
    BY <1>1, <2>2, <2>3 DEF Held, Store
  <2>4. CASE k = j
    <3>1. o \in Objects /\ o.uid = uid /\ "domain" \in o.finalizers
      BY <2>2, <2>4 DEF Held, Gone, Created, Edited, Moved
    <3> QED
      BY <1>1, <2>2, <2>4, <3>1, ObjectsAssumption DEF Held, Store
  <2> QED
    BY <2>3, <2>4
<1>5. CASE Restart \/ (\E j \in Keys : Dequeue(j) \/ Deliver(j))
  BY <1>2, <1>5 DEF Restart, Dequeue, Deliver, storeVars
<1> QED
  BY <1>2, <1>3, <1>4, <1>5, Kinds

\* A version that shows the finalizer is of a stored object that has it.
LEMMA FinalizedStays ==
  ASSUME CopyInv, FinalizedOK, DeleteOK, [Next]_vars
  PROVE  FinalizedOK'
<1> SUFFICES ASSUME NEW k \in Keys, NEW d \in Objects, d \in Versions(k)',
                    ~d.deleting, "domain" \in d.finalizers
             PROVE  Held(k, d.uid)'
  BY DEF FinalizedOK, Held
<1> USE ObjectsAssumption
<1>1. ASSUME d = domains'[k] PROVE Held(k, d.uid)'
  BY <1>1 DEF Held
<1>2. ASSUME d \in Versions(k) PROVE Held(k, d.uid)'
  <2>1. Held(k, d.uid)
    BY <1>2 DEF FinalizedOK, Held
  <2>2. ASSUME RemoveFinalizer, fresh, k = key PROVE FALSE
    <3>1. pending[k] = <<>> /\ cache[k].deleting
      BY <2>2 DEF RemoveFinalizer, DeleteOK, DelSteps
    <3>2. Versions(k) = {cache[k]}
      BY <3>1 DEF Versions
    <3> QED
      BY <1>2, <3>1, <3>2
  <2> QED
    BY <2>1, <2>2, FinalizerStays
<1>3. d \in Versions(k) \/ d = domains'[k]
  BY VersionsStep DEF CopyInv
<1> QED
  BY <1>1, <1>2, <1>3

\* How the worker gets to a call after the finalizer block, or of a deletion.
LEMMA CallsShape ==
  ASSUME TypeInv, Reconcile, pc' \in ProvisionSteps \cup DelSteps
  PROVE  /\ key' = key /\ key \in Keys
         /\ \/ /\ pc = "get" /\ pc' # "removeFinalizer"
               /\ cache[key] # Nil /\ obj' = cache[key]
               /\ fresh' <=> pending[key] = <<>>
               /\ UNCHANGED <<domains, cache, pending>>
               /\ IF pc' \in DelSteps
                  THEN cache[key].deleting
                  ELSE cache[key].deleting # ("domain" \in cache[key].finalizers)
            \/ /\ pc = "addFinalizer" /\ pc' \in ProvisionSteps
               /\ obj \in Objects
               /\ Store(key, WithFinalizer(obj, "domain"))
               /\ obj' = WithFinalizer(obj, "domain")
            \/ pc \in ProvisionSteps /\ pc' \in ProvisionSteps /\ obj'.uid = obj.uid
            \/ /\ pc \in DelSteps /\ pc' \in DelSteps
               /\ UNCHANGED <<domains, cache, pending>>
               /\ obj'.deleting = obj.deleting
               /\ fresh' => fresh
<1>1. UNCHANGED cache /\ (Reading \/ GoingOn) /\ pc # "idle"
  BY ReconcileShape DEF Ending, Reading, GoingOn, Working, ProvisionSteps, DelSteps
<1>2. key' = key /\ key \in Keys
  BY <1>1 DEF Reading, GoingOn, TypeInv, WorkerTypeOK
<1>3. CASE Get
  <2>1. pc = "get" /\ Reading
    BY <1>1, <1>3 DEF Get, GoingOn, Working
  <2>2. CASE pc' \in DelSteps
    <3>1. pc' = "delGetEndpoint" /\ cache[key].deleting
      BY <1>3, <2>1, <2>2
      DEF Get, Return, Idle, Call, Provision, Continue, DelSteps
    <3> QED
      BY <1>1, <1>2, <2>1, <2>2, <3>1 DEF Reading
  <2>3. CASE pc' \in ProvisionSteps
    <3>1. cache[key].deleting # ("domain" \in cache[key].finalizers)
      BY <1>3, <2>3 DEF Get, Return, Idle, Call, ProvisionSteps, DelSteps
    <3>2. pc' \notin DelSteps /\ pc' # "removeFinalizer"
      BY <2>3 DEF ProvisionSteps, DelSteps
    <3> QED
      BY <1>1, <1>2, <2>1, <3>1, <3>2 DEF Reading
  <2> QED
    BY <2>2, <2>3
<1>4. CASE AddFinalizer
  <2>1. /\ pc = "addFinalizer" /\ obj \in Objects
        /\ Store(key, WithFinalizer(obj, "domain"))
        /\ Provision(WithFinalizer(obj, "domain"), TRUE)
    BY <1>4 DEF AddFinalizer, Saved, ReturnError, Idle, ProvisionSteps, DelSteps,
                TypeInv, WorkerTypeOK
  <2>2. /\ pc' \in {"lookup", "createEndpoint", "fetch"}
        /\ obj' = WithFinalizer(obj, "domain")
    BY <2>1, ProvisionShape DEF ProvisionSteps, DelSteps
  <2> QED
    BY <1>2, <2>1, <2>2 DEF ProvisionSteps, DelSteps, Steps
<1>5. CASE DelGetEndpoint \/ DelEndpoint \/ NoteEndpoint \/ DelLookup \/ DelDomain
  <2>1. /\ pc \in DelSteps
        /\ pc' \in DelSteps \cup {"idle"}
        /\ UNCHANGED <<domains, pending>>
    BY <1>5 DEF DelGetEndpoint, DelEndpoint, NoteEndpoint, DelLookup, DelDomain, Call, ReturnError,
                Idle, ReadStep, MailgunStep, storeVars, DelSteps
  <2>2. GoingOn /\ pc # "removeFinalizer"
    BY <1>1, <1>5, <2>1 DEF Reading, DelSteps, DelGetEndpoint, DelEndpoint, NoteEndpoint, DelLookup, DelDomain
  <2>3. fresh' => fresh
    BY <1>5 DEF DelGetEndpoint, DelEndpoint, NoteEndpoint, DelLookup, DelDomain, Call, ReturnError, Idle
  <2> QED
    BY <1>1, <1>2, <2>1, <2>2, <2>3 DEF GoingOn, ProvisionSteps, DelSteps
<1>6. CASE SaveDeleteFailed \/ RemoveFinalizer
  BY <1>6 DEF SaveDeleteFailed, RemoveFinalizer, Return, ReturnError, Idle, ProvisionSteps, DelSteps
<1>7. CASE \/ Lookup \/ MarkExisting \/ Create \/ Export \/ SaveRecords \/ SaveFailed
           \/ CreateEndpoint \/ SaveEndpoint \/ Fetch \/ SaveNotFound \/ Verify \/ CheckMX
           \/ SaveStatus
  <2>1. pc \in ProvisionSteps /\ pc # "get"
    BY <1>7 DEF Lookup, MarkExisting, Create, Export, SaveRecords, SaveFailed, CreateEndpoint,
                SaveEndpoint, Fetch, SaveNotFound, Verify, CheckMX, SaveStatus, ProvisionSteps,
                DelSteps, Steps
  <2>2. pc' \in ProvisionSteps \cup {"idle"}
    BY <1>7 DEF Lookup, MarkExisting, Create, Export, SaveRecords, SaveFailed, CreateEndpoint,
                SaveEndpoint, Fetch, SaveNotFound, Verify, CheckMX, SaveStatus, ProvisionSteps,
                DelSteps, Steps, Call, Return, ReturnError, RequeueAfterVerify, Idle, Continue
  <2>3. obj'.uid = obj.uid
    BY <1>1, <2>1 DEF Reading, GoingOn
  <2> QED
    BY <1>2, <2>1, <2>2, <2>3 DEF ProvisionSteps, DelSteps
<1> QED
  BY <1>3, <1>4, <1>5, <1>6, <1>7 DEF Reconcile

\* Nothing is created for an object without the finalizer.
LEMMA ProvisionStays ==
  ASSUME Orderly, CopyInv, KnownOK, FinalizedOK, ProvisionOK, [Next]_vars
  PROVE  ProvisionOK'
<1> SUFFICES ASSUME pc' \in ProvisionSteps PROVE Held(key, obj.uid)'
  BY DEF ProvisionOK, Held
<1>1. domains \in [Keys -> MaybeObjects] /\ cache \in [Keys -> MaybeObjects]
  BY DEF CopyInv, TypeInv, StoreTypeOK, MaybeObjects
<1>2. ASSUME pc \in ProvisionSteps, key' = key, obj'.uid = obj.uid
      PROVE  Held(key, obj.uid)'
  <2>1. Held(key, obj.uid) /\ key \in Keys
    BY <1>2 DEF ProvisionOK, Held, CopyInv, TypeInv, WorkerTypeOK, ProvisionSteps
  <2>2. ~RemoveFinalizer
    BY <1>2 DEF RemoveFinalizer, ProvisionSteps, DelSteps
  <2>3. /\ domains'[key] # Nil
        /\ domains'[key].uid = obj.uid
        /\ "domain" \in domains'[key].finalizers
    BY <2>1, <2>2, FinalizerStays DEF Held
  <2> QED
    BY <1>2, <2>3 DEF Held
<1>3. CASE Reconcile
  <2>1. CASE /\ pc = "get" /\ cache[key] # Nil /\ obj' = cache[key]
             /\ UNCHANGED domains
             /\ cache[key].deleting # ("domain" \in cache[key].finalizers)
             /\ key' = key /\ key \in Keys
    <3>1. cache[key] \in Objects /\ cache[key] \in Versions(key)
      BY <1>1, <2>1 DEF MaybeObjects, Versions
    <3>2. GoodObject(key, cache[key])
      BY <2>1, <3>1 DEF KnownOK, Known
    <3>3. cache[key].deleting \in BOOLEAN
      BY <3>1 DEF Objects
    <3>4. ~cache[key].deleting /\ "domain" \in cache[key].finalizers
      BY <2>1, <3>2, <3>3 DEF GoodObject
    <3> QED
      BY <2>1, <3>1, <3>4 DEF FinalizedOK, Held
  <2>2. CASE /\ obj \in Objects
             /\ Store(key, WithFinalizer(obj, "domain"))
             /\ obj' = WithFinalizer(obj, "domain")
             /\ key' = key /\ key \in Keys
    <3>1. WithFinalizer(obj, "domain") \in Objects
          /\ "domain" \in WithFinalizer(obj, "domain").finalizers
      BY <2>2, WithFinalizerTyped DEF Finalizers
    <3>2. domains'[key] = obj'
      BY <1>1, <2>2 DEF Store
    <3> QED
      BY <2>2, <3>1, <3>2, ObjectsAssumption DEF Held
  <2> QED
    BY <1>2, <1>3, <2>1, <2>2, CallsShape DEF CopyInv, ProvisionSteps, DelSteps
<1>4. CASE (\E j \in Keys : Dequeue(j)) \/ Restart
  BY <1>4 DEF Dequeue, Restart, Idle, ProvisionSteps
<1>5. CASE \/ \E j \in Keys : Deliver(j) \/ OthersWrite(j)
           \/ UNCHANGED <<domains, cache, pending, uids, workerVars>>
  <2>1. UNCHANGED <<pc, key, obj>>
    BY <1>5, OthersShape DEF CopyInv, Deliver, workerVars
  <2> QED
    BY <1>2, <2>1
<1> QED
  BY <1>3, <1>4, <1>5, Kinds

\* While a deletion may save its copy, the informer holds nothing older.
LEMMA DeleteStays ==
  ASSUME CopyInv, DeleteOK, [Next]_vars
  PROVE  DeleteOK'
<1> SUFFICES ASSUME pc' \in DelSteps
             PROVE  /\ obj'.deleting
                    /\ fresh' => /\ pending'[key'] = <<>>
                                 /\ cache'[key'] # Nil
                                 /\ cache'[key'].deleting
  BY DEF DeleteOK
<1>1. CASE Reconcile
  <2>1. pc' \notin ProvisionSteps
    BY DEF ProvisionSteps
  <2> QED
    BY <1>1, <2>1, CallsShape DEF DeleteOK, CopyInv, DelSteps
<1>2. CASE (\E j \in Keys : Dequeue(j)) \/ Restart
  BY <1>2 DEF Dequeue, Restart, Idle, DelSteps
<1>3. CASE \E j \in Keys : Deliver(j)
  <2>1. PICK j \in Keys : Deliver(j)
    BY <1>3
  <2>2. /\ UNCHANGED workerVars
        /\ pending[j] # <<>>
        /\ cache' = [cache EXCEPT ![j] = Head(pending[j])]
        /\ pending' = [pending EXCEPT ![j] = Tail(pending[j])]
        /\ cache \in [Keys -> MaybeObjects]
        /\ pending \in [Keys -> Seq(MaybeObjects)]
        /\ key \in Keys
    BY <2>1 DEF Deliver, NextVersion, workerVars, CopyInv, TypeInv, StoreTypeOK, WorkerTypeOK,
                MaybeObjects, DelSteps
  <2> QED
    BY <2>2 DEF DeleteOK, workerVars
<1>4. CASE \E j \in Keys : OthersWrite(j)
  <2>1. PICK j \in Keys : OthersWrite(j)
    BY <1>4
  <2>2. /\ UNCHANGED <<cache, pc, key, obj>>
        /\ fresh' = (fresh /\ key # j)
        /\ \E o : Store(j, o)
    BY <2>1, OthersShape DEF CopyInv
  <2>3. pending \in [Keys -> Seq(MaybeObjects)] /\ key \in Keys
    BY <2>2 DEF CopyInv, TypeInv, StoreTypeOK, WorkerTypeOK, MaybeObjects, DelSteps
  <2> QED
    BY <2>2, <2>3 DEF DeleteOK, Store
<1>5. CASE UNCHANGED <<domains, cache, pending, uids, workerVars>>
  BY <1>5 DEF DeleteOK, workerVars
<1> QED
  BY <1>1, <1>2, <1>3, <1>4, <1>5, Kinds

\* The last call of a deletion comes when the name is free.
LEMMA ReleaseShape ==
  ASSUME Orderly, TypeInv, Reconcile, pc' = "removeFinalizer"
  PROVE  /\ obj' = obj /\ obj \in Objects /\ key \in Keys /\ Working
         /\ ~Registered(name)'
<1>1. DelLookup \/ DelDomain
  BY DEF Reconcile, Get, AddFinalizer, Lookup, MarkExisting, Create, Export, SaveRecords,
         SaveFailed, CreateEndpoint, SaveEndpoint, Fetch, SaveNotFound, Verify, CheckMX,
         SaveStatus, DelGetEndpoint, DelEndpoint, NoteEndpoint, SaveDeleteFailed,
         RemoveFinalizer, Call, Return, ReturnError, RequeueAfterVerify, Idle, Provision, Continue
<1>2. obj \in Objects /\ key \in Keys /\ Working
  BY <1>1 DEF DelLookup, DelDomain, TypeInv, WorkerTypeOK, Working
<1>3. CASE DelLookup
  BY <1>2, <1>3 DEF DelLookup, FailsUnless, Fault, Orderly, Call, ReadStep, mailgunVars,
                    Registered, name
<1>4. CASE DelDomain
  <2>1. Unregister(name) /\ obj' = obj
    BY <1>4 DEF DelDomain, Call
  <2>2. name \in Names /\ mailgun \in [Names -> Registrations \cup {Nil}]
    BY <1>2 DEF name, Objects, Specs, TypeInv, MailgunTypeOK
  <2> QED
    BY <1>2, <2>1, <2>2 DEF Unregister, Registered, name
<1> QED
  BY <1>1, <1>3, <1>4

\* Then nothing is registered for its object.
LEMMA ReleasedStays ==
  ASSUME Orderly, TypeInv, KnownOK, OwnersOK, ReleasedOK, [Next]_vars
  PROVE  ReleasedOK'
<1> SUFFICES ASSUME pc' = "removeFinalizer", NEW n \in Names, Registered(n)',
                    mailgun'[n].owner = obj'.uid
             PROVE  FALSE
  BY DEF ReleasedOK
<1> USE ObjectsAssumption
<1>1. CASE Reconcile
  <2>1. /\ obj' = obj /\ obj \in Objects /\ key \in Keys /\ Working
        /\ ~Registered(name)'
    BY <1>1, ReleaseShape
  <2>2. Known(key, obj) /\ obj.uid \in 1..uids
    BY <2>1 DEF Known, KnownOK
  <2>3. mailgun'[n].owner # 0
    BY <2>1, <2>2, UidsGrow
  <2>4. CASE Create
    BY <2>4 DEF Create, Call, Return, ReturnError, Idle
  <2>5. CASE Registered(n) /\ mailgun[n].owner = mailgun'[n].owner
    <3>1. obj.spec.name = n
      BY <2>1, <2>2, <2>3, <2>5 DEF OwnersOK
    <3> QED
      BY <2>1, <3>1 DEF name, Registered
  <2> QED
    BY <2>3, <2>4, <2>5, MailgunShape
<1>2. CASE (\E j \in Keys : Dequeue(j)) \/ Restart
  BY <1>2 DEF Dequeue, Restart, Idle
<1>3. CASE \/ \E j \in Keys : Deliver(j) \/ OthersWrite(j)
           \/ UNCHANGED <<domains, cache, pending, uids, workerVars>>
  <2>1. UNCHANGED <<pc, key, obj>>
    BY <1>3, OthersShape DEF Deliver, workerVars
  <2>2. obj \in Objects /\ key \in Keys /\ Working
    BY <2>1 DEF TypeInv, WorkerTypeOK, Working
  <2>3. Known(key, obj) /\ obj.uid \in 1..uids
    BY <2>2 DEF Known, KnownOK
  <2>4. mailgun'[n].owner # 0
    BY <2>1, <2>3, UidsGrow
  <2>5. ~Create
    BY <2>1 DEF Create
  <2> QED
    BY <2>1, <2>4, <2>5, MailgunShape DEF ReleasedOK
<1> QED
  BY <1>1, <1>2, <1>3, Kinds

\* No step leaves a domain behind.
LEMMA OrphansStay ==
  ASSUME OrphanInv, [Next]_vars
  PROVE  NoOrphanedDomain'
<1> SUFFICES ASSUME NEW n \in Names, Registered(n)', mailgun'[n].owner # 0
             PROVE  \E k \in Keys : Held(k, mailgun[n].owner)'
  BY DEF NoOrphanedDomain, Held
<1>1. TypeInv
  BY DEF OrphanInv, CopyInv
<1>2. CASE Create /\ mailgun'[n].owner = obj.uid /\ UNCHANGED domains
  <2>1. pc \in ProvisionSteps /\ key \in Keys
    BY <1>1, <1>2 DEF Create, ProvisionSteps, DelSteps, Steps, TypeInv, WorkerTypeOK
  <2> QED
    BY <1>2, <2>1 DEF OrphanInv, ProvisionOK, Held
<1>3. CASE Registered(n) /\ mailgun[n].owner = mailgun'[n].owner
  <2>1. PICK k \in Keys : Held(k, mailgun[n].owner)
    BY <1>3 DEF OrphanInv, NoOrphanedDomain, Held
  <2>2. ~(RemoveFinalizer /\ obj.uid = mailgun[n].owner)
    BY <1>3 DEF OrphanInv, ReleasedOK, RemoveFinalizer
  <2>3. /\ domains'[k] # Nil
        /\ domains'[k].uid = mailgun[n].owner
        /\ "domain" \in domains'[k].finalizers
    BY <2>1, <2>2, FinalizerStays DEF OrphanInv, Held
  <2> QED
    BY <1>3, <2>3 DEF Held
<1> QED
  BY <1>1, <1>2, <1>3, MailgunShape

-----------------------------------------------------------------------------
(* The theorem. *)

\* Initially nothing is stored or registered.
LEMMA InitOrphanInv == Init => OrphanInv
<1> SUFFICES ASSUME Init PROVE OrphanInv
  OBVIOUS
<1>1. CopyInv
  BY InitCopyInv
<1>2. ASSUME NEW k \in Keys PROVE domains[k] = Nil /\ Versions(k) = {Nil}
  <2>1. domains[k] = Nil /\ cache[k] = Nil /\ pending[k] = <<>>
    BY DEF Init, StoreInit
  <2>2. Len(pending[k]) = 0
    BY <2>1
  <2> QED
    BY <2>1, <2>2 DEF Versions
<1>3. ~Working /\ \A n \in Names : ~Registered(n)
  BY DEF Init, MailgunInit, Working, Registered
<1>4. \A k \in Keys, d \in Objects : ~Known(k, d)
  BY <1>2, <1>3, ObjectsAssumption DEF Known
<1>5. pc = "idle"
  BY DEF Init
<1>6. UidsOK /\ KnownOK /\ OwnersOK /\ NoOrphanedDomain
  BY <1>3, <1>4 DEF UidsOK, KnownOK, OwnersOK, NoOrphanedDomain
<1>7. FinalizedOK /\ ProvisionOK /\ DeleteOK /\ ReleasedOK
  BY <1>2, <1>5, ObjectsAssumption
  DEF FinalizedOK, ProvisionOK, DeleteOK, ReleasedOK, ProvisionSteps, DelSteps
<1> QED
  BY <1>1, <1>6, <1>7 DEF OrphanInv

\* Every step keeps the invariant.
LEMMA NextOrphanInv ==
  ASSUME Orderly, OrphanInv, [Next]_vars
  PROVE  OrphanInv'
<1>1. CopyInv'
  BY NextCopyInv DEF OrphanInv
<1>2. UidsOK' /\ KnownOK' /\ OwnersOK'
  BY UidsStay, KnownStays, OwnersStay DEF OrphanInv, CopyInv
<1>3. FinalizedOK' /\ ProvisionOK'
  BY FinalizedStays, ProvisionStays DEF OrphanInv
<1>4. DeleteOK' /\ ReleasedOK'
  BY DeleteStays, ReleasedStays DEF OrphanInv, CopyInv
<1> QED
  BY <1>1, <1>2, <1>3, <1>4, OrphansStay DEF OrphanInv

\* The finalizer is there so that no domain stays at Mailgun behind a Domain
\* object that is gone: every domain the operator registered belongs to a
\* stored object that still holds it.
THEOREM NoOrphans ==
  ASSUME Orderly
  PROVE  Spec => []NoOrphanedDomain
<1>1. OrphanInv /\ [Next]_vars => OrphanInv'
  BY NextOrphanInv
<1>2. OrphanInv => NoOrphanedDomain
  BY DEF OrphanInv
<1> QED
  BY <1>1, <1>2, InitOrphanInv, PTL DEF Spec
=============================================================================
