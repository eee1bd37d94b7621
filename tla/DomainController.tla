-------------------------- MODULE DomainController --------------------------
(***************************************************************************)
(* The Domain controller (internal/controller/domain/domain_controller.go) *)
(* with the parts of controller-runtime it runs on: the informer's events, *)
(* the work queue, the one worker, the delayed retries, and restarts of    *)
(* the manager.  Each call to the API server or to Mailgun is one step of  *)
(* the worker, named by pc before it is made; what Reconcile computes      *)
(* between two calls belongs to the step of the first.  A call can fail    *)
(* without effect, or take effect and lose its answer.                     *)
(***************************************************************************)
EXTENDS ClusterStore, MailgunDomains

CONSTANTS
  DomainVerifyDuration, \* seconds between two verifications
  Faulty,               \* the calls (values of pc) that may fail for no reason
  MaxFaults,            \* bound: how many calls do
  MaxRestarts,          \* bound: how often the manager restarts
  MaxLag                \* bound: versions the informer may miss when a reconcile starts

ASSUME ControllerAssumption ==
  /\ DomainVerifyDuration \in Int
  /\ MaxFaults \in Nat
  /\ MaxRestarts \in Nat
  /\ MaxLag \in Nat

VARIABLES
  queue,    \* keys waiting for the worker
  delayed,  \* keys that will be queued again later
  pc,       \* the call the worker is about to make
  key,      \* the key being reconciled, or Nil
  obj,      \* mailgunDomain, the copy in memory
  fresh,    \* whether that copy carries the stored resourceVersion
  faults,   \* calls that failed so far
  restarts  \* restarts so far

workerVars == <<pc, key, obj, fresh>>
vars == <<storeVars, mailgunVars, queue, delayed, workerVars, faults, restarts>>

Steps ==
  {"idle", "get", "addFinalizer", "lookup", "markExisting", "create", "export",
   "saveRecords", "saveFailed", "createEndpoint", "saveEndpoint", "fetch",
   "saveNotFound", "verify", "checkMX", "saveStatus", "delGetEndpoint",
   "delEndpoint", "noteEndpoint", "delLookup", "delDomain", "saveDeleteFailed",
   "removeFinalizer"}

-----------------------------------------------------------------------------
(* How a reconcile goes on. *)

name == obj.spec.name

Call(step, o, current) ==
  /\ pc' = step
  /\ obj' = o
  /\ fresh' = current
  /\ UNCHANGED <<key, delayed>>

Idle ==
  /\ pc' = "idle"
  /\ key' = Nil
  /\ obj' = Nil
  /\ fresh' = FALSE

\* return ctrl.Result{}, nil
Return ==
  /\ Idle
  /\ UNCHANGED delayed

\* return ctrl.Result{}, err: the key is queued again after a backoff.
ReturnError ==
  /\ Idle
  /\ delayed' = delayed \cup {key}

\* Mutant: no requeue after a verification.
NeverRequeue == Return

\* return ctrl.Result{RequeueAfter: DomainVerifyDuration * time.Second}, nil
RequeueAfterVerify == IF DomainVerifyDuration > 0 THEN ReturnError ELSE Return

\* A call that fails although nothing is wrong with it.
Fault ==
  /\ pc \in Faulty
  /\ faults < MaxFaults
  /\ faults' = faults + 1

NoFault == UNCHANGED faults

\* A call that returns an error and has no effect: always when its condition
\* does not hold, and otherwise by fault.
FailsUnless(condition) == (~condition /\ NoFault) \/ Fault

\* An update of the Domain that the API server takes.
Saved(o) ==
  /\ fresh
  /\ Store(key, o)
  /\ NoFault

\* An update that returns an error: it conflicts, is lost on the way, or its
\* answer is.
SaveFails(o) ==
  \/ ~fresh /\ NoFault /\ UNCHANGED <<domains, pending>>
  \/ Fault /\ UNCHANGED <<domains, pending>>
  \/ Fault /\ fresh /\ Store(key, o)

\* What a step on the Domain leaves alone, and one on Mailgun.
StoreStep == UNCHANGED <<cache, endpoints, epCache, epSynced, secrets, uids,
                         edits, mailgunVars, queue, restarts>>
MailgunStep == UNCHANGED <<storeVars, dnsReady, mxReady, outside, queue, restarts>>

\* A step that only reads.
ReadStep == UNCHANGED <<storeVars, mailgunVars, queue, restarts>>

-----------------------------------------------------------------------------
(* Reconcile up to the finalizer. *)

Dequeue(k) ==
  /\ pc = "idle"
  /\ k \in queue
  /\ Len(pending[k]) <= MaxLag
  /\ queue' = queue \ {k}
  /\ pc' = "get"
  /\ key' = k
  /\ UNCHANGED <<storeVars, mailgunVars, delayed, obj, fresh, faults, restarts>>

\* Mutant: forgets that the DNSEndpoint has been created.
NeedsEndpointAgain(o) == o.spec.externalDNS

NeedsEndpoint(o) == o.spec.externalDNS /\ ~o.status.dnsCreated

\* Mutant: a failed Domain is verified again.
ContinueFailed(o, current) ==
  \/ /\ o.status.state = "activated"
     /\ Return
  \/ /\ o.status.state \in {"created", "failed"}
     /\ Call(IF NeedsEndpoint(o) THEN "createEndpoint" ELSE "fetch", o, current)

\* From a known status.state on: nothing for a final one, otherwise the
\* DNSEndpoint when one is asked for and missing, and the verification.
Continue(o, current) ==
  \/ /\ o.status.state \in {"failed", "activated"}
     /\ Return
  \/ /\ o.status.state = "created"
     /\ Call(IF NeedsEndpoint(o) THEN "createEndpoint" ELSE "fetch", o, current)

\* From the end of the finalizer block on.
Provision(o, current) ==
  \/ o.status.state = "" /\ Call("lookup", o, current)
  \/ Continue(o, current)

Get ==
  /\ pc = "get"
  /\ LET o == cache[key]
         current == pending[key] = <<>>
     IN  \/ o = Nil /\ Return
         \/ /\ o # Nil
            /\ ~o.deleting
            /\ "domain" \notin o.finalizers
            /\ Call("addFinalizer", o, current)
         \/ /\ o # Nil
            /\ o.deleting
            /\ "domain" \in o.finalizers
            /\ Call("delGetEndpoint", o, current)
         \/ /\ o # Nil
            /\ o.deleting # ("domain" \in o.finalizers)
            /\ Provision(o, current)
  /\ NoFault
  /\ ReadStep

\* Mutant: goes on without the finalizer when the update fails.
AddFinalizerAnyway ==
  /\ pc = "addFinalizer"
  /\ LET o == WithFinalizer(obj, "domain")
     IN  \/ Saved(o) /\ Provision(o, TRUE)
         \/ SaveFails(o) /\ Provision(o, FALSE)
  /\ StoreStep

\* Mutant: puts the finalizer on without the optimistic lock.
AddFinalizerUnlocked ==
  /\ pc = "addFinalizer"
  /\ LET o == WithFinalizer(obj, "domain")
     IN  /\ domains[key] # Nil
         /\ Store(key, o)
         /\ Provision(o, TRUE)
  /\ NoFault
  /\ StoreStep

AddFinalizer ==
  /\ pc = "addFinalizer"
  /\ LET o == WithFinalizer(obj, "domain")
     IN  \/ Saved(o) /\ Provision(o, TRUE)
         \/ SaveFails(o) /\ ReturnError
  /\ StoreStep

-----------------------------------------------------------------------------
(* Creation at Mailgun. *)

\* GetDomain succeeds: somebody else's domain.  Any error: create it.
Lookup ==
  /\ pc = "lookup"
  /\ \/ /\ Registered(name)
        /\ NoFault
        /\ Call("markExisting",
                [WithState(obj, "failed") EXCEPT !.status.notManaged = TRUE], fresh)
     \/ /\ FailsUnless(Registered(name))
        /\ Call("create", obj, fresh)
  /\ ReadStep

MarkExisting ==
  /\ pc = "markExisting"
  /\ \/ Saved(obj) /\ Return
     \/ SaveFails(obj) /\ ReturnError
  /\ StoreStep

\* createDomain up to CreateDomain.  The caller turns every error of
\* createDomain into the failed state.
Create ==
  /\ pc = "create"
  /\ LET register == /\ Register(name, obj.uid, passwords + 1)
                     /\ passwords' = passwords + 1
     IN  \/ /\ register
            /\ NoFault
            /\ Call(IF obj.spec.export = "off" THEN "saveRecords" ELSE "export",
                    obj, fresh)
         \/ /\ register
            /\ Fault
            /\ Call("saveFailed", WithState(obj, "failed"), fresh)
         \/ /\ FailsUnless(~Registered(name))
            /\ UNCHANGED <<mailgun, passwords>>
            /\ Call("saveFailed", WithState(obj, "failed"), fresh)
  /\ MailgunStep

\* Mutant: leaves a Secret that exists as it is.
ExportOnce ==
  /\ pc = "export"
  /\ NoFault
  /\ secrets' = IF secrets[key] # 0 THEN secrets ELSE [secrets EXCEPT ![key] = passwords]
  /\ Call("saveRecords", obj, fresh)
  /\ UNCHANGED <<domains, cache, pending, endpoints, epCache, epSynced, uids,
                 edits, mailgunVars, queue, restarts>>

\* exportCredentialsToSecret.  Without a Secret name it dereferences nil, and
\* the recovered panic is an error of Reconcile.
Export ==
  /\ pc = "export"
  /\ \/ /\ obj.spec.export = "unnamed"
        /\ NoFault
        /\ UNCHANGED secrets
        /\ ReturnError
     \/ /\ obj.spec.export = "named"
        /\ NoFault
        /\ secrets' = [secrets EXCEPT ![key] = passwords]
        /\ Call("saveRecords", obj, fresh)
     \/ /\ obj.spec.export = "named"
        /\ Fault
        /\ secrets' \in {secrets, [secrets EXCEPT ![key] = passwords]}
        /\ Call("saveFailed", WithState(obj, "failed"), fresh)
  /\ UNCHANGED <<domains, cache, pending, endpoints, epCache, epSynced, uids,
                 edits, mailgunVars, queue, restarts>>

\* The first save still says state "": created is set after it, in memory.
SaveRecords ==
  /\ pc = "saveRecords"
  /\ \/ Saved(obj) /\ Continue(WithState(obj, "created"), TRUE)
     \/ /\ SaveFails(obj)
        /\ Call("saveFailed", WithState(obj, "failed"),
                fresh /\ pending' = pending)
  /\ StoreStep

\* Mutant: a state the controller does not know.
SaveProcessing ==
  /\ pc = "saveFailed"
  /\ Saved(WithState(obj, "processing"))
  /\ Return
  /\ StoreStep

SaveFailed ==
  /\ pc = "saveFailed"
  /\ \/ Saved(obj) /\ Return
     \/ SaveFails(obj) /\ ReturnError
  /\ StoreStep

-----------------------------------------------------------------------------
(* The DNSEndpoint. *)

\* Mutant: takes every error for "already exists".
CreateEndpointAnyway ==
  /\ pc = "createEndpoint"
  /\ \/ endpoints[key] = 0 /\ endpoints' = [endpoints EXCEPT ![key] = obj.uid] /\ NoFault
     \/ FailsUnless(endpoints[key] = 0) /\ UNCHANGED endpoints
  /\ Call("saveEndpoint", [obj EXCEPT !.status.dnsCreated = TRUE], fresh)
  /\ UNCHANGED <<domains, cache, pending, epCache, epSynced, secrets, uids, edits,
                 mailgunVars, queue, restarts>>

CreateEndpoint ==
  /\ pc = "createEndpoint"
  /\ LET create == /\ endpoints[key] = 0
                   /\ endpoints' = [endpoints EXCEPT ![key] = obj.uid]
     IN  \/ /\ create
            /\ NoFault
            /\ Call("saveEndpoint", [obj EXCEPT !.status.dnsCreated = TRUE], fresh)
         \/ create /\ Fault /\ ReturnError
         \/ /\ FailsUnless(endpoints[key] = 0)
            /\ UNCHANGED endpoints
            /\ ReturnError
  /\ UNCHANGED <<domains, cache, pending, epCache, epSynced, secrets, uids, edits,
                 mailgunVars, queue, restarts>>

SaveEndpoint ==
  /\ pc = "saveEndpoint"
  /\ \/ Saved(obj) /\ Call("fetch", obj, TRUE)
     \/ SaveFails(obj) /\ ReturnError
  /\ StoreStep

-----------------------------------------------------------------------------
(* Verification. *)

Fetch ==
  /\ pc = "fetch"
  /\ \/ /\ Registered(name)
        /\ NoFault
        /\ Call("verify", obj, fresh)
     \/ /\ FailsUnless(Registered(name))
        /\ Call("saveNotFound", WithState(obj, "failed"), fresh)
  /\ ReadStep

SaveNotFound ==
  /\ pc = "saveNotFound"
  /\ \/ Saved(obj) /\ Return
     \/ SaveFails(obj) /\ ReturnError
  /\ StoreStep

Verify ==
  /\ pc = "verify"
  /\ \/ /\ Registered(name)
        /\ NoFault
        /\ \/ VerifiedActive(name) /\ obj.spec.forceMX /\ Call("checkMX", obj, fresh)
           \/ /\ VerifiedActive(name)
              /\ ~obj.spec.forceMX
              /\ Call("saveStatus", WithState(obj, "activated"), fresh)
           \/ ~VerifiedActive(name) /\ Call("saveStatus", obj, fresh)
     \/ /\ FailsUnless(Registered(name))
        /\ ReturnError
  /\ ReadStep

\* Mutant: activates whatever the MX records say.
CheckMXLater ==
  /\ pc = "checkMX"
  /\ NoFault
  /\ Call("saveStatus", WithState(obj, "activated"), fresh)
  /\ ReadStep

\* checkMXRecordsAndSetState: an error leaves the state as it is.
CheckMX ==
  /\ pc = "checkMX"
  /\ \/ /\ Registered(name)
        /\ ReceivingValid(name)
        /\ NoFault
        /\ Call("saveStatus", WithState(obj, "activated"), fresh)
     \/ /\ FailsUnless(Registered(name) /\ ReceivingValid(name))
        /\ Call("saveStatus", obj, fresh)
  /\ ReadStep

SaveStatus ==
  /\ pc = "saveStatus"
  /\ \/ Saved(obj) /\ RequeueAfterVerify
     \/ SaveFails(obj) /\ ReturnError
  /\ StoreStep

-----------------------------------------------------------------------------
(* deleteDomain. *)

\* Mutant: takes the finalizer off before the clean-up.
ReleaseFirst ==
  /\ pc = "delGetEndpoint"
  /\ Saved(WithoutFinalizer(obj, "domain"))
  /\ Call("delLookup", obj, FALSE)
  /\ StoreStep

\* The first Get of a DNSEndpoint starts the informer and waits for its list.
\* When none is found, the Delete that follows carries an empty name and
\* fails before it reaches the API server.
DelGetEndpoint ==
  /\ pc = "delGetEndpoint"
  /\ \/ /\ epSynced' = TRUE
        /\ epCache' = IF epSynced THEN epCache ELSE endpoints
        /\ NoFault
        /\ Call(IF epCache'[key] # 0 THEN "delEndpoint" ELSE "noteEndpoint", obj, fresh)
     \/ Fault /\ ReturnError /\ UNCHANGED <<epSynced, epCache>>
  /\ UNCHANGED <<domains, cache, pending, endpoints, secrets, uids, edits,
                 mailgunVars, queue, restarts>>

DelEndpoint ==
  /\ pc = "delEndpoint"
  /\ LET delete == /\ endpoints[key] # 0
                   /\ endpoints' = [endpoints EXCEPT ![key] = 0]
     IN  \/ delete /\ NoFault /\ Call("delLookup", obj, fresh)
         \/ delete /\ Fault /\ Call("noteEndpoint", obj, fresh)
         \/ /\ FailsUnless(endpoints[key] # 0)
            /\ UNCHANGED endpoints
            /\ Call("noteEndpoint", obj, fresh)
  /\ UNCHANGED <<domains, cache, pending, epCache, epSynced, secrets, uids, edits,
                 mailgunVars, queue, restarts>>

\* Meant to save the error, but an Update does not touch the status: the
\* stored object stays as it is, and only a conflict is noticed.
NoteEndpoint ==
  /\ pc = "noteEndpoint"
  /\ \/ fresh /\ NoFault /\ Call("delLookup", obj, TRUE)
     \/ /\ FailsUnless(fresh)
        /\ ReturnError
  /\ ReadStep

\* Mutant: a domain that is gone is an error.
DelLookupStrict ==
  /\ pc = "delLookup"
  /\ \/ Registered(name) /\ NoFault /\ Call("delDomain", obj, fresh)
     \/ FailsUnless(Registered(name)) /\ ReturnError
  /\ ReadStep

\* Every error of GetDomain counts as "already deleted".
DelLookup ==
  /\ pc = "delLookup"
  /\ \/ Registered(name) /\ NoFault /\ Call("delDomain", obj, fresh)
     \/ /\ FailsUnless(Registered(name))
        /\ Call("removeFinalizer", obj, fresh)
  /\ ReadStep

DelDomain ==
  /\ pc = "delDomain"
  /\ \/ Unregister(name) /\ NoFault /\ Call("removeFinalizer", obj, fresh)
     \/ Unregister(name) /\ Fault
        /\ Call("saveDeleteFailed", WithState(obj, "failed"), fresh)
     \/ /\ FailsUnless(Registered(name))
        /\ UNCHANGED mailgun
        /\ Call("saveDeleteFailed", WithState(obj, "failed"), fresh)
  /\ UNCHANGED passwords
  /\ MailgunStep

SaveDeleteFailed ==
  /\ pc = "saveDeleteFailed"
  /\ Saved(obj) \/ SaveFails(obj)
  /\ ReturnError
  /\ StoreStep

RemoveFinalizer ==
  /\ pc = "removeFinalizer"
  /\ LET o == WithoutFinalizer(obj, "domain")
     IN  \/ Saved(o) /\ Return
         \/ SaveFails(o) /\ ReturnError
  /\ StoreStep

Reconcile ==
  \/ Get \/ AddFinalizer
  \/ Lookup \/ MarkExisting \/ Create \/ Export \/ SaveRecords \/ SaveFailed
  \/ CreateEndpoint \/ SaveEndpoint
  \/ Fetch \/ SaveNotFound \/ Verify \/ CheckMX \/ SaveStatus
  \/ DelGetEndpoint \/ DelEndpoint \/ NoteEndpoint \/ DelLookup \/ DelDomain
  \/ SaveDeleteFailed \/ RemoveFinalizer

-----------------------------------------------------------------------------
(* The manager around the worker. *)

\* Mutant: looks at the spec alone.
PassesSpecOnly(old, new) ==
  \/ old = Nil
  \/ new = Nil
  \/ old.spec # new.spec

\* GenerationChangedPredicate filters updates only; the spec and the deletion
\* mark are what changes the generation.
PassesPredicate(old, new) ==
  \/ old = Nil
  \/ new = Nil
  \/ old.spec # new.spec
  \/ old.deleting # new.deleting

Deliver(k) ==
  /\ NextVersion(k)
  /\ queue' = IF PassesPredicate(cache[k], cache'[k]) THEN queue \cup {k} ELSE queue
  /\ UNCHANGED <<domains, endpoints, epCache, epSynced, secrets, uids, edits,
                 mailgunVars, delayed, workerVars, faults, restarts>>

DeliverEndpoint(k) ==
  /\ epSynced
  /\ epCache[k] # endpoints[k]
  /\ epCache' = [epCache EXCEPT ![k] = endpoints[k]]
  /\ UNCHANGED <<domains, cache, pending, endpoints, epSynced, secrets, uids, edits,
                 mailgunVars, queue, delayed, workerVars, faults, restarts>>

TimerFires(k) ==
  /\ k \in delayed
  /\ delayed' = delayed \ {k}
  /\ queue' = queue \cup {k}
  /\ UNCHANGED <<storeVars, mailgunVars, workerVars, faults, restarts>>

\* The manager dies at any point and starts again: the informer lists what is
\* stored, and every object it lists is queued.
Restart ==
  /\ restarts < MaxRestarts
  /\ restarts' = restarts + 1
  /\ Idle
  /\ cache' = domains
  /\ pending' = [k \in Keys |-> <<>>]
  /\ epSynced' = FALSE
  /\ epCache' = [k \in Keys |-> 0]
  /\ queue' = {k \in Keys : domains[k] # Nil}
  /\ delayed' = {}
  /\ UNCHANGED <<domains, endpoints, secrets, uids, edits, mailgunVars, faults>>

\* Users and the garbage collector move the stored version on.
OthersWrite(k) ==
  /\ UserCreate(k) \/ UserEdit(k) \/ UserDelete(k) \/ GarbageCollect(k)
  /\ fresh' = (fresh /\ key # k)
  /\ UNCHANGED <<cache, endpoints, epCache, epSynced, secrets, mailgunVars, queue,
                 delayed, pc, key, obj, faults, restarts>>

MailgunMoves(n) ==
  /\ PublishDNS(n) \/ PublishMX(n) \/ OutsideCreate(n) \/ OutsideDelete(n)
  /\ UNCHANGED <<storeVars, queue, delayed, workerVars, faults, restarts>>

Init ==
  /\ StoreInit
  /\ MailgunInit
  /\ queue = {}
  /\ delayed = {}
  /\ pc = "idle"
  /\ key = Nil
  /\ obj = Nil
  /\ fresh = FALSE
  /\ faults = 0
  /\ restarts = 0

Next ==
  \/ Reconcile
  \/ Restart
  \/ \E k \in Keys : \/ Dequeue(k) \/ Deliver(k) \/ DeliverEndpoint(k)
                     \/ TimerFires(k) \/ OthersWrite(k)
  \/ \E n \in Names : MailgunMoves(n)

Spec == Init /\ [][Next]_vars

\* What the process does as long as it runs: the worker makes its next call,
\* the informers deliver, the timers fire, and the first-in first-out queue
\* serves every key in turn.
Fairness ==
  /\ WF_vars(Reconcile)
  /\ \A k \in Keys : /\ WF_vars(Deliver(k))
                     /\ WF_vars(DeliverEndpoint(k))
                     /\ WF_vars(TimerFires(k))
                     /\ SF_vars(Dequeue(k))

FairSpec == Spec /\ Fairness

TypeOK ==
  /\ StoreTypeOK
  /\ MailgunTypeOK
  /\ queue \subseteq Keys
  /\ delayed \subseteq Keys
  /\ pc \in Steps
  /\ key \in Keys \cup {Nil}
  /\ obj \in Objects \cup {Nil}
  /\ fresh \in BOOLEAN
  /\ faults \in Nat
  /\ restarts \in Nat
=============================================================================
