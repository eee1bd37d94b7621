---------------------------- MODULE ClusterStore ----------------------------
(***************************************************************************)
(* The Kubernetes side of the operator: the objects the API server stores, *)
(* the informer cache of the manager that lags behind it, and what users   *)
(* and the garbage collector do to Domain objects.  None of it is code of  *)
(* this repository; it is modelled from how the controllers use it:        *)
(*  - an Update or Status().Update carries the resourceVersion of the copy *)
(*    it was made from and is refused when the stored object has moved on; *)
(*  - an object with finalizers is only marked on deletion, and leaves the *)
(*    store with its last finalizer;                                       *)
(*  - reads go through the cache, which delivers the versions of an object *)
(*    one after the other, at any delay.                                   *)
(***************************************************************************)
EXTENDS DomainObjects, Sequences

CONSTANTS
  SpecsOf,      \* SpecsOf[k]: the specs users may give to the Domain at key k
  DeleteModes,  \* deletion propagation users ask for
  MaxUid,       \* bound: how many Domain objects are ever created
  MaxEdits      \* bound: how many spec edits users make

ASSUME StoreAssumption ==
  /\ SpecsOf \in [Keys -> SUBSET Specs]
  /\ DeleteModes \subseteq {"background", "foreground"}
  /\ MaxUid \in Nat
  /\ MaxEdits \in Nat

VARIABLES
  domains,   \* domains[k]: the Domain stored at key k
  cache,     \* cache[k]: the version of it the informer has seen last
  pending,   \* pending[k]: the later versions, still on their way to the informer
  endpoints, \* endpoints[k]: uid of the Domain the DNSEndpoint at k was made for, or 0
  epCache,   \* the informer's copy of endpoints
  epSynced,  \* whether the DNSEndpoint informer runs: it starts at the first Get
  secrets,   \* secrets[k]: the SMTP password in the export Secret of k, or 0
  uids,      \* Domain objects created so far
  edits      \* spec edits so far

storeVars == <<domains, cache, pending, endpoints, epCache, epSynced, secrets,
               uids, edits>>

\* The stored object moves to a new version, which the watch will deliver.
Store(k, o) ==
  /\ domains' = [domains EXCEPT ![k] = o]
  /\ pending' = [pending EXCEPT ![k] = Append(@, o)]

\* The informer replaces its copy by the next version.
NextVersion(k) ==
  /\ pending[k] # <<>>
  /\ cache' = [cache EXCEPT ![k] = Head(pending[k])]
  /\ pending' = [pending EXCEPT ![k] = Tail(@)]

-----------------------------------------------------------------------------
(* Users and the garbage collector. *)

UserCreate(k) ==
  /\ domains[k] = Nil
  /\ uids < MaxUid
  /\ uids' = uids + 1
  /\ \E s \in SpecsOf[k] : Store(k, NewObject(uids + 1, s))
  /\ UNCHANGED edits

UserEdit(k) ==
  /\ domains[k] # Nil
  /\ edits < MaxEdits
  /\ edits' = edits + 1
  /\ \E s \in SpecsOf[k] \ {domains[k].spec} :
        Store(k, [domains[k] EXCEPT !.spec = s])
  /\ UNCHANGED uids

UserDelete(k) ==
  /\ domains[k] # Nil
  /\ ~domains[k].deleting
  /\ \E mode \in DeleteModes : Store(k, Deleted(domains[k], mode))
  /\ UNCHANGED <<uids, edits>>

\* No object is owned by a Domain, so the collector has only its own
\* finalizer to take off.
GarbageCollect(k) ==
  /\ domains[k] # Nil
  /\ domains[k].deleting
  /\ "foreground" \in domains[k].finalizers
  /\ Store(k, WithoutFinalizer(domains[k], "foreground"))
  /\ UNCHANGED <<uids, edits>>

StoreInit ==
  /\ domains = [k \in Keys |-> Nil]
  /\ cache = [k \in Keys |-> Nil]
  /\ pending = [k \in Keys |-> <<>>]
  /\ endpoints = [k \in Keys |-> 0]
  /\ epCache = [k \in Keys |-> 0]
  /\ epSynced = FALSE
  /\ secrets = [k \in Keys |-> 0]
  /\ uids = 0
  /\ edits = 0

StoreTypeOK ==
  /\ domains \in [Keys -> Objects \cup {Nil}]
  /\ cache \in [Keys -> Objects \cup {Nil}]
  /\ pending \in [Keys -> Seq(Objects \cup {Nil})]
  /\ endpoints \in [Keys -> Nat]
  /\ epCache \in [Keys -> Nat]
  /\ epSynced \in BOOLEAN
  /\ secrets \in [Keys -> Nat]
  /\ uids \in Nat
  /\ edits \in Nat
=============================================================================
