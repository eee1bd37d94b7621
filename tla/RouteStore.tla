----------------------------- MODULE RouteStore -----------------------------
(***************************************************************************)
(* The Route custom resource as the API server stores it, the informer     *)
(* that shows it to the controller with a delay, and the users who create, *)
(* edit and delete it.  Not code of this repository but for the fields of  *)
(* a Route; modelled from how the controller uses it, like ClusterStore.   *)
(***************************************************************************)
EXTENDS Integers, Sequences

CONSTANTS
  Keys,        \* namespaced names of Route objects
  Nil,         \* no object
  Bodies,      \* description and expression of a route, as one value
  Priorities,  \* priorities of a route, 0 for none
  ActionLists, \* lists of actions
  Domains,     \* Mailgun domain names
  NoDomain,    \* a Route without spec.domain
  SpecsOf,     \* SpecsOf[k]: the specs users may give to the Route at key k
  MaxUid,      \* bound: how many Route objects are ever created
  MaxEdits     \* bound: how many spec edits users make

Requests == [body : Bodies, priority : Priorities, actions : ActionLists]

Specs == [request : Requests, domain : Domains \cup {NoDomain}]

\* MailgunError by where it comes from; it is never cleared.
Errors == {"", "domain", "inactive", "create", "update", "delete"}

\* id is status.route_id, 0 for none.
Routes == [uid : Nat, spec : Specs, deleting : BOOLEAN, finalizer : BOOLEAN,
           id : Nat, error : Errors]

ASSUME RouteStoreAssumption ==
  /\ Nil \notin Keys
  /\ Nil \notin Routes
  /\ NoDomain \notin Domains
  /\ Priorities \subseteq Nat
  /\ ActionLists \subseteq Seq(Nat)
  /\ SpecsOf \in [Keys -> SUBSET Specs]
  /\ MaxUid \in Nat
  /\ MaxEdits \in Nat

VARIABLES
  routes,  \* routes[k]: the Route stored at key k
  cache,   \* cache[k]: the version of it the informer has seen last
  pending, \* pending[k]: the later versions, still on their way to the informer
  uids,    \* Route objects created so far
  edits    \* spec edits so far

storeVars == <<routes, cache, pending, uids, edits>>

\* The stored object moves to a new version, unless the write changes nothing.
Store(k, r) ==
  /\ routes' = [routes EXCEPT ![k] = r]
  /\ pending' = IF r = routes[k] THEN pending ELSE [pending EXCEPT ![k] = Append(@, r)]

\* The informer replaces its copy by the next version.
NextVersion(k) ==
  /\ pending[k] # <<>>
  /\ cache' = [cache EXCEPT ![k] = Head(pending[k])]
  /\ pending' = [pending EXCEPT ![k] = Tail(@)]

UserCreate(k) ==
  /\ routes[k] = Nil
  /\ uids < MaxUid
  /\ uids' = uids + 1
  /\ \E s \in SpecsOf[k] :
       Store(k, [uid |-> uids + 1, spec |-> s, deleting |-> FALSE, finalizer |-> FALSE,
                 id |-> 0, error |-> ""])
  /\ UNCHANGED edits

UserEdit(k) ==
  /\ routes[k] # Nil
  /\ edits < MaxEdits
  /\ edits' = edits + 1
  /\ \E s \in SpecsOf[k] \ {routes[k].spec} : Store(k, [routes[k] EXCEPT !.spec = s])
  /\ UNCHANGED uids

\* The finalizer holds a deleted object back.
UserDelete(k) ==
  /\ routes[k] # Nil
  /\ ~routes[k].deleting
  /\ Store(k, IF routes[k].finalizer THEN [routes[k] EXCEPT !.deleting = TRUE] ELSE Nil)
  /\ UNCHANGED <<uids, edits>>

\* Without it a deleted object goes.
Released(r) == IF r.deleting THEN Nil ELSE [r EXCEPT !.finalizer = FALSE]

StoreInit ==
  /\ routes = [k \in Keys |-> Nil]
  /\ cache = [k \in Keys |-> Nil]
  /\ pending = [k \in Keys |-> <<>>]
  /\ uids = 0
  /\ edits = 0

StoreTypeOK ==
  /\ routes \in [Keys -> Routes \cup {Nil}]
  /\ cache \in [Keys -> Routes \cup {Nil}]
  /\ pending \in [Keys -> Seq(Routes \cup {Nil})]
  /\ uids \in Nat
  /\ edits \in Nat
=============================================================================
