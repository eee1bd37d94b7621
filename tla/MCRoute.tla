------------------------------ MODULE MCRoute ------------------------------
(* Small instances of RouteController for TLC. *)
EXTENDS RouteProperties, TLC

CONSTANTS k1, b1, b2, n1

Wanted(body, priority, actions, domain) ==
  [request |-> [body |-> body, priority |-> priority, actions |-> actions], domain |-> domain]

Forward == <<1>>
Store2 == <<2>>
ForwardAndStop == <<1, 2>>

Lists == {Forward, Store2, ForwardAndStop}

\* A Route that waits for its domain, or asks for something else without one.
Edited == k1 :> {Wanted(b1, 0, Forward, n1), Wanted(b2, 1, ForwardAndStop, NoDomain)}

\* One that waits all the time, and keeps its body.
Waiting == k1 :> {Wanted(b1, 0, Forward, n1), Wanted(b1, 1, ForwardAndStop, n1)}

\* An edit that replaces an action.
Replaced == k1 :> {Wanted(b1, 1, Forward, NoDomain), Wanted(b1, 1, Store2, NoDomain)}

\* Every call but the two lookups whose error is taken for an answer; a reconcile
\* reads its Route from memory.
AllButLookups == Steps \ {"idle", "get", "getRoute", "delGetRoute"}
=============================================================================
