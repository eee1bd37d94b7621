------------------------------ MODULE MCDomain ------------------------------
(***************************************************************************)
(* Small instances of DomainController for TLC: the specs users switch     *)
(* between, and the calls that may fail.                                   *)
(***************************************************************************)
EXTENDS DomainProperties, DomainRefinement, TLC

CONSTANTS k1, n1

Plain(n) == [name |-> n, externalDNS |-> FALSE, forceMX |-> FALSE, export |-> "off"]
WithDNS(s) == [s EXCEPT !.externalDNS = TRUE]
WithMX(s) == [s EXCEPT !.forceMX = TRUE]
WithExport(s, e) == [s EXCEPT !.export = e]

Full(n) == WithDNS(WithExport(Plain(n), "named"))

\* One Domain with everything asked for, its MX check turned on and off.
MXToggled == k1 :> {Full(n1), WithMX(Full(n1))}

\* A Domain that starts plain or asks for an export without a Secret name.
Careless == k1 :> {Plain(n1), WithExport(WithMX(WithDNS(Plain(n1))), "unnamed")}

\* External DNS turned on and off.
DNSToggled == k1 :> {Plain(n1), WithDNS(Plain(n1))}

JustPlain == k1 :> {Plain(n1)}

\* Every call; a reconcile reads its Domain from memory.
AllCalls == Steps \ {"idle", "get"}

\* Every call but the lookup that precedes the deletion.
AllButDelLookup == AllCalls \ {"delLookup"}
=============================================================================
